--------------------------- MODULE SourcesProofs ---------------------------
(***************************************************************************)
(* Proofs about CaptureSources, for any number of cameras, taps and frames *)
(* and any decimation, and about EngineSources, the daemon's view of the   *)
(* native engine, for any number of callers, engines and taps.             *)
(*                                                                         *)
(* SourcesInv is the inductive invariant of the first; SourcesSafe alone   *)
(* is not inductive: that the handles cover what is open needs to know who *)
(* may still release it, that a stopped tap is quiet needs to know which   *)
(* frames are in flight, and that no gap is hidden needs to know how far   *)
(* the tap is behind the camera.  EngineInv, of the second, knows who      *)
(* holds an engine or a tap between two steps, where the sources do not    *)
(* name it yet or no longer do.                                            *)
(***************************************************************************)
EXTENDS CaptureSources, EngineSources, FiniteSetTheorems, TLAPS

-----------------------------------------------------------------------------
(* CaptureSources.  Taps and cameras are numbered as they are made, and each has  *)
(* its own threads: a thread, an opener or a stopper only ever names one of these. *)

Holding == {"register", "warm", "attach", "launch"}
Submitting == {"submit", "report", "finish"}

\* Whoever is between two steps with a camera or a tap has one that was made.
OpenersPoint == \A p \in Openers : opener[p].at \in Holding => opener[p].camera \in 1..cameras
PumpsPoint ==
    /\ \A c \in Cameras : pump[c].at # "none" => c <= cameras
    /\ \A c \in Cameras : pump[c].at \in Submitting \cup {"begin"} => pump[c].tap \in 1..taps
StoppersPoint ==
    \A s \in Stoppers : stopper[s].at \in {"wait", "imu", "join"} => stopper[s].tap \in 1..taps
Pointed == current <= taps /\ OpenersPoint /\ PumpsPoint /\ StoppersPoint

\* A camera whose opener is not done with it is that opener's alone.
FreshCameras ==
    \A p \in Openers : opener[p].at \in Holding =>
        /\ pump[opener[p].camera].at = "none"
        /\ \A q \in Openers \ {p} :
              opener[q].at \in Holding => opener[q].camera # opener[p].camera

\* What was not made yet is untouched, and a tap begins its thread once.
Untouched == \A t \in Taps : t > taps => tap[t] = NoTap
Launched == opener["recording"].at = "imu" => taps # 0 /\ tap[taps].thread = "none"

\* An IMU is released by its thread, at the end of it.
ImuHeld ==
    \A t \in Taps : t <= taps /\ tap[t].thread # "ended" => tap[t].imu \in {"open", "shut"}

\* A failure is reported once, and it is told once for that.
Told ==
    \A t \in Taps :
        /\ tap[t].reported = FALSE => told[t] = 0 /\ stopper[Reporter(t)].at = "idle"
        /\ told[t] + (IF stopper[Reporter(t)].at = "idle" THEN 0 ELSE 1) <= 1

\* The frames of a tap that are being submitted.
Flying(t) == {c \in Cameras : pump[c].at \in Submitting /\ pump[c].tap = t}
FlyingCounted == \A t \in Taps : tap[t].inflight = Cardinality(Flying(t))

\* A tap that is being stopped takes no frame any more, and a stop that goes on in time has
\* seen the last one through.
Stopped ==
    /\ \A t \in Taps : tap[t].reported = TRUE \/ t \in quiet => tap[t].stopping = TRUE
    /\ \A s \in Stoppers :
          /\ stopper[s].at \in {"wait", "imu", "join"} => tap[stopper[s].tap].stopping = TRUE
          /\ stopper[s].at \in {"imu", "join"} /\ stopper[s].late = FALSE =>
                tap[stopper[s].tap].inflight = 0
    /\ \A t \in quiet : tap[t].inflight = 0 /\ tap[t].thread = "ended"

\* One camera was opened: its frame is the last one read, and a tap that takes one observed it.
PumpFollowed ==
    /\ pump[1].at \in {"snapshot", "begin", "submit"} => pump[1].frame = seen
    /\ pump[1].at = "none" => \A t \in Taps : tap[t].observed = 0
    /\ pump[1].at \in Submitting => tap[pump[1].tap].observed > 0
    /\ \A t \in Taps : tap[t].observed = 0 => tap[t].count = 0

\* A frame that is submitted without a gap comes Decimation after the last one.
Due(t) ==
    pump[1].at = "submit" /\ pump[1].tap = t /\ pump[1].gap = 0 /\ tap[t].count > 0 =>
        seen = tap[t].start + Decimation * tap[t].count

\* The frames read and not yet observed by the tap.
Behind == IF pump[1].at \in {"snapshot", "begin"} THEN pump[1].gap + 1 ELSE 0

\* A tap that takes frames has observed all of them since its first, and taken every
\* Decimation-th.
Follows(t) ==
    current = t /\ tap[t].stopping = FALSE /\ tap[t].observed > 0 =>
        /\ pump[1].at \in Submitting \cup {"begin"} => pump[1].tap = t
        /\ pump[1].at \in {"loop", "snapshot", "begin", "finish"} =>
              /\ tap[t].count > 0 /\ tap[t].start + tap[t].observed - 1 + Behind = seen
              /\ Decimation * (tap[t].count - 1) < tap[t].observed
              /\ tap[t].observed <= Decimation * tap[t].count
        /\ pump[1].at = "submit" /\ pump[1].gap = 0 =>
              /\ tap[t].observed = Decimation * tap[t].count + 1
              /\ tap[t].count > 0 => tap[t].start + tap[t].observed - 1 = seen

\* The last one it took is where it must be.
InStep(t) ==
    tap[t].count > 0 => tap[t].last = tap[t].start + Decimation * (tap[t].count - 1)

Tracks == PumpFollowed /\ \A t \in Taps : Due(t) /\ Follows(t) /\ InStep(t)
Cadence == cameras <= 1 => Tracks

SourcesInv ==
    /\ SourcesTypeOK /\ Pointed /\ FreshCameras /\ Untouched /\ Launched /\ ImuHeld /\ HandlesHeld
    /\ Told /\ FlyingCounted /\ Stopped /\ Cadence

\* One lemma for each update of a tap: what it sets, and what it keeps.
LEMMA TapImu ==
    ASSUME NEW r \in TapStates, NEW i \in ImuStates
    PROVE  LET q == [r EXCEPT !.imu = i] IN
           /\ q \in TapStates
           /\ q.imu = i /\ q.thread = r.thread /\ q.stopping = r.stopping
           /\ q.inflight = r.inflight /\ q.reported = r.reported
           /\ q.observed = r.observed /\ q.count = r.count /\ q.start = r.start
           /\ q.last = r.last
  <1> DEFINE q == [r EXCEPT !.imu = i]
  <1>1. q \in TapStates
    BY DEF TapStates
  <1>2. q.imu = i /\ q.thread = r.thread
    BY DEF TapStates
  <1>3. q.stopping = r.stopping
    BY DEF TapStates
  <1>4. q.reported = r.reported
    BY DEF TapStates
  <1>5. /\ q.inflight = r.inflight /\ q.observed = r.observed /\ q.count = r.count
        /\ q.start = r.start /\ q.last = r.last
    BY DEF TapStates
  <1> QED BY <1>1, <1>2, <1>3, <1>4, <1>5

\* A step of the thread that reads its IMU.
LEMMA TapThread ==
    ASSUME NEW r \in TapStates, NEW step \in ImuSteps
    PROVE  LET q == [r EXCEPT !.thread = step] IN
           /\ q \in TapStates
           /\ q.thread = step /\ q.imu = r.imu /\ q.stopping = r.stopping
           /\ q.inflight = r.inflight /\ q.reported = r.reported
           /\ q.observed = r.observed /\ q.count = r.count /\ q.start = r.start
           /\ q.last = r.last
  <1> DEFINE q == [r EXCEPT !.thread = step]
  <1>1. q \in TapStates
    BY DEF TapStates
  <1>2. q.thread = step /\ q.imu = r.imu
    BY DEF TapStates
  <1>3. q.stopping = r.stopping
    BY DEF TapStates
  <1>4. q.reported = r.reported
    BY DEF TapStates
  <1>5. /\ q.inflight = r.inflight /\ q.observed = r.observed /\ q.count = r.count
        /\ q.start = r.start /\ q.last = r.last
    BY DEF TapStates
  <1> QED BY <1>1, <1>2, <1>3, <1>4, <1>5

\* The end of that thread.
LEMMA TapReleased ==
    ASSUME NEW r \in TapStates
    PROVE  LET q == [r EXCEPT !.thread = "ended", !.imu = "released"] IN
           /\ q \in TapStates
           /\ q.thread = "ended" /\ q.imu = "released" /\ q.stopping = r.stopping
           /\ q.inflight = r.inflight /\ q.reported = r.reported
           /\ q.observed = r.observed /\ q.count = r.count /\ q.start = r.start
           /\ q.last = r.last
  <1> DEFINE q == [r EXCEPT !.thread = "ended", !.imu = "released"]
  <1>1. q \in TapStates
    BY DEF TapStates, ImuStates, ImuSteps
  <1>2. q.thread = "ended" /\ q.imu = "released"
    BY DEF TapStates
  <1>3. q.stopping = r.stopping
    BY DEF TapStates
  <1>4. q.reported = r.reported
    BY DEF TapStates
  <1>5. /\ q.inflight = r.inflight /\ q.observed = r.observed /\ q.count = r.count
        /\ q.start = r.start /\ q.last = r.last
    BY DEF TapStates
  <1> QED BY <1>1, <1>2, <1>3, <1>4, <1>5

\* A stop() that takes it.
LEMMA TapStopping ==
    ASSUME NEW r \in TapStates
    PROVE  LET q == [r EXCEPT !.stopping = TRUE] IN
           /\ q \in TapStates
           /\ q.stopping = TRUE /\ q.imu = r.imu /\ q.thread = r.thread
           /\ q.inflight = r.inflight /\ q.reported = r.reported
           /\ q.observed = r.observed /\ q.count = r.count /\ q.start = r.start
           /\ q.last = r.last
  <1> DEFINE q == [r EXCEPT !.stopping = TRUE]
  <1>1. q \in TapStates
    BY DEF TapStates
  <1>2. q.imu = r.imu /\ q.thread = r.thread
    BY DEF TapStates
  <1>3. q.stopping = TRUE
    BY DEF TapStates
  <1>4. q.reported = r.reported
    BY DEF TapStates
  <1>5. /\ q.inflight = r.inflight /\ q.observed = r.observed /\ q.count = r.count
        /\ q.start = r.start /\ q.last = r.last
    BY DEF TapStates
  <1> QED BY <1>1, <1>2, <1>3, <1>4, <1>5

\* Its first failure.
LEMMA TapReported ==
    ASSUME NEW r \in TapStates
    PROVE  LET q == [r EXCEPT !.reported = TRUE, !.stopping = TRUE] IN
           /\ q \in TapStates
           /\ q.reported = TRUE /\ q.stopping = TRUE /\ q.imu = r.imu
           /\ q.thread = r.thread /\ q.inflight = r.inflight
           /\ q.observed = r.observed /\ q.count = r.count /\ q.start = r.start
           /\ q.last = r.last
  <1> DEFINE q == [r EXCEPT !.reported = TRUE, !.stopping = TRUE]
  <1>1. q \in TapStates
    BY DEF TapStates
  <1>2. q.imu = r.imu /\ q.thread = r.thread
    BY DEF TapStates
  <1>3. q.stopping = TRUE
    BY DEF TapStates
  <1>4. q.reported = TRUE
    BY DEF TapStates
  <1>5. /\ q.inflight = r.inflight /\ q.observed = r.observed /\ q.count = r.count
        /\ q.start = r.start /\ q.last = r.last
    BY DEF TapStates
  <1> QED BY <1>1, <1>2, <1>3, <1>4, <1>5

\* Its first failure, and it is the IMU.
LEMMA TapFailed ==
    ASSUME NEW r \in TapStates
    PROVE  LET q == [[r EXCEPT !.reported = TRUE, !.stopping = TRUE]
                       EXCEPT !.thread = "release"] IN
           /\ q \in TapStates
           /\ q.reported = TRUE /\ q.stopping = TRUE /\ q.thread = "release"
           /\ q.imu = r.imu /\ q.inflight = r.inflight /\ q.observed = r.observed
           /\ q.count = r.count /\ q.start = r.start /\ q.last = r.last
  <1> DEFINE q == [[r EXCEPT !.reported = TRUE, !.stopping = TRUE] EXCEPT !.thread = "release"]
  <1>1. q \in TapStates
    BY DEF TapStates, ImuSteps
  <1>2. q.thread = "release" /\ q.imu = r.imu
    BY DEF TapStates
  <1>3. q.stopping = TRUE
    BY DEF TapStates
  <1>4. q.reported = TRUE
    BY DEF TapStates
  <1>5. /\ q.inflight = r.inflight /\ q.observed = r.observed /\ q.count = r.count
        /\ q.start = r.start /\ q.last = r.last
    BY DEF TapStates
  <1> QED BY <1>1, <1>2, <1>3, <1>4, <1>5

\* A frame that was submitted.
LEMMA TapInflight ==
    ASSUME NEW r \in TapStates, NEW n \in Int
    PROVE  LET q == [r EXCEPT !.inflight = n] IN
           /\ q \in TapStates
           /\ q.inflight = n /\ q.imu = r.imu /\ q.thread = r.thread
           /\ q.stopping = r.stopping /\ q.reported = r.reported
           /\ q.observed = r.observed /\ q.count = r.count /\ q.start = r.start
           /\ q.last = r.last
  <1> DEFINE q == [r EXCEPT !.inflight = n]
  <1>1. q \in TapStates
    BY DEF TapStates
  <1>2. q.imu = r.imu /\ q.thread = r.thread
    BY DEF TapStates
  <1>3. q.stopping = r.stopping
    BY DEF TapStates
  <1>4. q.reported = r.reported
    BY DEF TapStates
  <1>5. /\ q.inflight = n /\ q.observed = r.observed /\ q.count = r.count /\ q.start = r.start
        /\ q.last = r.last
    BY DEF TapStates
  <1> QED BY <1>1, <1>2, <1>3, <1>4, <1>5

\* A frame that is observed.
LEMMA TapObserved ==
    ASSUME NEW r \in TapStates, NEW o \in Nat, NEW n \in Int
    PROVE  LET q == [r EXCEPT !.observed = o, !.inflight = n] IN
           /\ q \in TapStates
           /\ q.observed = o /\ q.inflight = n /\ q.imu = r.imu
           /\ q.thread = r.thread /\ q.stopping = r.stopping
           /\ q.reported = r.reported /\ q.count = r.count /\ q.start = r.start
           /\ q.last = r.last
  <1> DEFINE q == [r EXCEPT !.observed = o, !.inflight = n]
  <1>1. q \in TapStates
    BY DEF TapStates
  <1>2. q.imu = r.imu /\ q.thread = r.thread
    BY DEF TapStates
  <1>3. q.stopping = r.stopping
    BY DEF TapStates
  <1>4. q.reported = r.reported
    BY DEF TapStates
  <1>5. /\ q.observed = o /\ q.inflight = n /\ q.count = r.count /\ q.start = r.start
        /\ q.last = r.last
    BY DEF TapStates
  <1> QED BY <1>1, <1>2, <1>3, <1>4, <1>5

\* A frame that is taken.
LEMMA TapCounted ==
    ASSUME NEW r \in TapStates, NEW o \in Nat, NEW m \in Nat, NEW f \in Nat
    PROVE  LET q == [r EXCEPT !.count = o, !.last = m, !.start = f] IN
           /\ q \in TapStates
           /\ q.count = o /\ q.last = m /\ q.start = f /\ q.imu = r.imu
           /\ q.thread = r.thread /\ q.stopping = r.stopping
           /\ q.inflight = r.inflight /\ q.reported = r.reported
           /\ q.observed = r.observed
  <1> DEFINE q == [r EXCEPT !.count = o, !.last = m, !.start = f]
  <1>1. q \in TapStates
    BY DEF TapStates
  <1>2. q.imu = r.imu /\ q.thread = r.thread
    BY DEF TapStates
  <1>3. q.stopping = r.stopping
    BY DEF TapStates
  <1>4. q.reported = r.reported
    BY DEF TapStates
  <1>5. /\ q.count = o /\ q.last = m /\ q.start = f /\ q.inflight = r.inflight
        /\ q.observed = r.observed
    BY DEF TapStates
  <1> QED BY <1>1, <1>2, <1>3, <1>4, <1>5

\* The same for a stop() or close(): it goes on,
LEMMA StopperAt ==
    ASSUME NEW r \in StopperStates, NEW step \in StopperSteps
    PROVE  LET q == [r EXCEPT !.at = step] IN
           /\ q \in StopperStates
           /\ q.at = step /\ q.tap = r.tap /\ q.camera = r.camera
           /\ q.late = r.late /\ q.closing = r.closing
  <1> DEFINE q == [r EXCEPT !.at = step]
  <1>1. q \in StopperStates
    BY DEF StopperStates
  <1>2. q.at = step
    BY DEF StopperStates
  <1>3. q.late = r.late
    BY DEF StopperStates
  <1>4. q.closing = r.closing
    BY DEF StopperStates
  <1>5. q.tap = r.tap /\ q.camera = r.camera
    BY DEF StopperStates
  <1> QED BY <1>1, <1>2, <1>3, <1>4, <1>5

\* takes a tap,
LEMMA StopperTap ==
    ASSUME NEW r \in StopperStates, NEW t \in 0..MaxTaps
    PROVE  LET q == [r EXCEPT !.at = "wait", !.tap = t] IN
           /\ q \in StopperStates
           /\ q.at = "wait" /\ q.tap = t /\ q.camera = r.camera
           /\ q.late = r.late /\ q.closing = r.closing
  <1> DEFINE q == [r EXCEPT !.at = "wait", !.tap = t]
  <1>1. q \in StopperStates
    BY DEF StopperStates, StopperSteps
  <1>2. q.at = "wait"
    BY DEF StopperStates
  <1>3. q.late = r.late
    BY DEF StopperStates
  <1>4. q.closing = r.closing
    BY DEF StopperStates
  <1>5. q.tap = t /\ q.camera = r.camera
    BY DEF StopperStates
  <1> QED BY <1>1, <1>2, <1>3, <1>4, <1>5

\* waits for its last frame,
LEMMA StopperLate ==
    ASSUME NEW r \in StopperStates, NEW b \in BOOLEAN
    PROVE  LET q == [r EXCEPT !.at = "imu", !.late = b] IN
           /\ q \in StopperStates
           /\ q.at = "imu" /\ q.late = b /\ q.tap = r.tap /\ q.camera = r.camera
           /\ q.closing = r.closing
  <1> DEFINE q == [r EXCEPT !.at = "imu", !.late = b]
  <1>1. q \in StopperStates
    BY DEF StopperStates, StopperSteps
  <1>2. q.at = "imu"
    BY DEF StopperStates
  <1>3. q.late = b
    BY DEF StopperStates
  <1>4. q.closing = r.closing
    BY DEF StopperStates
  <1>5. q.tap = r.tap /\ q.camera = r.camera
    BY DEF StopperStates
  <1> QED BY <1>1, <1>2, <1>3, <1>4, <1>5

\* or closes the camera.
LEMMA StopperCamera ==
    ASSUME NEW r \in StopperStates, NEW c \in 0..MaxCameras
    PROVE  LET q == [r EXCEPT !.at = "camera join", !.camera = c] IN
           /\ q \in StopperStates
           /\ q.at = "camera join" /\ q.camera = c /\ q.tap = r.tap
           /\ q.late = r.late /\ q.closing = r.closing
  <1> DEFINE q == [r EXCEPT !.at = "camera join", !.camera = c]
  <1>1. q \in StopperStates
    BY DEF StopperStates, StopperSteps
  <1>2. q.at = "camera join"
    BY DEF StopperStates
  <1>3. q.late = r.late
    BY DEF StopperStates
  <1>4. q.closing = r.closing
    BY DEF StopperStates
  <1>5. q.camera = c /\ q.tap = r.tap
    BY DEF StopperStates
  <1> QED BY <1>1, <1>2, <1>3, <1>4, <1>5

\* A stop() that begins or returns.
LEMMA StopperIdle ==
    ASSUME NEW step \in StopperSteps
    PROVE  /\ Idle \in StopperStates /\ Idle.at = "idle"
           /\ [Idle EXCEPT !.at = step] \in StopperStates /\ [Idle EXCEPT !.at = step].at = step
           /\ [Idle EXCEPT !.at = step, !.closing = TRUE] \in StopperStates
           /\ [Idle EXCEPT !.at = step, !.closing = TRUE].at = step
  <1>1. Idle \in StopperStates /\ Idle.at = "idle"
    <2>1. 0 \in 0..MaxTaps /\ 0 \in 0..MaxCameras
      BY SourcesAssumption
    <2>2. "idle" \in StopperSteps
      BY DEF StopperSteps
    <2> QED BY <2>1, <2>2 DEF Idle, StopperStates
  <1>2. [Idle EXCEPT !.at = step, !.closing = TRUE] \in StopperStates
    BY <1>1 DEF StopperStates
  <1>3. [Idle EXCEPT !.at = step, !.closing = TRUE].at = step
    BY <1>1 DEF StopperStates
  <1>4. [Idle EXCEPT !.at = step] \in StopperStates /\ [Idle EXCEPT !.at = step].at = step
    BY <1>1, StopperAt
  <1> QED BY <1>1, <1>2, <1>3, <1>4

\* One stopper moves, the others stay as they were.
LEMMA StopperKept ==
    ASSUME TypeThreads, NEW s \in Stoppers, NEW r \in StopperStates,
           stopper' = [stopper EXCEPT ![s] = r]
    PROVE  /\ stopper' \in [Stoppers -> StopperStates] /\ stopper'[s] = r
           /\ \A u \in Stoppers \ {s} : stopper'[u] = stopper[u]
  BY DEF TypeThreads

\* One tap changes, the others stay as they were.
LEMMA TapKept ==
    ASSUME TypeThreads, NEW t \in Taps, NEW r \in TapStates, tap' = [tap EXCEPT ![t] = r]
    PROVE  /\ tap' \in [Taps -> TapStates] /\ tap'[t] = r
           /\ \A u \in Taps \ {t} : tap'[u] = tap[u]
  BY DEF TypeThreads

-----------------------------------------------------------------------------
(* What the steps do to the taps and to whoever stops them, field by field.   *)

TapsTyped == tap' \in [Taps -> TapStates]
StoppersTyped == stopper' \in [Stoppers -> StopperStates]
OtherTaps(t) == TapsTyped /\ \A u \in Taps \ {t} : tap'[u] = tap[u]
OtherStoppers(s) == StoppersTyped /\ \A u \in Stoppers \ {s} : stopper'[u] = stopper[u]
FramesKept(t) ==
    /\ tap'[t].observed = tap[t].observed /\ tap'[t].count = tap[t].count
    /\ tap'[t].start = tap[t].start /\ tap'[t].last = tap[t].last
GateKept(t) == tap'[t].stopping = tap[t].stopping /\ tap'[t].reported = tap[t].reported
ImuKept(t) == tap'[t].imu = tap[t].imu /\ tap'[t].thread = tap[t].thread
FlightKept(t) == tap'[t].inflight = tap[t].inflight

ThreadGoes(t, step) ==
    /\ OtherTaps(t) /\ FramesKept(t) /\ GateKept(t) /\ FlightKept(t)
    /\ tap'[t].imu = tap[t].imu /\ tap'[t].thread = step
TapOpened(t) ==
    /\ OtherTaps(t) /\ FramesKept(t) /\ GateKept(t) /\ FlightKept(t)
    /\ tap'[t].imu = "open" /\ tap'[t].thread = tap[t].thread
ImuShut(t) ==
    /\ OtherTaps(t) /\ FramesKept(t) /\ GateKept(t) /\ FlightKept(t)
    /\ tap'[t].imu = (IF tap[t].imu = "open" THEN "shut" ELSE tap[t].imu)
    /\ tap'[t].thread = tap[t].thread
ImuReleased(t) ==
    /\ OtherTaps(t) /\ FramesKept(t) /\ GateKept(t) /\ FlightKept(t)
    /\ tap'[t].imu = "released" /\ tap'[t].thread = "ended"
GateShut(t) ==
    /\ OtherTaps(t) /\ FramesKept(t) /\ ImuKept(t) /\ FlightKept(t)
    /\ tap'[t].stopping = TRUE /\ tap'[t].reported = tap[t].reported
FrameObserved(t, gap, taken) ==
    /\ OtherTaps(t) /\ GateKept(t) /\ ImuKept(t)
    /\ tap'[t].observed = tap[t].observed + gap + 1
    /\ tap'[t].count = tap[t].count /\ tap'[t].start = tap[t].start /\ tap'[t].last = tap[t].last
    /\ tap'[t].inflight = IF taken THEN tap[t].inflight + 1 ELSE tap[t].inflight
FrameTaken(t, f) ==
    /\ OtherTaps(t) /\ GateKept(t) /\ ImuKept(t) /\ FlightKept(t)
    /\ tap'[t].observed = tap[t].observed /\ tap'[t].count = tap[t].count + 1
    /\ tap'[t].start = (IF tap[t].count = 0 THEN f ELSE tap[t].start) /\ tap'[t].last = f
FrameFinished(t) ==
    /\ OtherTaps(t) /\ FramesKept(t) /\ GateKept(t) /\ ImuKept(t)
    /\ tap'[t].inflight = tap[t].inflight - 1

StopperGoes(s, step) ==
    /\ OtherStoppers(s)
    /\ stopper'[s].at = step /\ stopper'[s].tap = stopper[s].tap
    /\ stopper'[s].late = stopper[s].late
StopperReturns(s) == OtherStoppers(s) /\ stopper'[s].at \in {"idle", "tell", "camera"}

\* The first failure of the tap that records, or none.
Reporting(t, thread) ==
    /\ current = t /\ tap[t].reported = FALSE
    /\ OtherTaps(t) /\ FramesKept(t) /\ FlightKept(t)
    /\ tap'[t].imu = tap[t].imu /\ tap'[t].thread = thread
    /\ tap'[t].stopping = TRUE /\ tap'[t].reported = TRUE
    /\ StopperGoes(Reporter(t), "begin")
NotReporting(t) == UNCHANGED <<tap, stopper>> /\ (current = t => tap[t].reported = TRUE)

\* A step of an IMU thread.
LEMMA ThreadSteps ==
    ASSUME SourcesTypeOK, NEW t \in Taps, NEW step \in ImuSteps, ImuTo(t, step)
    PROVE  ThreadGoes(t, step)
  <1> USE DEF SourcesTypeOK
  <1> DEFINE r == [tap[t] EXCEPT !.thread = step]
  <1>1. t \in Taps /\ tap[t] \in TapStates
    BY DEF TypeThreads
  <1>2. tap' = [tap EXCEPT ![t] = r]
    BY <1>1 DEF ImuTo, TypeThreads, TapStates
  <1>3. r \in TapStates
    BY <1>1, TapThread
  <1>4. /\ TapsTyped /\ tap'[t] = r
        /\ \A u \in Taps \ {t} : tap'[u] = tap[u]
    BY <1>1, <1>2, <1>3, TapKept DEF TapsTyped
  <1> QED BY <1>1, <1>4, TapThread DEF ThreadGoes, OtherTaps, TapsTyped, FramesKept, GateKept,
      ImuKept, FlightKept

\* A tap that is set up, and its thread.
LEMMA Attaching ==
    ASSUME SourcesTypeOK, TapAttaches, current = 0
    PROVE  taps + 1 \in Taps /\ TapOpened(taps + 1)
  <1> USE DEF SourcesTypeOK
  <1> DEFINE t == taps + 1
             r == [tap[t] EXCEPT !.imu = "open"]
  <1>1. t \in Taps /\ tap[t] \in TapStates
    BY SMTT(20), SourcesAssumption DEF TapAttaches, TypeThreads, TypeShared, Taps
  <1>2. tap' = [tap EXCEPT ![t] = r]
    BY <1>1 DEF TapAttaches, TypeThreads, TapStates
  <1>i. "open" \in ImuStates
    BY DEF ImuStates
  <1>3. /\ TapsTyped /\ tap'[t] = r /\ \A u \in Taps \ {t} : tap'[u] = tap[u]
    BY <1>1, <1>2, <1>i, TapImu, TapKept DEF TapsTyped
  <1> QED BY <1>1, <1>3, <1>i, TapImu DEF TapOpened, OtherTaps, FramesKept, GateKept, FlightKept

\* Its thread is launched.
LEMMA Launching ==
    ASSUME SourcesTypeOK, ImuLaunches, taps # 0
    PROVE  taps \in Taps /\ ThreadGoes(taps, "loop")
  <1>1. taps \in Taps
    BY DEF SourcesTypeOK, TypeShared, Taps
  <1>2. ImuTo(taps, "loop") /\ "loop" \in ImuSteps
    BY DEF ImuLaunches, ImuTo, ImuSteps
  <1> QED BY <1>1, <1>2, ThreadSteps

\* The end of that thread.
LEMMA Releasing ==
    ASSUME SourcesTypeOK, NEW t \in Taps, ImuReleases(t)
    PROVE  ImuReleased(t)
  <1> USE DEF SourcesTypeOK
  <1> DEFINE r == [tap[t] EXCEPT !.thread = "ended", !.imu = "released"]
  <1>1. tap[t] \in TapStates
    BY DEF TypeThreads
  <1>2. tap' = [tap EXCEPT ![t] = r]
    BY <1>1 DEF ImuReleases, TypeThreads, TapStates
  <1>3. /\ TapsTyped /\ tap'[t] = r /\ \A u \in Taps \ {t} : tap'[u] = tap[u]
    BY <1>1, <1>2, TapReleased, TapKept DEF TapsTyped
  <1>4. /\ r.imu = "released" /\ r.thread = "ended"
        /\ r.stopping = tap[t].stopping /\ r.inflight = tap[t].inflight
        /\ r.reported = tap[t].reported /\ r.observed = tap[t].observed
        /\ r.count = tap[t].count /\ r.start = tap[t].start
        /\ r.last = tap[t].last
    BY <1>1, TapReleased
  <1> HIDE DEF r
  <1> QED BY <1>3, <1>4 DEF ImuReleased, OtherTaps, FramesKept, GateKept, FlightKept

\* A frame that is observed, and submitted or not.
LEMMA Observing ==
    ASSUME SourcesTypeOK, NEW c \in Cameras, NEW t \in Taps, pump[c].tap = t, PumpBegins(c),
           GateOpen(t)
    PROVE  LET gap == IF tap[t].observed = 0 THEN 0 ELSE pump[c].gap IN
           FrameObserved(t, gap, tap[t].observed = 0 \/ Wanted(t, gap))
  <1> USE DEF SourcesTypeOK
  <1> DEFINE gap == IF tap[t].observed = 0 THEN 0 ELSE pump[c].gap
             taken == tap[t].observed = 0 \/ Wanted(t, gap)
             o == tap[t].observed + gap + 1
             n == IF taken THEN tap[t].inflight + 1 ELSE tap[t].inflight
             r == [tap[t] EXCEPT !.observed = o, !.inflight = n]
  <1>1. tap[t] \in TapStates /\ gap \in {0, 1}
    BY DEF TypeThreads, PumpStates
  <1>2. o \in Nat /\ n \in Int
    BY <1>1 DEF TapStates
  <1>3. tap' = [tap EXCEPT ![t] = r]
    BY <1>1 DEF PumpBegins, TypeThreads, TapStates
  <1> HIDE DEF o, n, taken, gap
  <1>4. /\ TapsTyped /\ tap'[t] = r /\ \A u \in Taps \ {t} : tap'[u] = tap[u]
    BY <1>1, <1>2, <1>3, TapObserved, TapKept DEF TapsTyped
  <1>5. /\ r.imu = tap[t].imu /\ r.thread = tap[t].thread
        /\ r.stopping = tap[t].stopping /\ r.inflight = n
        /\ r.reported = tap[t].reported /\ r.observed = o
        /\ r.count = tap[t].count /\ r.start = tap[t].start
        /\ r.last = tap[t].last
    <2>1. r.imu = tap[t].imu /\ r.thread = tap[t].thread
      BY <1>1 DEF TapStates
    <2>2. r.stopping = tap[t].stopping
      BY <1>1 DEF TapStates
    <2>3. r.reported = tap[t].reported
      BY <1>1 DEF TapStates
    <2>4. /\ r.inflight = n /\ r.observed = o /\ r.count = tap[t].count /\ r.start = tap[t].start
          /\ r.last = tap[t].last
      BY <1>1 DEF TapStates
    <2> QED BY <2>1, <2>2, <2>3, <2>4
  <1> HIDE DEF r
  <1>6. FrameObserved(t, gap, taken)
    BY <1>4, <1>5 DEF FrameObserved, OtherTaps, GateKept, ImuKept, o, n
  <1> QED BY <1>6 DEF taken, gap

\* A frame that the coordinator took.
LEMMA Taking ==
    ASSUME SourcesTypeOK, NEW c \in Cameras, NEW t \in Taps, pump[c].tap = t, PumpSubmits(c),
           tap' # tap
    PROVE  pump[c].gap = 0 /\ PumpTo(c, "finish") /\ FrameTaken(t, pump[c].frame)
  <1> USE DEF SourcesTypeOK
  <1> DEFINE f == pump[c].frame
             o == tap[t].count + 1
             b == IF tap[t].count = 0 THEN f ELSE tap[t].start
             r == [tap[t] EXCEPT !.count = o, !.last = f, !.start = b]
  <1>1. tap[t] \in TapStates /\ f \in Nat
    BY DEF TypeThreads, PumpStates
  <1>2. o \in Nat /\ b \in Nat
    BY <1>1 DEF TapStates
  <1>3. tap' = [tap EXCEPT ![t] = r] /\ pump[c].gap = 0 /\ PumpTo(c, "finish")
    BY <1>1 DEF PumpSubmits, TypeThreads, TapStates
  <1> HIDE DEF o, b, f
  <1>4. /\ TapsTyped /\ tap'[t] = r /\ \A u \in Taps \ {t} : tap'[u] = tap[u]
    <2>1. r \in TapStates
      BY <1>1, <1>2, TapCounted
    <2> HIDE DEF r
    <2>2. TypeThreads
      OBVIOUS
    <2> QED BY <1>3, <2>1, <2>2, TapKept DEF TapsTyped
  <1>5. /\ r.imu = tap[t].imu /\ r.thread = tap[t].thread
        /\ r.stopping = tap[t].stopping /\ r.inflight = tap[t].inflight
        /\ r.reported = tap[t].reported /\ r.observed = tap[t].observed
        /\ r.count = o /\ r.start = b /\ r.last = f
    <2>1. r.imu = tap[t].imu /\ r.thread = tap[t].thread
      BY <1>1 DEF TapStates
    <2>2. r.stopping = tap[t].stopping
      BY <1>1 DEF TapStates
    <2>3. r.reported = tap[t].reported
      BY <1>1 DEF TapStates
    <2>4. /\ r.inflight = tap[t].inflight /\ r.observed = tap[t].observed /\ r.count = o
          /\ r.start = b /\ r.last = f
      BY <1>1 DEF TapStates
    <2> QED BY <2>1, <2>2, <2>3, <2>4
  <1> HIDE DEF r
  <1>6. FrameTaken(t, f)
    BY <1>4, <1>5 DEF FrameTaken, OtherTaps, GateKept, ImuKept, FlightKept, o, b
  <1> QED BY <1>3, <1>6 DEF f

\* A frame that is done with.
LEMMA Finishing ==
    ASSUME SourcesTypeOK, NEW c \in Cameras, NEW t \in Taps, pump[c].tap = t, PumpFinishes(c)
    PROVE  FrameFinished(t)
  <1> USE DEF SourcesTypeOK
  <1> DEFINE n == tap[t].inflight - 1
             r == [tap[t] EXCEPT !.inflight = n]
  <1>1. tap[t] \in TapStates
    BY DEF TypeThreads
  <1>2. n \in Int
    BY <1>1 DEF TapStates
  <1>3. tap' = [tap EXCEPT ![t] = r]
    BY <1>1 DEF PumpFinishes, TypeThreads, TapStates
  <1> HIDE DEF n
  <1>4. /\ TapsTyped /\ tap'[t] = r /\ \A u \in Taps \ {t} : tap'[u] = tap[u]
    BY <1>1, <1>2, <1>3, TapInflight, TapKept DEF TapsTyped
  <1> QED BY <1>1, <1>2, <1>4, TapInflight
      DEF FrameFinished, OtherTaps, FramesKept, GateKept, ImuKept, n

\* A stop() that takes the tap.
LEMMA Stopping ==
    ASSUME SourcesTypeOK, NEW s \in Stoppers, StopTakes(s), current # 0
    PROVE  /\ current \in Taps /\ GateShut(current)
           /\ OtherStoppers(s) /\ stopper'[s].at = "wait" /\ stopper'[s].tap = current
  <1> USE DEF SourcesTypeOK
  <1> DEFINE r == [tap[current] EXCEPT !.stopping = TRUE]
             q == [stopper[s] EXCEPT !.at = "wait", !.tap = current]
  <1>1. current \in Taps /\ tap[current] \in TapStates
    BY DEF TypeThreads, TypeShared, Taps
  <1>2. tap' = [tap EXCEPT ![current] = r]
    BY <1>1 DEF StopTakes, TypeThreads, TapStates
  <1>3. /\ TapsTyped /\ tap'[current] = r /\ \A u \in Taps \ {current} : tap'[u] = tap[u]
    BY <1>1, <1>2, TapStopping, TapKept DEF TapsTyped
  <1>4. GateShut(current)
    BY <1>1, <1>3, TapStopping DEF GateShut, OtherTaps, FramesKept, ImuKept, FlightKept
  <1>5. stopper[s] \in StopperStates /\ current \in 0..MaxTaps
    BY DEF TypeThreads, TypeShared
  <1>6. stopper' = [stopper EXCEPT ![s] = q]
    BY <1>5 DEF StopTakes, TypeThreads, StopperStates
  <1>7. OtherStoppers(s) /\ stopper'[s] = q
    BY <1>5, <1>6, StopperTap, StopperKept DEF OtherStoppers, StoppersTyped
  <1>8. q.at = "wait" /\ q.tap = current
    BY <1>5, StopperTap
  <1> HIDE DEF q
  <1> QED BY <1>1, <1>4, <1>7, <1>8

\* It has waited for the frame that is being submitted.
LEMMA Waited ==
    ASSUME SourcesTypeOK, NEW s \in Stoppers, StopWaits(s)
    PROVE  /\ OtherStoppers(s) /\ stopper'[s].at = "imu" /\ stopper'[s].tap = stopper[s].tap
           /\ stopper'[s].late = FALSE => tap[stopper[s].tap].inflight = 0
  <1> USE DEF SourcesTypeOK
  <1> DEFINE b == tap[stopper[s].tap].inflight # 0
             q == [stopper[s] EXCEPT !.at = "imu", !.late = b]
  <1>1. stopper[s] \in StopperStates /\ b \in BOOLEAN
    BY DEF TypeThreads
  <1>2. stopper' = [stopper EXCEPT ![s] = q]
    BY <1>1 DEF StopWaits, TypeThreads, StopperStates
  <1> HIDE DEF b
  <1>3. OtherStoppers(s) /\ stopper'[s] = q
    BY <1>1, <1>2, StopperLate, StopperKept DEF OtherStoppers, StoppersTyped
  <1>4. q.at = "imu" /\ q.tap = stopper[s].tap /\ q.late = b
    BY <1>1, StopperLate
  <1>5. ~b => tap[stopper[s].tap].inflight = 0
    BY DEF b
  <1> HIDE DEF q
  <1>6. stopper'[s].at = "imu" /\ stopper'[s].tap = stopper[s].tap
    BY <1>3, <1>4
  <1>7. stopper'[s].late = FALSE => ~b
    BY <1>3, <1>4
  <1> QED BY <1>3, <1>5, <1>6, <1>7

\* It shuts the IMU.
LEMMA Shutting ==
    ASSUME SourcesTypeOK, NEW s \in Stoppers, NEW t \in Taps, stopper[s].tap = t, StopShutsImu(s)
    PROVE  ImuShut(t)
  <1> USE DEF SourcesTypeOK
  <1> DEFINE i == IF tap[t].imu = "open" THEN "shut" ELSE tap[t].imu
             r == [tap[t] EXCEPT !.imu = i]
  <1>1. tap[t] \in TapStates
    BY DEF TypeThreads
  <1>2. i \in ImuStates
    BY <1>1 DEF TapStates, ImuStates
  <1>3. tap' = [tap EXCEPT ![t] = r]
    BY <1>1 DEF StopShutsImu, TypeThreads, TapStates
  <1> HIDE DEF i
  <1>4. /\ TapsTyped /\ tap'[t] = r /\ \A u \in Taps \ {t} : tap'[u] = tap[u]
    BY <1>1, <1>2, <1>3, TapImu, TapKept DEF TapsTyped
  <1> QED BY <1>1, <1>2, <1>4, TapImu DEF ImuShut, OtherTaps, FramesKept, GateKept, FlightKept,
      i

\* A stop() or close() goes on.
LEMMA GoingOn ==
    ASSUME SourcesTypeOK, NEW s \in Stoppers, NEW step \in StopperSteps, StopperTo(s, step)
    PROVE  StopperGoes(s, step)
  <1> DEFINE q == [stopper[s] EXCEPT !.at = step]
  <1>1. stopper[s] \in StopperStates
    BY DEF SourcesTypeOK, TypeThreads
  <1>2. stopper' = [stopper EXCEPT ![s] = q]
    BY <1>1 DEF StopperTo, SourcesTypeOK, TypeThreads, StopperStates
  <1>3. OtherStoppers(s) /\ stopper'[s] = q
    BY <1>1, <1>2, StopperAt, StopperKept DEF OtherStoppers, StoppersTyped, SourcesTypeOK
  <1> QED BY <1>1, <1>3, StopperAt DEF StopperGoes

\* It returns, or begins.
LEMMA Returning ==
    ASSUME SourcesTypeOK, NEW s \in Stoppers,
           Returned(s) \/ stopper' = [stopper EXCEPT ![s] = Idle]
    PROVE  StopperReturns(s)
  <1>1. PICK step \in {"idle", "tell", "camera"} :
            \/ stopper' = [stopper EXCEPT ![s] = [Idle EXCEPT !.at = step]]
            \/ stopper' = [stopper EXCEPT ![s] = Idle]
    BY DEF Returned
  <1>2. step \in StopperSteps
    BY DEF StopperSteps
  <1> QED BY <1>1, <1>2, StopperIdle, StopperKept
      DEF StopperReturns, OtherStoppers, StoppersTyped, SourcesTypeOK

\* close() begins.
LEMMA Beginning ==
    ASSUME SourcesTypeOK, NEW s \in Stoppers,
           stopper' = [stopper EXCEPT ![s] = [Idle EXCEPT !.at = "begin", !.closing = TRUE]]
    PROVE  OtherStoppers(s) /\ stopper'[s].at = "begin"
  <1>1. "begin" \in StopperSteps
    BY DEF StopperSteps
  <1> QED BY <1>1, StopperIdle, StopperKept DEF OtherStoppers, StoppersTyped, SourcesTypeOK

\* It closes the camera.
LEMMA ShuttingCamera ==
    ASSUME SourcesTypeOK, NEW s \in Stoppers, CloseShutsCamera(s)
    PROVE  OtherStoppers(s) /\ stopper'[s].at = "camera join"
  <1> DEFINE q == [stopper[s] EXCEPT !.at = "camera join", !.camera = attached]
  <1>1. stopper[s] \in StopperStates /\ attached \in 0..MaxCameras
    BY DEF SourcesTypeOK, TypeThreads, TypeShared
  <1>2. stopper' = [stopper EXCEPT ![s] = q]
    BY <1>1 DEF CloseShutsCamera, SourcesTypeOK, TypeThreads, StopperStates
  <1>3. OtherStoppers(s) /\ stopper'[s] = q
    BY <1>1, <1>2, StopperCamera, StopperKept DEF OtherStoppers, StoppersTyped, SourcesTypeOK
  <1>4. q.at = "camera join"
    BY <1>1, StopperCamera
  <1> HIDE DEF q
  <1> QED BY <1>3, <1>4

\* The thread of a tap's failure is one of those that stop.
LEMMA Reporters ==
    \A t \in Taps :
        Reporter(t) \in Stoppers /\ \A u \in Taps \ {t} : Reporter(u) # Reporter(t)
  BY DEF Reporter, Stoppers

\* A failure is reported at most once.
LEMMA Failing ==
    ASSUME SourcesTypeOK, NEW t \in Taps, Report(t)
    PROVE  Reporting(t, tap[t].thread) \/ NotReporting(t)
  <1> USE DEF SourcesTypeOK
  <1> DEFINE r == [tap[t] EXCEPT !.reported = TRUE, !.stopping = TRUE]
  <1>1. tap[t] \in TapStates /\ tap[t].reported \in BOOLEAN
    BY DEF TypeThreads, TapStates
  <1>2. CASE ~Reports(t)
    BY <1>1, <1>2 DEF Report, Reports, NotReporting
  <1>3. CASE Reports(t)
    <2>1. tap' = [tap EXCEPT ![t] = r] /\ StopperTo(Reporter(t), "begin")
      BY <1>3 DEF Report, Reported, StopperTo
    <2>2. /\ TapsTyped /\ tap'[t] = r /\ \A u \in Taps \ {t} : tap'[u] = tap[u]
      BY <1>1, <2>1, TapReported, TapKept DEF TapsTyped
    <2>3. StopperGoes(Reporter(t), "begin")
      <3>1. "begin" \in StopperSteps
        BY DEF StopperSteps
      <3> QED BY <2>1, <3>1, Reporters, GoingOn
    <2>4. current = t /\ tap[t].reported = FALSE
      BY <1>1, <1>3 DEF Reports
    <2> QED BY <1>1, <2>2, <2>3, <2>4, TapReported
        DEF Reporting, OtherTaps, FramesKept, FlightKept
  <1> QED BY <1>2, <1>3

\* The IMU fails: the tap ends its thread, and is reported or not.
LEMMA ImuFailing ==
    ASSUME SourcesTypeOK, NEW t \in Taps, ImuFails(t)
    PROVE  Reporting(t, "release") \/ (ThreadGoes(t, "release") /\ UNCHANGED stopper)
  <1> USE DEF SourcesTypeOK
  <1> DEFINE r == [[tap[t] EXCEPT !.reported = TRUE, !.stopping = TRUE]
                   EXCEPT !.thread = "release"]
  <1>1. tap[t] \in TapStates /\ tap[t].reported \in BOOLEAN
    BY DEF TypeThreads, TapStates
  <1>2. CASE ~(Recording(t) /\ Reports(t))
    <2>1. ImuTo(t, "release") /\ UNCHANGED stopper /\ "release" \in ImuSteps
      BY <1>2 DEF ImuFails, ImuSteps
    <2> QED BY <2>1, ThreadSteps
  <1>3. CASE Recording(t) /\ Reports(t)
    <2>1. tap' = [tap EXCEPT ![t] = r] /\ StopperTo(Reporter(t), "begin")
      BY <1>3 DEF ImuFails, Reported, StopperTo
    <2>2. /\ TapsTyped /\ tap'[t] = r /\ \A u \in Taps \ {t} : tap'[u] = tap[u]
      BY <1>1, <2>1, TapFailed, TapKept DEF TapsTyped
    <2>3. StopperGoes(Reporter(t), "begin")
      <3>1. "begin" \in StopperSteps
        BY DEF StopperSteps
      <3> QED BY <2>1, <3>1, Reporters, GoingOn
    <2>4. current = t /\ tap[t].reported = FALSE
      BY <1>1, <1>3 DEF Reports
    <2> QED BY <1>1, <2>2, <2>3, <2>4, TapFailed
        DEF Reporting, OtherTaps, FramesKept, FlightKept
  <1> QED BY <1>2, <1>3
\* A step of the camera thread.
PumpMoved(c, step) ==
    /\ pump' \in [Cameras -> PumpStates] /\ \A d \in Cameras \ {c} : pump'[d] = pump[d]
    /\ pump'[c].at = step
PumpHolds(c) ==
    /\ pump'[c].tap = pump[c].tap /\ pump'[c].frame = pump[c].frame /\ pump'[c].gap = pump[c].gap
PumpGoes(c, step) == PumpMoved(c, step) /\ (step \in {"report", "finish"} => PumpHolds(c))
PumpTakes(c, gap) ==
    /\ PumpMoved(c, "submit")
    /\ pump'[c].tap = pump[c].tap /\ pump'[c].frame = pump[c].frame /\ pump'[c].gap = gap

\* A step of the camera thread moves it alone, and keeps its frame while it submits it.
LEMMA PumpMoves ==
    ASSUME SourcesTypeOK, NEW c \in Cameras, NEW step \in PumpSteps, PumpTo(c, step)
    PROVE  PumpGoes(c, step)
  <1>1. 0 \in 0..MaxTaps
    BY SourcesAssumption
  <1>2. NoPump \in PumpStates
    BY <1>1 DEF NoPump, PumpStates, PumpSteps
  <1>3. CASE step \in {"report", "finish"}
    BY <1>3 DEF PumpTo, PumpGoes, PumpMoved, PumpHolds, PumpStates, SourcesTypeOK, TypeThreads
  <1>4. CASE step \notin {"report", "finish"}
    BY <1>2, <1>4 DEF PumpTo, PumpGoes, PumpMoved, PumpStates, SourcesTypeOK, TypeThreads
  <1> QED BY <1>3, <1>4

\* It submits a frame.
LEMMA PumpSubmitting ==
    ASSUME SourcesTypeOK, NEW c \in Cameras, NEW gap \in {0, 1},
           pump' = [pump EXCEPT ![c].at = "submit", ![c].gap = gap]
    PROVE  PumpTakes(c, gap)
  BY DEF PumpTakes, PumpMoved, PumpStates, PumpSteps, SourcesTypeOK, TypeThreads

\* So are the callers of stop() and close().
LEMMA Callers ==
    /\ \A p \in Openers : Caller(p) \in Stoppers
    /\ Caller("coordinator") \in Stoppers /\ Caller("close") \in Stoppers
    /\ \A t \in Taps : Reporter(t) \notin {Caller("coordinator"), Caller("close")}
    /\ \A p \in Openers, t \in Taps : Reporter(t) # Caller(p)
  BY DEF Caller, Reporter, Stoppers, Openers

\* Whoever is at work on a tap is at work on one that was made.
LEMMA PumpAtTap ==
    ASSUME SourcesTypeOK, Pointed, NEW c \in Cameras, pump[c].at \in Submitting \cup {"begin"}
    PROVE  pump[c].tap \in Taps /\ pump[c].tap <= taps
  BY SourcesAssumption DEF SourcesTypeOK, Pointed, PumpsPoint, TypeShared, Taps

\* Whoever waits for a tap to stop, or stops its IMU, is at a tap that was made.
LEMMA StopperAtTap ==
    ASSUME SourcesTypeOK, Pointed, NEW s \in Stoppers, stopper[s].at \in {"wait", "imu", "join"}
    PROVE  stopper[s].tap \in Taps /\ stopper[s].tap <= taps
  BY SourcesAssumption DEF SourcesTypeOK, Pointed, StoppersPoint, TypeShared, Taps

\* A tap whose IMU thread was started was made.
LEMMA ThreadAtTap ==
    ASSUME SourcesTypeOK, Untouched, NEW t \in Taps, tap[t].thread # "none"
    PROVE  t <= taps
  <1>1. NoTap.thread = "none"
    BY DEF NoTap
  <1>2. t > taps => tap[t] = NoTap
    BY DEF Untouched
  <1>3. t \in Nat /\ taps \in Nat
    BY SourcesAssumption DEF Taps, SourcesTypeOK, TypeShared
  <1> QED BY <1>1, <1>2, <1>3

\* The effect of each action on the taps and on whoever stops them.
TapAttachesDoes ==
    /\ UNCHANGED <<stopper, told, quiet, pump, registered>>
    /\ \/ UNCHANGED <<tap, taps, current, handles>>
       \/ /\ current = 0 /\ taps' = taps + 1 /\ current' = taps + 1 /\ handles' = handles + 1
          /\ taps + 1 \in Taps /\ TapOpened(taps + 1)

\* start() makes the next tap, or refuses and changes none.
LEMMA TapAttachesEffect ==
    ASSUME SourcesTypeOK, TapAttaches
    PROVE  TapAttachesDoes
  <1>1. CASE current # 0
    BY <1>1 DEF TapAttaches, OpenerKeeps, TapAttachesDoes
  <1>2. CASE current = 0
    BY <1>2, Attaching DEF TapAttaches, OpenerKeeps, TapAttachesDoes
  <1> QED BY <1>1, <1>2

ImuLaunchesDoes ==
    /\ UNCHANGED <<stopper, told, quiet, pump, registered, taps, current, handles>>
    /\ taps \in Taps /\ tap[taps].thread = "none" /\ ThreadGoes(taps, "loop")

\* start() starts the IMU thread of the newest tap, which had none.
LEMMA ImuLaunchesEffect ==
    ASSUME SourcesTypeOK, Launched, ImuLaunches
    PROVE  ImuLaunchesDoes
  BY Launching DEF ImuLaunches, Launched, OpenerKeeps, lockVars, deviceVars, ImuLaunchesDoes

\* A thread that reads the IMU, or fails to.
ImuKeepsAll == UNCHANGED <<told, quiet, pump, opener, registered, taps, cameras, seen>>
ImuThreadDoes(t) ==
    /\ ImuKeepsAll /\ UNCHANGED <<stopper, current, handles>>
    /\ tap[t].thread \notin {"none", "ended"}
    /\ \E step \in ImuSteps \ {"none", "ended"} : ThreadGoes(t, step)

\* The IMU thread that reads, checks and submits touches its own tap and nothing else.
LEMMA ImuThreadEffect ==
    ASSUME SourcesTypeOK, NEW t \in Taps, ImuReads(t) \/ ImuChecks(t) \/ ImuSubmits(t)
    PROVE  ImuThreadDoes(t)
  <1>1. PICK step \in ImuSteps \ {"none", "ended"} : ImuTo(t, step)
    BY DEF ImuReads, ImuChecks, ImuSubmits, ImuSteps
  <1>2. ThreadGoes(t, step)
    BY <1>1, ThreadSteps
  <1> QED BY <1>2
      DEF ImuReads, ImuChecks, ImuSubmits, ImuKeepsAll, ImuKeeps, deviceVars, historyVars,
          ImuThreadDoes

ImuFailsDoes(t) ==
    /\ ImuKeepsAll /\ UNCHANGED <<current, handles>> /\ tap[t].thread = "fail"
    /\ Reporting(t, "release") \/ (ThreadGoes(t, "release") /\ UNCHANGED stopper)

\* The IMU thread that fails reports to its tap, unless the tap was told already.
LEMMA ImuFailsEffect ==
    ASSUME SourcesTypeOK, NEW t \in Taps, ImuFails(t)
    PROVE  ImuFailsDoes(t)
  BY ImuFailing DEF ImuFails, ImuKeepsAll, ImuKeeps, deviceVars, historyVars, ImuFailsDoes

ImuReleasesDoes(t) ==
    /\ ImuKeepsAll /\ UNCHANGED stopper /\ tap[t].thread = "release" /\ ImuReleased(t)
    /\ handles' = handles - 1 /\ current' = (IF current = t THEN 0 ELSE current)

\* The IMU thread that ends gives its handle back, and its tap is no longer the current one.
LEMMA ImuReleasesEffect ==
    ASSUME SourcesTypeOK, NEW t \in Taps, ImuReleases(t)
    PROVE  ImuReleasesDoes(t)
  BY Releasing DEF ImuReleases, ImuKeepsAll, ImuKeeps, deviceVars, historyVars, ImuReleasesDoes

\* The camera thread.
Observes(c, t, gap, taken) ==
    /\ current = t /\ tap[t].stopping = FALSE
    /\ gap = IF tap[t].observed = 0 THEN 0 ELSE pump[c].gap
    /\ taken <=> tap[t].observed = 0 \/ Wanted(t, gap)
    /\ FrameObserved(t, gap, taken)
    /\ IF taken THEN PumpTakes(c, gap) ELSE PumpGoes(c, "loop")
PumpKeepsAll == UNCHANGED <<told, quiet, taps, current, opener, cameras>>
PumpBeginsDoes(c) ==
    /\ PumpKeepsAll /\ UNCHANGED <<stopper, registered, handles, seen>>
    /\ pump[c].tap \in Taps /\ pump[c].tap <= taps /\ pump[c].at = "begin"
    /\ \/ UNCHANGED tap /\ PumpGoes(c, "loop") /\ ~GateOpen(pump[c].tap)
       \/ \E gap \in {0, 1}, taken \in BOOLEAN : Observes(c, pump[c].tap, gap, taken)

\* _begin_recording_frame() observes a frame at an open gate of the current tap, or drops it.
LEMMA PumpBeginsEffect ==
    ASSUME SourcesTypeOK, Pointed, NEW c \in Cameras, PumpBegins(c)
    PROVE  PumpBeginsDoes(c)
  <1> DEFINE t == pump[c].tap
  <1>1. t \in Taps /\ t <= taps /\ pump[c].at = "begin"
    BY PumpAtTap DEF PumpBegins
  <1>2. PumpKeepsAll /\ UNCHANGED <<stopper, registered, handles, seen>>
    BY DEF PumpBegins, PumpKeepsAll, PumpKeeps, historyVars
  <1>3. CASE ~GateOpen(t)
    <2>1. PumpTo(c, "loop") /\ UNCHANGED tap
      BY <1>3 DEF PumpBegins
    <2>2. PumpGoes(c, "loop")
      BY <2>1, PumpMoves DEF PumpSteps
    <2> QED BY <1>1, <1>2, <1>3, <2>1, <2>2 DEF PumpBeginsDoes
  <1>4. CASE GateOpen(t)
    <2> DEFINE g == IF tap[t].observed = 0 THEN 0 ELSE pump[c].gap
               b == tap[t].observed = 0 \/ Wanted(t, g)
    <2>1. current = t /\ tap[t].stopping = FALSE
      BY <1>1, <1>4 DEF GateOpen, SourcesTypeOK, TypeThreads, TapStates
    <2>2. g \in {0, 1} /\ b \in BOOLEAN
      BY DEF SourcesTypeOK, TypeThreads, PumpStates
    <2>3. FrameObserved(t, g, b)
      BY <1>1, <1>4, Observing
    <2>4. IF b THEN PumpTakes(c, g) ELSE PumpGoes(c, "loop")
      <3>1. IF b THEN pump' = [pump EXCEPT ![c].at = "submit", ![c].gap = g]
                 ELSE PumpTo(c, "loop")
        BY <1>4 DEF PumpBegins
      <3> HIDE DEF g, b
      <3> QED BY <2>2, <3>1, PumpMoves, PumpSubmitting DEF PumpSteps
    <2>5. Observes(c, t, g, b)
      <3> HIDE DEF t
      <3> QED BY <2>1, <2>3, <2>4 DEF Observes
    <2> HIDE DEF g, b
    <2> QED BY <1>1, <1>2, <2>2, <2>5 DEF PumpBeginsDoes
  <1> QED BY <1>3, <1>4 DEF PumpBeginsDoes

PumpSubmitsDoes(c) ==
    /\ PumpKeepsAll /\ UNCHANGED <<stopper, registered, handles>>
    /\ pump[c].tap \in Taps /\ pump[c].tap <= taps
    /\ pump[c].at = "submit" /\ UNCHANGED seen
    /\ \/ UNCHANGED tap /\ PumpGoes(c, "report")
       \/ /\ FrameTaken(pump[c].tap, pump[c].frame) /\ pump[c].gap = 0
          /\ PumpGoes(c, "finish")

\* The camera thread that submits to the recorder keeps its frame, whatever comes of it.
LEMMA PumpSubmitsEffect ==
    ASSUME SourcesTypeOK, Pointed, NEW c \in Cameras, PumpSubmits(c)
    PROVE  PumpSubmitsDoes(c)
  <1>1. pump[c].tap \in Taps /\ pump[c].tap <= taps
    BY PumpAtTap DEF PumpSubmits, Submitting
  <1>2. tap' # tap => /\ FrameTaken(pump[c].tap, pump[c].frame) /\ pump[c].gap = 0
                      /\ PumpTo(c, "finish")
    BY <1>1, Taking
  <1>3. PumpTo(c, "finish") => tap' # tap
    <2> HAVE PumpTo(c, "finish")
    <2>1. tap' = [tap EXCEPT ![pump[c].tap].count = @ + 1, ![pump[c].tap].last = pump[c].frame,
                             ![pump[c].tap].start =
                                 IF tap[pump[c].tap].count = 0 THEN pump[c].frame ELSE @]
      <3>1. ~PumpTo(c, "report")
        BY DEF PumpTo, SourcesTypeOK, TypeThreads, PumpStates
      <3> QED BY <3>1 DEF PumpSubmits
    <2>2. tap'[pump[c].tap].count = tap[pump[c].tap].count + 1 /\ tap[pump[c].tap].count \in Nat
      BY <1>1, <2>1 DEF SourcesTypeOK, TypeThreads, TapStates
    <2> QED BY <2>2
  <1>4. UNCHANGED tap => PumpTo(c, "report")
    BY <1>3 DEF PumpSubmits
  <1>5. /\ PumpTo(c, "report") => PumpGoes(c, "report")
        /\ PumpTo(c, "finish") => PumpGoes(c, "finish")
    BY PumpMoves DEF PumpSteps
  <1>6. /\ PumpKeepsAll /\ UNCHANGED <<stopper, registered, handles, seen>>
        /\ pump[c].at = "submit"
    BY DEF PumpSubmits, PumpKeepsAll, PumpKeeps, historyVars
  <1> QED BY <1>1, <1>2, <1>4, <1>5, <1>6 DEF PumpSubmitsDoes

PumpReportsDoes(c) ==
    /\ PumpKeepsAll /\ UNCHANGED <<registered, handles>>
    /\ pump[c].at = "report" /\ UNCHANGED seen /\ PumpGoes(c, "finish")
    /\ pump[c].tap \in Taps /\ pump[c].tap <= taps
    /\ \/ Reporting(pump[c].tap, tap[pump[c].tap].thread)
       \/ NotReporting(pump[c].tap)

\* The camera thread reports a failure of its tap at most once.
LEMMA PumpReportsEffect ==
    ASSUME SourcesTypeOK, Pointed, NEW c \in Cameras, PumpReports(c)
    PROVE  PumpReportsDoes(c)
  <1>1. pump[c].tap \in Taps /\ pump[c].tap <= taps
    BY PumpAtTap DEF PumpReports, Submitting
  <1>2. Report(pump[c].tap)
    BY DEF PumpReports
  <1>3. Reporting(pump[c].tap, tap[pump[c].tap].thread) \/ NotReporting(pump[c].tap)
    BY <1>1, <1>2, Failing
  <1>4. PumpGoes(c, "finish")
    BY PumpMoves DEF PumpReports, PumpSteps
  <1> QED BY <1>1, <1>3, <1>4 DEF PumpReports, PumpKeepsAll, PumpKeeps, historyVars,
      PumpReportsDoes

PumpFinishesDoes(c) ==
    /\ PumpKeepsAll /\ UNCHANGED <<stopper, registered, handles>>
    /\ pump[c].at = "finish" /\ UNCHANGED seen /\ PumpGoes(c, "loop")
    /\ pump[c].tap \in Taps /\ pump[c].tap <= taps /\ FrameFinished(pump[c].tap)

\* _finish_recording_frame() counts down the frames in flight of the tap of that frame.
LEMMA PumpFinishesEffect ==
    ASSUME SourcesTypeOK, Pointed, NEW c \in Cameras, PumpFinishes(c)
    PROVE  PumpFinishesDoes(c)
  <1>1. pump[c].tap \in Taps /\ pump[c].tap <= taps
    BY PumpAtTap DEF PumpFinishes, Submitting
  <1>2. FrameFinished(pump[c].tap)
    BY <1>1, Finishing
  <1>3. PumpGoes(c, "loop")
    BY PumpMoves DEF PumpFinishes, PumpSteps
  <1> QED BY <1>1, <1>2, <1>3 DEF PumpFinishes, PumpKeepsAll, PumpKeeps, historyVars,
      PumpFinishesDoes

PumpFailsDoes(c) ==
    /\ PumpKeepsAll /\ UNCHANGED <<registered, handles>>
    /\ pump[c].at = "fail" /\ UNCHANGED seen /\ PumpGoes(c, "release")
    /\ \/ UNCHANGED <<tap, stopper>>
       \/ /\ current \in Taps /\ current <= taps
          /\ Reporting(current, tap[current].thread) \/ NotReporting(current)

\* A camera thread that fails reports to the current tap, if there is one.
LEMMA PumpFailsEffect ==
    ASSUME SourcesTypeOK, Pointed, NEW c \in Cameras, PumpFails(c)
    PROVE  PumpFailsDoes(c)
  <1>1. /\ PumpKeepsAll /\ UNCHANGED <<registered, handles, seen>>
        /\ pump[c].at = "fail" /\ PumpGoes(c, "release")
    BY PumpMoves DEF PumpFails, PumpKeepsAll, PumpKeeps, historyVars, PumpSteps
  <1>2. CASE stopSet \/ current = 0
    BY <1>1, <1>2 DEF PumpFails, PumpFailsDoes
  <1>3. CASE ~(stopSet \/ current = 0)
    <2>1. current \in Taps /\ current <= taps
      BY <1>3 DEF SourcesTypeOK, TypeShared, Taps, Pointed
    <2>2. Report(current)
      BY <1>3 DEF PumpFails
    <2> QED BY <1>1, <2>1, <2>2, Failing DEF PumpFailsDoes
  <1> QED BY <1>2, <1>3

PumpReadsDoes(c) ==
    /\ PumpKeepsAll /\ UNCHANGED <<tap, stopper, registered, handles>> /\ pump[c].at = "loop"
    /\ \/ PumpGoes(c, "release") /\ UNCHANGED seen
       \/ PumpGoes(c, "fail") /\ UNCHANGED seen
       \/ /\ PumpMoved(c, "snapshot") /\ pump'[c].gap \in {0, 1}
          /\ seen' = seen + 1 + pump'[c].gap /\ pump'[c].frame = seen'

\* The camera thread reads a frame: all frames are counted, one may have been missed.
LEMMA PumpReadsEffect ==
    ASSUME SourcesTypeOK, NEW c \in Cameras, PumpReads(c)
    PROVE  PumpReadsDoes(c)
  <1>1. PumpKeepsAll /\ UNCHANGED <<tap, stopper, registered, handles>> /\ pump[c].at = "loop"
    BY DEF PumpReads, PumpKeepsAll, PumpKeeps, historyVars
  <1>2. CASE UNCHANGED seen /\ (PumpTo(c, "release") \/ PumpTo(c, "fail"))
    <2>1. PumpGoes(c, "release") \/ PumpGoes(c, "fail")
      BY <1>2, PumpMoves DEF PumpSteps
    <2> QED BY <1>1, <1>2, <2>1 DEF PumpReadsDoes
  <1>3. ASSUME NEW gap \in {0, 1}, CameraReads(c, gap),
               pump' = [pump EXCEPT ![c] = [at |-> "snapshot", tap |-> 0,
                                            frame |-> seen + 1 + gap, gap |-> gap]]
        PROVE  PumpReadsDoes(c)
    <2>1. seen \in Nat /\ seen' = seen + 1 + gap
      BY <1>3 DEF SourcesTypeOK, TypeShared, CameraReads
    <2>2. 0 \in 0..MaxTaps
      BY SourcesAssumption
    <2> DEFINE r == [at |-> "snapshot", tap |-> 0, frame |-> seen + 1 + gap, gap |-> gap]
    <2>3. r \in PumpStates /\ r.at = "snapshot" /\ r.gap = gap /\ r.frame = seen + 1 + gap
      BY <2>1, <2>2 DEF PumpStates, PumpSteps
    <2> HIDE DEF r
    <2>4. PumpMoved(c, "snapshot") /\ pump'[c] = r
      BY <1>3, <2>3 DEF PumpMoved, SourcesTypeOK, TypeThreads, r
    <2> QED BY <1>1, <1>3, <2>1, <2>3, <2>4 DEF PumpReadsDoes
  <1> QED BY <1>2, <1>3 DEF PumpReads

PumpSnapshotsDoes(c) ==
    /\ PumpKeepsAll /\ UNCHANGED <<tap, stopper, registered, handles, seen>>
    /\ pump[c].at = "snapshot"
    /\ \/ PumpGoes(c, "release")
       \/ current = 0 /\ PumpGoes(c, "loop")
       \/ /\ current # 0 /\ PumpMoved(c, "begin") /\ pump'[c].tap = current
          /\ pump'[c].gap = pump[c].gap /\ pump'[c].frame = pump[c].frame

\* The camera thread looks up the current tap for its frame.
LEMMA PumpSnapshotsEffect ==
    ASSUME SourcesTypeOK, NEW c \in Cameras, PumpSnapshots(c)
    PROVE  PumpSnapshotsDoes(c)
  <1>1. /\ PumpKeepsAll /\ UNCHANGED <<tap, stopper, registered, handles, seen>>
        /\ pump[c].at = "snapshot"
    BY DEF PumpSnapshots, PumpKeepsAll, PumpKeeps, historyVars
  <1>2. CASE stopSet
    BY <1>1, <1>2, PumpMoves DEF PumpSnapshots, PumpSnapshotsDoes, PumpSteps
  <1>3. CASE ~stopSet /\ current = 0
    BY <1>1, <1>3, PumpMoves DEF PumpSnapshots, PumpSnapshotsDoes, PumpSteps
  <1>4. CASE ~stopSet /\ current # 0
    <2>1. pump' = [pump EXCEPT ![c].at = "begin", ![c].tap = current]
      BY <1>4 DEF PumpSnapshots
    <2>2. /\ PumpMoved(c, "begin") /\ pump'[c].tap = current /\ pump'[c].gap = pump[c].gap
          /\ pump'[c].frame = pump[c].frame
      BY <2>1 DEF PumpMoved, PumpStates, PumpSteps, SourcesTypeOK, TypeThreads, TypeShared
    <2> QED BY <1>1, <1>4, <2>2 DEF PumpSnapshotsDoes
  <1> QED BY <1>2, <1>3, <1>4

PumpReleasesDoes(c) ==
    /\ PumpKeepsAll /\ UNCHANGED <<tap, stopper, seen>> /\ pump[c].at = "release"
    /\ PumpGoes(c, "ended")
    /\ \/ UNCHANGED <<registered, handles>>
       \/ registered # 0 /\ registered' = 0 /\ handles' = handles - 1

\* The camera thread that ends gives the handle of its camera back.
LEMMA PumpReleasesEffect ==
    ASSUME SourcesTypeOK, NEW c \in Cameras, PumpReleases(c)
    PROVE  PumpReleasesDoes(c)
  <1>1. PumpGoes(c, "ended")
    BY PumpMoves DEF PumpReleases, PumpSteps
  <1>2. c # 0
    BY DEF Cameras
  <1> QED BY <1>1, <1>2 DEF PumpReleases, PumpKeepsAll, PumpKeeps, historyVars, PumpReleasesDoes

\* A camera that an opener holds.
LEMMA HeldCameras ==
    ASSUME SourcesTypeOK, Pointed
    PROVE  \A p \in Openers : opener[p].at \in Holding =>
              opener[p].camera \in Cameras /\ opener[p].camera <= cameras
  BY SourcesAssumption DEF SourcesTypeOK, TypeShared, Pointed, OpenersPoint, Cameras

\* An opener, and the thread it begins.
OpenerAlone == UNCHANGED <<tap, stopper, taps, current, told, quiet>>
PumpLaunchesDoes(p) ==
    /\ OpenerAlone /\ UNCHANGED <<registered, handles, seen, cameras>>
    /\ opener[p].at = "launch"
    /\ opener'[p].at \in {"idle", "tap"} /\ \A q \in Openers \ {p} : opener'[q] = opener[q]
    /\ opener[p].camera \in Cameras /\ PumpMoved(opener[p].camera, "loop")

\* The thread of the newest camera starts in the loop.
LEMMA PumpLaunchesEffect ==
    ASSUME SourcesTypeOK, Pointed, NEW p \in Openers, PumpLaunches(p)
    PROVE  PumpLaunchesDoes(p)
  <1> DEFINE c == opener[p].camera
  <1>1. c \in Cameras
    BY HeldCameras DEF PumpLaunches, Holding
  <1>2. pump' = [pump EXCEPT ![c].at = "loop"]
    BY DEF PumpLaunches
  <1> HIDE DEF c
  <1>3. PumpMoved(c, "loop")
    BY <1>1, <1>2 DEF PumpMoved, PumpStates, PumpSteps, SourcesTypeOK, TypeThreads
  <1>4. opener'[p].at \in {"idle", "tap"} /\ \A q \in Openers \ {p} : opener'[q] = opener[q]
    BY DEF PumpLaunches, PreviewIsOpen, OpenerTo, SourcesTypeOK, TypeThreads
  <1> QED BY <1>1, <1>3, <1>4
      DEF PumpLaunches, OpenerAlone, OpenerKeeps, lockVars, deviceVars, PumpLaunchesDoes, c

\* stop() and close().
StopKeepsAll == UNCHANGED <<pump, registered, handles, taps, opener, cameras, seen>>
StopTakesDoes(s) ==
    /\ StopKeepsAll /\ UNCHANGED <<told, quiet>>
    /\ stopper[s].at = "begin"
    /\ \/ current = 0 /\ UNCHANGED <<tap, current>> /\ StopperReturns(s)
       \/ /\ current \in Taps /\ current <= taps /\ GateShut(current) /\ current' = 0
          /\ OtherStoppers(s) /\ stopper'[s].at = "wait" /\ stopper'[s].tap = current

\* stop() takes the current tap, shuts its gate and waits, or finds none.
LEMMA StopTakesEffect ==
    ASSUME SourcesTypeOK, Pointed, NEW s \in Stoppers, StopTakes(s)
    PROVE  StopTakesDoes(s)
  <1>1. StopKeepsAll /\ UNCHANGED <<told, quiet>> /\ stopper[s].at = "begin"
    BY DEF StopTakes, StopKeepsAll, StopperKeeps, CallKeeps, historyVars
  <1>2. CASE current = 0
    <2>1. UNCHANGED <<tap, current>> /\ Returned(s)
      BY <1>2 DEF StopTakes
    <2> QED BY <1>1, <1>2, <2>1, Returning DEF StopTakesDoes
  <1>3. CASE current # 0
    <2>1. current' = 0 /\ current <= taps
      BY <1>3 DEF StopTakes, Pointed
    <2> QED BY <1>1, <1>3, <2>1, Stopping DEF StopTakesDoes
  <1> QED BY <1>2, <1>3

StopWaitsDoes(s) ==
    /\ StopKeepsAll /\ UNCHANGED <<tap, current, told, quiet>> /\ stopper[s].at = "wait"
    /\ OtherStoppers(s) /\ stopper'[s].at = "imu" /\ stopper'[s].tap = stopper[s].tap
    /\ stopper'[s].late = FALSE => tap[stopper[s].tap].inflight = 0

\* stop() goes on when no frame is in flight, or late when it has waited long enough.
LEMMA StopWaitsEffect ==
    ASSUME SourcesTypeOK, Pointed, NEW s \in Stoppers, StopWaits(s)
    PROVE  StopWaitsDoes(s)
  <1>1. StopKeepsAll /\ UNCHANGED <<tap, current, told, quiet>> /\ stopper[s].at = "wait"
    BY DEF StopWaits, StopKeepsAll, StopperKeeps, CallKeeps, historyVars
  <1> QED BY <1>1, Waited DEF StopWaitsDoes

StopShutsImuDoes(s) ==
    /\ StopKeepsAll /\ UNCHANGED <<current, told, quiet>> /\ stopper[s].at = "imu"
    /\ stopper[s].tap \in Taps /\ stopper[s].tap <= taps /\ ImuShut(stopper[s].tap)
    /\ StopperGoes(s, "join")

\* stop() closes the IMU and goes on to join its thread.
LEMMA StopShutsImuEffect ==
    ASSUME SourcesTypeOK, Pointed, NEW s \in Stoppers, StopShutsImu(s)
    PROVE  StopShutsImuDoes(s)
  <1>1. stopper[s].tap \in Taps /\ stopper[s].tap <= taps
    BY StopperAtTap DEF StopShutsImu
  <1>2. ImuShut(stopper[s].tap)
    BY <1>1, Shutting
  <1>3. StopperTo(s, "join") /\ "join" \in StopperSteps
    BY DEF StopShutsImu, StopperSteps
  <1>4. StopperGoes(s, "join")
    BY <1>3, GoingOn
  <1> QED BY <1>1, <1>2, <1>4
      DEF StopShutsImu, StopKeepsAll, StopperKeeps, CallKeeps, historyVars, StopShutsImuDoes

StopJoinsDoes(s) ==
    /\ StopKeepsAll /\ UNCHANGED <<tap, current, told>> /\ StopperReturns(s)
    /\ stopper[s].at = "join" /\ stopper[s].tap \in Taps
    /\ \/ UNCHANGED quiet
       \/ /\ quiet' = quiet \cup {stopper[s].tap}
          /\ tap[stopper[s].tap].thread = "ended" /\ stopper[s].late = FALSE

\* stop() that joined the IMU thread with no frame in flight leaves its tap quiet.
LEMMA StopJoinsEffect ==
    ASSUME SourcesTypeOK, Pointed, NEW s \in Stoppers, StopJoins(s)
    PROVE  StopJoinsDoes(s)
  <1>1. Returned(s) /\ stopper[s].at = "join"
    BY DEF StopJoins
  <1>2. StopperReturns(s)
    BY <1>1, Returning
  <1>3. stopper[s].tap \in Taps
    BY <1>1, StopperAtTap
  <1>4. \/ UNCHANGED quiet
        \/ /\ quiet' = quiet \cup {stopper[s].tap}
           /\ tap[stopper[s].tap].thread = "ended" /\ stopper[s].late = FALSE
    BY DEF StopJoins, SourcesTypeOK, TypeThreads, StopperStates
  <1> QED BY <1>1, <1>2, <1>3, <1>4 DEF StopJoins, StopKeepsAll, StopperKeeps, CallKeeps,
      StopJoinsDoes

CloseJoinsDoes(s) ==
    /\ StopKeepsAll /\ UNCHANGED <<tap, told, quiet>> /\ StopperReturns(s)
    /\ current' = 0 \/ current' = current
    /\ stopper[s].at = "camera join"

\* close() that joined the camera thread goes on, or gives up.
LEMMA CloseJoinsEffect ==
    ASSUME SourcesTypeOK, Pointed, NEW s \in Stoppers, CloseJoins(s)
    PROVE  CloseJoinsDoes(s)
  <1>1. StopperReturns(s)
    BY Returning DEF CloseJoins
  <1> QED BY <1>1 DEF CloseJoins, StopKeepsAll, StopperKeeps, CallKeeps, CloseJoinsDoes

CloseShutsCameraDoes(s) ==
    /\ StopKeepsAll /\ UNCHANGED <<tap, current, told, quiet>>
    /\ OtherStoppers(s) /\ stopper'[s].at = "camera join" /\ stopper[s].at = "camera"

\* close() that shut the camera goes on to join its thread.
LEMMA CloseShutsCameraEffect ==
    ASSUME SourcesTypeOK, NEW s \in Stoppers, CloseShutsCamera(s)
    PROVE  CloseShutsCameraDoes(s)
  BY ShuttingCamera DEF CloseShutsCamera, StopKeepsAll, StopperKeeps, CallKeeps, historyVars,
      CloseShutsCameraDoes

FailureToldDoes(t) ==
    /\ StopKeepsAll /\ UNCHANGED <<tap, current, quiet>>
    /\ stopper[Reporter(t)].at = "tell" /\ Reporter(t) \in Stoppers
    /\ StopperGoes(Reporter(t), "idle")
    /\ told' = [told EXCEPT ![t] = told[t] + 1]

\* The reporter of a tap tells the coordinator and is done with the tap.
LEMMA FailureToldEffect ==
    ASSUME SourcesTypeOK, NEW t \in Taps, FailureTold(t)
    PROVE  FailureToldDoes(t)
  <1>1. Reporter(t) \in Stoppers /\ "idle" \in StopperSteps
    BY Reporters DEF StopperSteps
  <1>2. StopperTo(Reporter(t), "idle")
    BY DEF FailureTold
  <1>3. StopperGoes(Reporter(t), "idle")
    BY <1>1, <1>2, GoingOn
  <1> QED BY <1>1, <1>3 DEF FailureTold, StopKeepsAll, StopperKeeps, CallKeeps, FailureToldDoes

\* Calls of stop() and close(), and a start that failed and closes.
StopCalledDoes ==
    /\ StopKeepsAll /\ UNCHANGED <<tap, current, told, quiet>>
    /\ StopperGoes(Caller("coordinator"), "begin")

\* The coordinator calls stop().
LEMMA StopCalledEffect ==
    ASSUME SourcesTypeOK, StopCalled
    PROVE  StopCalledDoes
  <1>1. Caller("coordinator") \in Stoppers /\ "begin" \in StopperSteps
    BY Callers DEF StopperSteps
  <1>2. StopperGoes(Caller("coordinator"), "begin")
    BY <1>1, GoingOn DEF StopCalled
  <1> QED BY <1>2 DEF StopCalled, StopKeepsAll, CallKeeps, historyVars, StopCalledDoes

CloseCalledDoes ==
    /\ StopKeepsAll /\ UNCHANGED <<tap, current, told, quiet>>
    /\ OtherStoppers(Caller("close")) /\ stopper'[Caller("close")].at = "begin"

\* The daemon calls close().
LEMMA CloseCalledEffect ==
    ASSUME SourcesTypeOK, CloseCalled
    PROVE  CloseCalledDoes
  <1>1. Caller("close") \in Stoppers
    BY Callers
  <1>2. OtherStoppers(Caller("close")) /\ stopper'[Caller("close")].at = "begin"
    BY <1>1, Beginning DEF CloseCalled
  <1> QED BY <1>2 DEF CloseCalled, StopKeepsAll, CallKeeps, historyVars, CloseCalledDoes

OpenerKeepsAll == UNCHANGED <<pump, taps, cameras, handles, registered>>
OpenerClosesDoes(p) ==
    /\ OpenerKeepsAll /\ UNCHANGED <<tap, current, told, quiet>>
    /\ \/ UNCHANGED stopper
       \/ OtherStoppers(Caller(p)) /\ stopper'[Caller(p)].at = "begin"

\* An opener that fails closes the sources it opened.
LEMMA OpenerClosesEffect ==
    ASSUME SourcesTypeOK, NEW p \in Openers, WarmUp(p) \/ CameraAttaches(p)
    PROVE  OpenerClosesDoes(p)
  <1>1. UNCHANGED stopper \/ OpenerCloses(p)
    BY DEF WarmUp, CameraAttaches
  <1>2. OpenerCloses(p) => OtherStoppers(Caller(p)) /\ stopper'[Caller(p)].at = "begin"
    BY Callers, Beginning DEF OpenerCloses
  <1>3. OpenerKeepsAll /\ UNCHANGED <<tap, current, told, quiet>>
    BY DEF WarmUp, CameraAttaches, OpenerKeepsAll, OpenerKeeps, lockVars, deviceVars
  <1> QED BY <1>1, <1>2, <1>3 DEF OpenerClosesDoes

\* Counting the frames of a tap.
LEMMA FlyingFinite ==
    \A t \in Taps : IsFiniteSet(Flying(t)) /\ Cardinality(Flying(t)) \in Nat
  <1>1. IsFiniteSet(Cameras)
    BY SourcesAssumption, FS_Interval DEF Cameras
  <1>2. \A t \in Taps : Flying(t) \subseteq Cameras
    BY DEF Flying
  <1> QED BY <1>1, <1>2, FS_Subset, FS_CardinalityType

\* Nobody's frames move: the counts of the taps stay right.
LEMMA FlyingKept ==
    ASSUME SourcesTypeOK, FlyingCounted,
           \A t \in Taps : Flying(t)' = Flying(t) /\ tap'[t].inflight = tap[t].inflight
    PROVE  FlyingCounted'
  BY DEF FlyingCounted

\* A frame taken off for a tap is one more in flight there.
LEMMA FlyingBegun ==
    ASSUME SourcesTypeOK, FlyingCounted, NEW t \in Taps, NEW c \in Cameras, c \notin Flying(t),
           Flying(t)' = Flying(t) \cup {c}, tap'[t].inflight = tap[t].inflight + 1,
           \A u \in Taps \ {t} : Flying(u)' = Flying(u) /\ tap'[u].inflight = tap[u].inflight
    PROVE  FlyingCounted'
  <1>1. Cardinality(Flying(t)') = Cardinality(Flying(t)) + 1
    BY FlyingFinite, FS_AddElement
  <1> QED BY <1>1 DEF FlyingCounted

\* A frame landed is one less in flight there.
LEMMA FlyingEnded ==
    ASSUME SourcesTypeOK, FlyingCounted, NEW t \in Taps, NEW c \in Cameras, c \in Flying(t),
           Flying(t)' = Flying(t) \ {c}, tap'[t].inflight = tap[t].inflight - 1,
           \A u \in Taps \ {t} : Flying(u)' = Flying(u) /\ tap'[u].inflight = tap[u].inflight
    PROVE  FlyingCounted'
  <1>1. Cardinality(Flying(t)') = Cardinality(Flying(t)) - 1
    BY FlyingFinite, FS_RemoveElement
  <1> QED BY <1>1 DEF FlyingCounted

\* Counting the IMUs that are held.
LEMMA ImusFinite == IsFiniteSet(OpenImus) /\ Cardinality(OpenImus) \in Nat
  <1>1. IsFiniteSet(Taps)
    BY SourcesAssumption, FS_Interval DEF Taps
  <1>2. OpenImus \subseteq Taps
    BY DEF OpenImus
  <1> QED BY <1>1, <1>2, FS_Subset, FS_CardinalityType

\* An IMU opened is at most one more held.
LEMMA ImuAdded ==
    ASSUME NEW t \in Taps, OpenImus' = OpenImus \cup {t}
    PROVE  Cardinality(OpenImus') \in Nat /\ Cardinality(OpenImus') <= Cardinality(OpenImus) + 1
  BY SMTT(20), ImusFinite, FS_AddElement

\* An IMU given back is one less held.
LEMMA ImuRemoved ==
    ASSUME NEW t \in OpenImus, OpenImus' = OpenImus \ {t}
    PROVE  Cardinality(OpenImus') = Cardinality(OpenImus) - 1
  BY ImusFinite, FS_RemoveElement

\* With a frame in every Decimation, o of them observed and c taken, the next is one to take
\* just when all of the c have passed.
LEMMA Multiple ==
    ASSUME NEW d \in Nat \ {0}, NEW c \in Nat \ {0}, NEW o \in Nat, d * (c - 1) < o, o <= d * c
    PROVE  o % d = 0 <=> o = d * c
  <1>1. (d * c) % d = 0
    OBVIOUS
  <1>2. ASSUME o % d = 0 PROVE o = d * c
    <2> DEFINE k == o \div d
    <2>1. k \in Int /\ o = d * k
      <3>1. o = d * (o \div d) + (o % d)
        OBVIOUS
      <3>2. o \div d \in Int
        OBVIOUS
      <3>3. o = d * (o \div d)
        BY <1>2, <3>1, <3>2
      <3> QED BY <3>2, <3>3
    <2> HIDE DEF k
    <2>2. k <= c /\ c - 1 < k
      <3>1. ASSUME k >= c + 1 PROVE FALSE
        <4>1. d * k = d * c + d * (k - c)
          BY <2>1
        <4>2. d * (k - c) >= d
          BY <2>1, <3>1
        <4> QED BY <4>1, <4>2, <2>1
      <3>2. ASSUME k <= c - 1 PROVE FALSE
        <4>1. d * (c - 1) = d * k + d * ((c - 1) - k)
          BY <2>1
        <4>2. d * ((c - 1) - k) >= 0
          BY <2>1, <3>2
        <4> QED BY <4>1, <4>2, <2>1
      <3> QED BY <2>1, <3>1, <3>2
    <2> QED BY <2>1, <2>2
  <1> QED BY <1>1, <1>2

\* The callers of start_preview() and start() keep their type.
LEMMA OpenersTyped ==
    ASSUME SourcesTypeOK, Pointed, [SourcesNext]_sourceVars
    PROVE  opener' \in [Openers -> OpenerStates]
  <1> USE SourcesAssumption
      DEF SourceFault, Called, CameraCloses, CameraReads, CameraRaises, OpenerKeeps, OpenerTo,
          PreviewIsOpen, OpenerCloses, Reports, Reported, Report, PumpKeeps, ImuKeeps, ImuTo,
          CallKeeps, StopperKeeps, StopperTo, Returned, lockVars, deviceVars, historyVars
  <1>1. ASSUME NEW p \in Openers, PreviewBegins(p) PROVE opener' \in [Openers -> OpenerStates]
    BY <1>1 DEF PreviewBegins, SourcesTypeOK, TypeThreads, OpenerStates, OpenerSteps,
        TypeShared
  <1>2. ASSUME NEW p \in Openers, CameraOpens(p) PROVE opener' \in [Openers -> OpenerStates]
    BY <1>2 DEF CameraOpens, SourcesTypeOK, TypeThreads, OpenerStates, OpenerSteps,
        TypeShared
  <1>3. ASSUME NEW p \in Openers, CameraRegisters(p) PROVE opener' \in [Openers -> OpenerStates]
    BY <1>3 DEF CameraRegisters, SourcesTypeOK, TypeThreads, OpenerStates, OpenerSteps,
        TypeShared
  <1>4. ASSUME NEW p \in Openers, WarmUp(p) PROVE opener' \in [Openers -> OpenerStates]
    BY <1>4 DEF WarmUp, SourcesTypeOK, TypeThreads, OpenerStates, OpenerSteps, TypeShared
  <1>5. ASSUME NEW p \in Openers, CameraAttaches(p) PROVE opener' \in [Openers -> OpenerStates]
    BY SMTT(20), <1>5 DEF CameraAttaches, SourcesTypeOK, TypeThreads, OpenerStates, OpenerSteps,
        TypeShared
  <1>6. ASSUME NEW p \in Openers, PumpLaunches(p) PROVE opener' \in [Openers -> OpenerStates]
    BY <1>6 DEF PumpLaunches, SourcesTypeOK, TypeThreads, OpenerStates, OpenerSteps,
        TypeShared
  <1>7. ASSUME NEW p \in Openers, OpenerRaises(p) PROVE opener' \in [Openers -> OpenerStates]
    BY <1>7 DEF OpenerRaises, SourcesTypeOK, TypeThreads, OpenerStates, OpenerSteps,
        TypeShared
  <1>8. CASE TapAttaches
    BY <1>8 DEF TapAttaches, Openers, SourcesTypeOK, TypeThreads, OpenerStates,
        OpenerSteps, TypeShared
  <1>9. CASE ImuLaunches
    BY <1>9 DEF ImuLaunches, Openers, SourcesTypeOK, TypeThreads, OpenerStates,
        OpenerSteps, TypeShared
  <1>10. CASE ImuFactoryRaises
    BY <1>10 DEF ImuFactoryRaises, Openers, SourcesTypeOK, TypeThreads, OpenerStates,
        OpenerSteps, TypeShared
  <1>11. CASE UNCHANGED opener
    BY <1>11 DEF SourcesTypeOK, TypeThreads
  <1>12. \/ UNCHANGED opener
         \/ \E p \in Openers :
                 \/ PreviewBegins(p) \/ CameraOpens(p) \/ CameraRegisters(p) \/ WarmUp(p)
                 \/ CameraAttaches(p) \/ PumpLaunches(p) \/ OpenerRaises(p)
         \/ TapAttaches
         \/ ImuLaunches
         \/ ImuFactoryRaises
    BY DEF SourcesNext, sourceVars, PumpReads, PumpSnapshots, PumpBegins, PumpSubmits,
        PumpReports, PumpFinishes, PumpFails, PumpReleases, ImuReads, ImuChecks, ImuSubmits,
        ImuFails, ImuReleases, FailureTold, StopCalled, CloseCalled, StopTakes, StopWaits,
        StopShutsImu, StopJoins, CloseShutsCamera, CloseJoins
  <1> QED BY <1>1, <1>2, <1>3, <1>4, <1>5, <1>6, <1>7, <1>8, <1>9, <1>10, <1>11, <1>12

\* What the threads share keeps its type.
LEMMA SharedTyped ==
    ASSUME SourcesTypeOK, Pointed, [SourcesNext]_sourceVars
    PROVE  TypeShared'
  <1> USE SourcesAssumption
      DEF SourceFault, Called, CameraCloses, CameraReads, CameraRaises, OpenerKeeps, OpenerTo,
          PreviewIsOpen, OpenerCloses, Reports, Reported, Report, PumpKeeps, ImuKeeps, ImuTo,
          CallKeeps, StopperKeeps, StopperTo, Returned, lockVars, deviceVars, historyVars
  <1>1. ASSUME NEW p \in Openers, PreviewBegins(p) PROVE TypeShared'
    <2>1. stopSet' \in BOOLEAN /\ closedWell' \in BOOLEAN
      BY <1>1 DEF PreviewBegins, SourcesTypeOK, TypeShared
    <2>2. current' \in 0..MaxTaps /\ streaming' \in 0..MaxCameras
      <3>1. /\ current \in 0..MaxTaps /\ streaming \in 0..MaxCameras
            /\ current' = 0 \/ current' = current
            /\ streaming' = 0 \/ streaming' = streaming
        BY <1>1 DEF PreviewBegins, SourcesTypeOK, TypeShared
      <3> QED BY <3>1
    <2>3. UNCHANGED <<handles, registered, attached, cameras, taps, seen, sourceFaults>>
      BY <1>1 DEF PreviewBegins
    <2>4. told' \in [Taps -> Nat] /\ quiet' \subseteq Taps /\ calls' \in Nat
      BY <1>1 DEF PreviewBegins, SourcesTypeOK, TypeShared
    <2> QED BY <2>1, <2>2, <2>3, <2>4 DEF SourcesTypeOK, TypeShared
  <1>2. ASSUME NEW p \in Openers, CameraOpens(p) PROVE TypeShared'
    BY <1>2 DEF CameraOpens, SourcesTypeOK, TypeShared
  <1>3. ASSUME NEW p \in Openers, CameraRegisters(p) PROVE TypeShared'
    BY <1>3 DEF CameraRegisters, TypeThreads, OpenerStates, SourcesTypeOK, TypeShared
  <1>4. ASSUME NEW p \in Openers, WarmUp(p) PROVE TypeShared'
    BY <1>4 DEF WarmUp, SourcesTypeOK, TypeShared
  <1>5. ASSUME NEW p \in Openers, CameraAttaches(p) PROVE TypeShared'
    BY <1>5 DEF CameraAttaches, TypeThreads, OpenerStates, SourcesTypeOK, TypeShared
  <1>6. ASSUME NEW p \in Openers, PumpLaunches(p) PROVE TypeShared'
    BY <1>6 DEF PumpLaunches, SourcesTypeOK, TypeShared
  <1>7. ASSUME NEW p \in Openers, OpenerRaises(p) PROVE TypeShared'
    BY <1>7 DEF OpenerRaises, SourcesTypeOK, TypeShared
  <1>8. CASE TapAttaches
    BY <1>8 DEF TapAttaches, SourcesTypeOK, TypeShared
  <1>9. CASE ImuLaunches
    BY <1>9 DEF ImuLaunches, SourcesTypeOK, TypeShared
  <1>10. CASE ImuFactoryRaises
    BY <1>10 DEF ImuFactoryRaises, SourcesTypeOK, TypeShared
  <1>11. ASSUME NEW c \in Cameras, PumpReads(c) PROVE TypeShared'
    BY <1>11 DEF PumpReads, SourcesTypeOK, TypeShared
  <1>12. ASSUME NEW c \in Cameras, PumpSnapshots(c) PROVE TypeShared'
    BY <1>12 DEF PumpSnapshots, SourcesTypeOK, TypeShared
  <1>13. ASSUME NEW c \in Cameras, PumpBegins(c) PROVE TypeShared'
    BY <1>13 DEF PumpBegins, SourcesTypeOK, TypeShared
  <1>14. ASSUME NEW c \in Cameras, PumpSubmits(c) PROVE TypeShared'
    BY <1>14 DEF PumpSubmits, SourcesTypeOK, TypeShared
  <1>15. ASSUME NEW c \in Cameras, PumpReports(c) PROVE TypeShared'
    BY <1>15 DEF PumpReports, SourcesTypeOK, TypeShared
  <1>16. ASSUME NEW c \in Cameras, PumpFinishes(c) PROVE TypeShared'
    BY <1>16 DEF PumpFinishes, SourcesTypeOK, TypeShared
  <1>17. ASSUME NEW c \in Cameras, PumpFails(c) PROVE TypeShared'
    BY <1>17 DEF PumpFails, SourcesTypeOK, TypeShared
  <1>18. ASSUME NEW c \in Cameras, PumpReleases(c) PROVE TypeShared'
    BY <1>18 DEF PumpReleases, Cameras, SourcesTypeOK, TypeShared
  <1>19. ASSUME NEW t \in Taps, ImuReads(t) PROVE TypeShared'
    BY <1>19 DEF ImuReads, SourcesTypeOK, TypeShared
  <1>20. ASSUME NEW t \in Taps, ImuChecks(t) PROVE TypeShared'
    BY <1>20 DEF ImuChecks, SourcesTypeOK, TypeShared
  <1>21. ASSUME NEW t \in Taps, ImuSubmits(t) PROVE TypeShared'
    BY <1>21 DEF ImuSubmits, SourcesTypeOK, TypeShared
  <1>22. ASSUME NEW t \in Taps, ImuFails(t) PROVE TypeShared'
    BY <1>22 DEF ImuFails, SourcesTypeOK, TypeShared
  <1>23. ASSUME NEW t \in Taps, ImuReleases(t) PROVE TypeShared'
    BY <1>23 DEF ImuReleases, SourcesTypeOK, TypeShared
  <1>24. ASSUME NEW t \in Taps, FailureTold(t) PROVE TypeShared'
    <2>1. stopSet' \in BOOLEAN /\ closedWell' \in BOOLEAN
      BY <1>24 DEF FailureTold, SourcesTypeOK, TypeShared
    <2>2. current' \in 0..MaxTaps /\ streaming' \in 0..MaxCameras
      <3>1. /\ current \in 0..MaxTaps /\ streaming \in 0..MaxCameras
            /\ current' = 0 \/ current' = current
            /\ streaming' = 0 \/ streaming' = streaming
        BY <1>24 DEF FailureTold, SourcesTypeOK, TypeShared
      <3> QED BY <3>1
    <2>3. UNCHANGED <<handles, registered, attached, cameras, taps, seen, sourceFaults>>
      BY <1>24 DEF FailureTold
    <2>4. told' \in [Taps -> Nat] /\ quiet' \subseteq Taps /\ calls' \in Nat
      BY <1>24 DEF FailureTold, SourcesTypeOK, TypeShared
    <2> QED BY <2>1, <2>2, <2>3, <2>4 DEF SourcesTypeOK, TypeShared
  <1>25. CASE StopCalled
    BY <1>25 DEF StopCalled, SourcesTypeOK, TypeShared
  <1>26. CASE CloseCalled
    BY <1>26 DEF CloseCalled, SourcesTypeOK, TypeShared
  <1>27. ASSUME NEW s \in Stoppers, StopTakes(s) PROVE TypeShared'
    BY <1>27 DEF StopTakes, SourcesTypeOK, TypeShared
  <1>28. ASSUME NEW s \in Stoppers, StopWaits(s) PROVE TypeShared'
    BY <1>28 DEF StopWaits, SourcesTypeOK, TypeShared
  <1>29. ASSUME NEW s \in Stoppers, StopShutsImu(s) PROVE TypeShared'
    BY <1>29 DEF StopShutsImu, SourcesTypeOK, TypeShared
  <1>30. ASSUME NEW s \in Stoppers, StopJoins(s) PROVE TypeShared'
    BY SMTT(20), <1>30 DEF StopJoins, Pointed, StoppersPoint, Taps, SourcesTypeOK, TypeShared
  <1>31. ASSUME NEW s \in Stoppers, CloseShutsCamera(s) PROVE TypeShared'
    <2>1. stopSet' \in BOOLEAN /\ closedWell' \in BOOLEAN
      BY <1>31 DEF CloseShutsCamera, SourcesTypeOK, TypeShared
    <2>2. current' \in 0..MaxTaps /\ streaming' \in 0..MaxCameras
      <3>1. /\ current \in 0..MaxTaps /\ streaming \in 0..MaxCameras
            /\ current' = 0 \/ current' = current
            /\ streaming' = 0 \/ streaming' = streaming
        BY <1>31 DEF CloseShutsCamera, SourcesTypeOK, TypeShared
      <3> QED BY <3>1
    <2>3. UNCHANGED <<handles, registered, attached, cameras, taps, seen, sourceFaults>>
      BY <1>31 DEF CloseShutsCamera
    <2>4. told' \in [Taps -> Nat] /\ quiet' \subseteq Taps /\ calls' \in Nat
      BY <1>31 DEF CloseShutsCamera, SourcesTypeOK, TypeShared
    <2> QED BY <2>1, <2>2, <2>3, <2>4 DEF SourcesTypeOK, TypeShared
  <1>32. ASSUME NEW s \in Stoppers, CloseJoins(s) PROVE TypeShared'
    <2>1. stopSet' \in BOOLEAN /\ closedWell' \in BOOLEAN
      BY <1>32 DEF CloseJoins, SourcesTypeOK, TypeShared
    <2>2. current' \in 0..MaxTaps /\ streaming' \in 0..MaxCameras
      <3>1. /\ current \in 0..MaxTaps /\ streaming \in 0..MaxCameras
            /\ current' = 0 \/ current' = current
            /\ streaming' = 0 \/ streaming' = streaming
        BY <1>32 DEF CloseJoins, SourcesTypeOK, TypeShared
      <3> QED BY <3>1
    <2>3. UNCHANGED <<handles, registered, attached, cameras, taps, seen, sourceFaults>>
      BY <1>32 DEF CloseJoins
    <2>4. told' \in [Taps -> Nat] /\ quiet' \subseteq Taps /\ calls' \in Nat
      BY <1>32 DEF CloseJoins, SourcesTypeOK, TypeShared
    <2> QED BY <2>1, <2>2, <2>3, <2>4 DEF SourcesTypeOK, TypeShared
  <1>33. CASE UNCHANGED sourceVars
    BY <1>33 DEF sourceVars, SourcesTypeOK, TypeShared
  <1> QED
    BY <1>1, <1>2, <1>3, <1>4, <1>5, <1>6, <1>7, <1>8, <1>9, <1>10, <1>11, <1>12, <1>13,
       <1>14, <1>15, <1>16, <1>17, <1>18, <1>19, <1>20, <1>21, <1>22, <1>23, <1>24, <1>25,
       <1>26, <1>27, <1>28, <1>29, <1>30, <1>31, <1>32, <1>33 DEF SourcesNext

\* The camera threads keep their type.
LEMMA PumpsStep ==
    ASSUME SourcesTypeOK, Pointed, [SourcesNext]_sourceVars
    PROVE  pump' \in [Cameras -> PumpStates]
  <1> USE SourcesAssumption
      DEF SourceFault, Called, CameraCloses, CameraReads, CameraRaises, OpenerKeeps, OpenerTo,
          PreviewIsOpen, OpenerCloses, Reports, Reported, Report, PumpKeeps, ImuKeeps, ImuTo,
          CallKeeps, StopperKeeps, StopperTo, Returned, lockVars, deviceVars, historyVars
  <1>1. ASSUME NEW p \in Openers, PumpLaunches(p) PROVE pump' \in [Cameras -> PumpStates]
    <2>1. PumpLaunchesDoes(p)
      BY <1>1, PumpLaunchesEffect
    <2> QED BY <2>1 DEF PumpLaunchesDoes, PumpGoes, PumpMoved, PumpTakes, Observes
  <1>2. ASSUME NEW c \in Cameras, PumpReads(c) PROVE pump' \in [Cameras -> PumpStates]
    <2>1. PumpReadsDoes(c)
      BY <1>2, PumpReadsEffect
    <2> QED BY <2>1 DEF PumpReadsDoes, PumpGoes, PumpMoved, PumpTakes, Observes
  <1>3. ASSUME NEW c \in Cameras, PumpSnapshots(c) PROVE pump' \in [Cameras -> PumpStates]
    <2>1. PumpSnapshotsDoes(c)
      BY <1>3, PumpSnapshotsEffect
    <2> QED BY <2>1 DEF PumpSnapshotsDoes, PumpGoes, PumpMoved, PumpTakes, Observes
  <1>4. ASSUME NEW c \in Cameras, PumpBegins(c) PROVE pump' \in [Cameras -> PumpStates]
    <2>1. PumpBeginsDoes(c)
      BY <1>4, PumpBeginsEffect
    <2> QED BY <2>1 DEF PumpBeginsDoes, PumpGoes, PumpMoved, PumpTakes, Observes
  <1>5. ASSUME NEW c \in Cameras, PumpSubmits(c) PROVE pump' \in [Cameras -> PumpStates]
    <2>1. PumpSubmitsDoes(c)
      BY <1>5, PumpSubmitsEffect
    <2> QED BY <2>1 DEF PumpSubmitsDoes, PumpGoes, PumpMoved, PumpTakes, Observes
  <1>6. ASSUME NEW c \in Cameras, PumpReports(c) PROVE pump' \in [Cameras -> PumpStates]
    <2>1. PumpReportsDoes(c)
      BY <1>6, PumpReportsEffect
    <2> QED BY <2>1 DEF PumpReportsDoes, PumpGoes, PumpMoved, PumpTakes, Observes
  <1>7. ASSUME NEW c \in Cameras, PumpFinishes(c) PROVE pump' \in [Cameras -> PumpStates]
    <2>1. PumpFinishesDoes(c)
      BY <1>7, PumpFinishesEffect
    <2> QED BY <2>1 DEF PumpFinishesDoes, PumpGoes, PumpMoved, PumpTakes, Observes
  <1>8. ASSUME NEW c \in Cameras, PumpFails(c) PROVE pump' \in [Cameras -> PumpStates]
    <2>1. PumpFailsDoes(c)
      BY <1>8, PumpFailsEffect
    <2> QED BY <2>1 DEF PumpFailsDoes, PumpGoes, PumpMoved, PumpTakes, Observes
  <1>9. ASSUME NEW c \in Cameras, PumpReleases(c) PROVE pump' \in [Cameras -> PumpStates]
    <2>1. PumpReleasesDoes(c)
      BY <1>9, PumpReleasesEffect
    <2> QED BY <2>1 DEF PumpReleasesDoes, PumpGoes, PumpMoved, PumpTakes, Observes
  <1>10. CASE UNCHANGED pump
    BY <1>10 DEF SourcesTypeOK, TypeThreads
  <1>11. \/ UNCHANGED pump
         \/ \E p \in Openers : PumpLaunches(p)
         \/ \E c \in Cameras :
                 \/ PumpReads(c) \/ PumpSnapshots(c) \/ PumpBegins(c) \/ PumpSubmits(c)
                 \/ PumpReports(c) \/ PumpFinishes(c) \/ PumpFails(c) \/ PumpReleases(c)
    BY DEF SourcesNext, sourceVars, PreviewBegins, CameraOpens, CameraRegisters, WarmUp,
        CameraAttaches, OpenerRaises, TapAttaches, ImuLaunches, ImuFactoryRaises, ImuReads,
        ImuChecks, ImuSubmits, ImuFails, ImuReleases, FailureTold, StopCalled, CloseCalled,
        StopTakes, StopWaits, StopShutsImu, StopJoins, CloseShutsCamera, CloseJoins
  <1> QED BY <1>1, <1>2, <1>3, <1>4, <1>5, <1>6, <1>7, <1>8, <1>9, <1>10, <1>11

\* Nothing that was made is unmade, and the tap that records was made.
LEMMA CurrentStep ==
    ASSUME SourcesTypeOK, Pointed, [SourcesNext]_sourceVars
    PROVE  current' <= taps' /\ taps <= taps' /\ cameras <= cameras'
  <1> USE SourcesAssumption
      DEF SourceFault, Called, CameraCloses, CameraReads, CameraRaises, OpenerKeeps, OpenerTo,
          PreviewIsOpen, OpenerCloses, Reports, Reported, Report, PumpKeeps, ImuKeeps, ImuTo,
          CallKeeps, StopperKeeps, StopperTo, Returned, lockVars, deviceVars, historyVars
  <1>1. ASSUME NEW p \in Openers, CameraOpens(p)
        PROVE  current' <= taps' /\ taps <= taps' /\ cameras <= cameras'
    BY <1>1 DEF CameraOpens, SourcesTypeOK, TypeShared, Pointed
  <1>2. CASE TapAttaches
    BY <1>2 DEF TapAttaches, SourcesTypeOK, TypeShared, Pointed
  <1>3. ASSUME NEW t \in Taps, ImuReleases(t)
        PROVE  current' <= taps' /\ taps <= taps' /\ cameras <= cameras'
    BY <1>3 DEF ImuReleases, SourcesTypeOK, TypeShared, Pointed
  <1>4. ASSUME NEW s \in Stoppers, StopTakes(s)
        PROVE  current' <= taps' /\ taps <= taps' /\ cameras <= cameras'
    BY <1>4 DEF StopTakes, SourcesTypeOK, TypeShared, Pointed
  <1>5. ASSUME NEW s \in Stoppers, CloseJoins(s)
        PROVE  current' <= taps' /\ taps <= taps' /\ cameras <= cameras'
    <2>1. CloseJoinsDoes(s)
      BY <1>5, CloseJoinsEffect
    <2>2. UNCHANGED <<taps, cameras>> /\ (current' = 0 \/ current' = current)
      BY <2>1 DEF CloseJoinsDoes, StopKeepsAll
    <2>3. current <= taps /\ taps \in Nat /\ cameras \in Nat
      BY DEF SourcesTypeOK, TypeShared, Pointed
    <2> QED BY <2>2, <2>3
  <1>6. CASE UNCHANGED <<current, taps, cameras>>
    BY <1>6 DEF SourcesTypeOK, TypeShared, Pointed
  <1>7. \/ UNCHANGED <<current, taps, cameras>>
        \/ \E p \in Openers : CameraOpens(p)
        \/ TapAttaches
        \/ \E t \in Taps : ImuReleases(t)
        \/ \E s \in Stoppers : StopTakes(s) \/ CloseJoins(s)
    <2>1. \/ UNCHANGED <<taps, cameras>>
          \/ \E p \in Openers : CameraOpens(p)
          \/ TapAttaches
      BY ZenonT(40) DEF SourcesNext, sourceVars, PreviewBegins, CameraRegisters, WarmUp,
          CameraAttaches, PumpLaunches, OpenerRaises, ImuLaunches, ImuFactoryRaises, PumpReads,
          PumpSnapshots, PumpBegins, PumpSubmits, PumpReports, PumpFinishes, PumpFails,
          PumpReleases, ImuReads, ImuChecks, ImuSubmits, ImuFails, ImuReleases, FailureTold,
          StopCalled, CloseCalled, StopTakes, StopWaits, StopShutsImu, StopJoins,
          CloseShutsCamera, CloseJoins
    <2>2. \/ UNCHANGED current
          \/ TapAttaches
          \/ \E t \in Taps : ImuReleases(t)
          \/ \E s \in Stoppers : StopTakes(s) \/ CloseJoins(s)
      BY ZenonT(40) DEF SourcesNext, sourceVars, PreviewBegins, CameraOpens, CameraRegisters,
          WarmUp, CameraAttaches, PumpLaunches, OpenerRaises, ImuLaunches, ImuFactoryRaises,
          PumpReads, PumpSnapshots, PumpBegins, PumpSubmits, PumpReports, PumpFinishes,
          PumpFails, PumpReleases, ImuReads, ImuChecks, ImuSubmits, ImuFails, FailureTold,
          StopCalled, CloseCalled, StopWaits, StopShutsImu, StopJoins, CloseShutsCamera
    <2> QED BY <2>1, <2>2
  <1> QED BY <1>1, <1>2, <1>3, <1>4, <1>5, <1>6, <1>7

\* An opener goes on with the camera it made.
LEMMA OpenersPointStep ==
    ASSUME SourcesTypeOK, Pointed, [SourcesNext]_sourceVars
    PROVE  OpenersPoint'
  <1> USE SourcesAssumption
      DEF SourceFault, Called, CameraCloses, CameraReads, CameraRaises, OpenerKeeps, OpenerTo,
          PreviewIsOpen, OpenerCloses, Reports, Reported, Report, PumpKeeps, ImuKeeps, ImuTo,
          CallKeeps, StopperKeeps, StopperTo, Returned, lockVars, deviceVars, historyVars
  <1>1. ASSUME NEW p \in Openers, PreviewBegins(p) PROVE OpenersPoint'
    BY <1>1 DEF PreviewBegins, SourcesTypeOK, TypeShared, TypeThreads, OpenerStates,
        OpenersPoint, Pointed, Holding
  <1>2. ASSUME NEW p \in Openers, CameraOpens(p) PROVE OpenersPoint'
    BY <1>2 DEF CameraOpens, SourcesTypeOK, TypeShared, TypeThreads, OpenerStates,
        OpenersPoint, Pointed, Holding
  <1>3. ASSUME NEW p \in Openers, CameraRegisters(p) PROVE OpenersPoint'
    BY <1>3 DEF CameraRegisters, SourcesTypeOK, TypeShared, TypeThreads, OpenerStates,
        OpenersPoint, Pointed, Holding
  <1>4. ASSUME NEW p \in Openers, WarmUp(p) PROVE OpenersPoint'
    BY <1>4 DEF WarmUp, SourcesTypeOK, TypeShared, TypeThreads, OpenerStates,
        OpenersPoint, Pointed, Holding
  <1>5. ASSUME NEW p \in Openers, CameraAttaches(p) PROVE OpenersPoint'
    BY <1>5 DEF CameraAttaches, SourcesTypeOK, TypeShared, TypeThreads, OpenerStates,
        OpenersPoint, Pointed, Holding
  <1>6. ASSUME NEW p \in Openers, PumpLaunches(p) PROVE OpenersPoint'
    BY <1>6 DEF PumpLaunches, SourcesTypeOK, TypeShared, TypeThreads, OpenerStates,
        OpenersPoint, Pointed, Holding
  <1>7. ASSUME NEW p \in Openers, OpenerRaises(p) PROVE OpenersPoint'
    BY <1>7 DEF OpenerRaises, SourcesTypeOK, TypeShared, TypeThreads, OpenerStates,
        OpenersPoint, Pointed, Holding
  <1>8. CASE TapAttaches
    BY <1>8 DEF TapAttaches, SourcesTypeOK, TypeShared, TypeThreads, OpenerStates,
        OpenersPoint, Pointed, Holding
  <1>9. CASE ImuLaunches
    BY <1>9 DEF ImuLaunches, SourcesTypeOK, TypeShared, TypeThreads, OpenerStates,
        OpenersPoint, Pointed, Holding
  <1>10. CASE ImuFactoryRaises
    BY <1>10 DEF ImuFactoryRaises, SourcesTypeOK, TypeShared, TypeThreads, OpenerStates,
        OpenersPoint, Pointed, Holding
  <1>11. CASE UNCHANGED <<opener, cameras>>
    BY <1>11 DEF Pointed, OpenersPoint
  <1>12. \/ UNCHANGED <<opener, cameras>>
         \/ \E p \in Openers :
                 \/ PreviewBegins(p) \/ CameraOpens(p) \/ CameraRegisters(p) \/ WarmUp(p)
                 \/ CameraAttaches(p) \/ PumpLaunches(p) \/ OpenerRaises(p)
         \/ TapAttaches
         \/ ImuLaunches
         \/ ImuFactoryRaises
    BY ZenonT(40) DEF SourcesNext, sourceVars, PumpReads, PumpSnapshots, PumpBegins, PumpSubmits,
        PumpReports, PumpFinishes, PumpFails, PumpReleases, ImuReads, ImuChecks, ImuSubmits,
        ImuFails, ImuReleases, FailureTold, StopCalled, CloseCalled, StopTakes, StopWaits,
        StopShutsImu, StopJoins, CloseShutsCamera, CloseJoins
  <1> QED BY <1>1, <1>2, <1>3, <1>4, <1>5, <1>6, <1>7, <1>8, <1>9, <1>10, <1>11, <1>12

\* A camera thread belongs to a camera that was made, and hands its frames to such a tap.
LEMMA PumpsPointStep ==
    ASSUME SourcesTypeOK, Pointed, [SourcesNext]_sourceVars
    PROVE  PumpsPoint'
  <1> USE SourcesAssumption
      DEF SourceFault, Called, CameraCloses, CameraReads, CameraRaises, OpenerKeeps, OpenerTo,
          PreviewIsOpen, OpenerCloses, Reports, Reported, Report, PumpKeeps, ImuKeeps, ImuTo,
          CallKeeps, StopperKeeps, StopperTo, Returned, lockVars, deviceVars, historyVars
  <1>1. ASSUME NEW p \in Openers, CameraOpens(p) PROVE PumpsPoint'
    <2>1. UNCHANGED <<pump, taps>> /\ cameras <= cameras' /\ cameras \in Nat /\ cameras' \in Nat
      BY <1>1 DEF CameraOpens, SourcesTypeOK, TypeShared
    <2> QED BY <2>1 DEF Pointed, PumpsPoint, Cameras
  <1>2. ASSUME NEW p \in Openers, PumpLaunches(p) PROVE PumpsPoint'
    <2>1. PumpLaunchesDoes(p)
      BY <1>2, PumpLaunchesEffect
    <2> DEFINE c == opener[p].camera
    <2>2. c \in Cameras /\ c <= cameras /\ UNCHANGED <<cameras, taps>>
      BY <2>1 DEF PumpLaunchesDoes, OpenerAlone, Pointed, OpenersPoint, Holding,
          SourcesTypeOK, TypeShared
    <2>3. pump'[c].at = "loop" /\ \A d \in Cameras \ {c} : pump'[d] = pump[d]
      BY <2>1 DEF PumpLaunchesDoes, PumpMoved
    <2> QED BY <2>2, <2>3 DEF Pointed, PumpsPoint, Submitting
  <1>3. CASE TapAttaches
    <2>1. UNCHANGED <<pump, cameras>> /\ taps <= taps' /\ taps \in Nat /\ taps' \in Nat
      BY <1>3 DEF TapAttaches, SourcesTypeOK, TypeShared
    <2> QED BY <2>1 DEF Pointed, PumpsPoint
  <1>4. ASSUME NEW c \in Cameras, PumpReads(c) PROVE PumpsPoint'
    <2>1. PumpReadsDoes(c)
      BY <1>4, PumpReadsEffect
    <2>2. c <= cameras /\ UNCHANGED <<cameras, taps>>
      BY <2>1 DEF PumpReadsDoes, PumpKeepsAll, Pointed, PumpsPoint
    <2>3. pump'[c].at \in Submitting \cup {"begin"} => pump'[c].tap \in 1..taps
      BY <2>1 DEF PumpReadsDoes, PumpGoes, PumpMoved, PumpTakes, Observes, PumpHolds,
          Submitting, Taps, SourcesTypeOK, TypeShared, Pointed
    <2>4. \A d \in Cameras \ {c} : pump'[d] = pump[d]
      BY <2>1 DEF PumpReadsDoes, PumpGoes, PumpMoved, PumpTakes, Observes
    <2> QED BY <2>2, <2>3, <2>4 DEF Pointed, PumpsPoint
  <1>5. ASSUME NEW c \in Cameras, PumpSnapshots(c) PROVE PumpsPoint'
    <2>1. PumpSnapshotsDoes(c)
      BY <1>5, PumpSnapshotsEffect
    <2>2. c <= cameras /\ UNCHANGED <<cameras, taps>>
      BY <2>1 DEF PumpSnapshotsDoes, PumpKeepsAll, Pointed, PumpsPoint
    <2>3. pump'[c].at \in Submitting \cup {"begin"} => pump'[c].tap \in 1..taps
      BY <2>1 DEF PumpSnapshotsDoes, PumpGoes, PumpMoved, PumpTakes, Observes, PumpHolds,
          Submitting, Taps, SourcesTypeOK, TypeShared, Pointed
    <2>4. \A d \in Cameras \ {c} : pump'[d] = pump[d]
      BY <2>1 DEF PumpSnapshotsDoes, PumpGoes, PumpMoved, PumpTakes, Observes
    <2> QED BY <2>2, <2>3, <2>4 DEF Pointed, PumpsPoint
  <1>6. ASSUME NEW c \in Cameras, PumpBegins(c) PROVE PumpsPoint'
    <2>1. PumpBeginsDoes(c)
      BY <1>6, PumpBeginsEffect
    <2>2. c <= cameras /\ UNCHANGED <<cameras, taps>>
      BY <2>1 DEF PumpBeginsDoes, PumpKeepsAll, Pointed, PumpsPoint
    <2>3. pump'[c].at \in Submitting \cup {"begin"} => pump'[c].tap \in 1..taps
      BY <2>1, SMTT(40) DEF PumpBeginsDoes, PumpGoes, PumpMoved, PumpTakes, Observes, PumpHolds,
          Submitting, Taps, SourcesTypeOK, TypeShared, Pointed
    <2>4. \A d \in Cameras \ {c} : pump'[d] = pump[d]
      BY <2>1 DEF PumpBeginsDoes, PumpGoes, PumpMoved, PumpTakes, Observes
    <2> QED BY <2>2, <2>3, <2>4 DEF Pointed, PumpsPoint
  <1>7. ASSUME NEW c \in Cameras, PumpSubmits(c) PROVE PumpsPoint'
    <2>1. PumpSubmitsDoes(c)
      BY <1>7, PumpSubmitsEffect
    <2>2. c <= cameras /\ UNCHANGED <<cameras, taps>>
      BY <2>1 DEF PumpSubmitsDoes, PumpKeepsAll, Pointed, PumpsPoint
    <2>3. pump'[c].at \in Submitting \cup {"begin"} => pump'[c].tap \in 1..taps
      BY <2>1 DEF PumpSubmitsDoes, PumpGoes, PumpMoved, PumpTakes, Observes, PumpHolds,
          Submitting, Taps, SourcesTypeOK, TypeShared, Pointed
    <2>4. \A d \in Cameras \ {c} : pump'[d] = pump[d]
      BY <2>1 DEF PumpSubmitsDoes, PumpGoes, PumpMoved, PumpTakes, Observes
    <2> QED BY <2>2, <2>3, <2>4 DEF Pointed, PumpsPoint
  <1>8. ASSUME NEW c \in Cameras, PumpReports(c) PROVE PumpsPoint'
    <2>1. PumpReportsDoes(c)
      BY <1>8, PumpReportsEffect
    <2>2. c <= cameras /\ UNCHANGED <<cameras, taps>>
      BY <2>1 DEF PumpReportsDoes, PumpKeepsAll, Pointed, PumpsPoint
    <2>3. pump'[c].at \in Submitting \cup {"begin"} => pump'[c].tap \in 1..taps
      BY <2>1, SMTT(40) DEF PumpReportsDoes, PumpGoes, PumpMoved, PumpTakes, Observes, PumpHolds,
          Submitting, Taps, SourcesTypeOK, TypeShared, Pointed
    <2>4. \A d \in Cameras \ {c} : pump'[d] = pump[d]
      BY <2>1 DEF PumpReportsDoes, PumpGoes, PumpMoved, PumpTakes, Observes
    <2> QED BY <2>2, <2>3, <2>4 DEF Pointed, PumpsPoint
  <1>9. ASSUME NEW c \in Cameras, PumpFinishes(c) PROVE PumpsPoint'
    <2>1. PumpFinishesDoes(c)
      BY <1>9, PumpFinishesEffect
    <2>2. c <= cameras /\ UNCHANGED <<cameras, taps>>
      BY <2>1 DEF PumpFinishesDoes, PumpKeepsAll, Pointed, PumpsPoint
    <2>3. pump'[c].at \in Submitting \cup {"begin"} => pump'[c].tap \in 1..taps
      BY <2>1 DEF PumpFinishesDoes, PumpGoes, PumpMoved, PumpTakes, Observes, PumpHolds,
          Submitting, Taps, SourcesTypeOK, TypeShared, Pointed
    <2>4. \A d \in Cameras \ {c} : pump'[d] = pump[d]
      BY <2>1 DEF PumpFinishesDoes, PumpGoes, PumpMoved, PumpTakes, Observes
    <2> QED BY <2>2, <2>3, <2>4 DEF Pointed, PumpsPoint
  <1>10. ASSUME NEW c \in Cameras, PumpFails(c) PROVE PumpsPoint'
    <2>1. PumpFailsDoes(c)
      BY <1>10, PumpFailsEffect
    <2>2. c <= cameras /\ UNCHANGED <<cameras, taps>>
      BY <2>1 DEF PumpFailsDoes, PumpKeepsAll, Pointed, PumpsPoint
    <2>3. pump'[c].at \in Submitting \cup {"begin"} => pump'[c].tap \in 1..taps
      BY <2>1 DEF PumpFailsDoes, PumpGoes, PumpMoved, PumpTakes, Observes, PumpHolds,
          Submitting, Taps, SourcesTypeOK, TypeShared, Pointed
    <2>4. \A d \in Cameras \ {c} : pump'[d] = pump[d]
      BY <2>1 DEF PumpFailsDoes, PumpGoes, PumpMoved, PumpTakes, Observes
    <2> QED BY <2>2, <2>3, <2>4 DEF Pointed, PumpsPoint
  <1>11. ASSUME NEW c \in Cameras, PumpReleases(c) PROVE PumpsPoint'
    <2>1. PumpReleasesDoes(c)
      BY <1>11, PumpReleasesEffect
    <2>2. c <= cameras /\ UNCHANGED <<cameras, taps>>
      BY <2>1 DEF PumpReleasesDoes, PumpKeepsAll, Pointed, PumpsPoint
    <2>3. pump'[c].at \in Submitting \cup {"begin"} => pump'[c].tap \in 1..taps
      BY <2>1 DEF PumpReleasesDoes, PumpGoes, PumpMoved, PumpTakes, Observes, PumpHolds,
          Submitting, Taps, SourcesTypeOK, TypeShared, Pointed
    <2>4. \A d \in Cameras \ {c} : pump'[d] = pump[d]
      BY <2>1 DEF PumpReleasesDoes, PumpGoes, PumpMoved, PumpTakes, Observes
    <2> QED BY <2>2, <2>3, <2>4 DEF Pointed, PumpsPoint
  <1>12. CASE UNCHANGED <<pump, cameras, taps>>
    BY <1>12 DEF Pointed, PumpsPoint
  <1>13. \/ UNCHANGED <<pump, cameras, taps>>
         \/ \E p \in Openers : CameraOpens(p) \/ PumpLaunches(p)
         \/ TapAttaches
         \/ \E c \in Cameras :
                 \/ PumpReads(c) \/ PumpSnapshots(c) \/ PumpBegins(c) \/ PumpSubmits(c)
                 \/ PumpReports(c) \/ PumpFinishes(c) \/ PumpFails(c) \/ PumpReleases(c)
    BY ZenonT(40) DEF SourcesNext, sourceVars, PreviewBegins, CameraRegisters, WarmUp,
        CameraAttaches, OpenerRaises, ImuLaunches, ImuFactoryRaises, ImuReads, ImuChecks,
        ImuSubmits, ImuFails, ImuReleases, FailureTold, StopCalled, CloseCalled, StopTakes,
        StopWaits, StopShutsImu, StopJoins, CloseShutsCamera, CloseJoins
  <1> QED BY <1>1, <1>2, <1>3, <1>4, <1>5, <1>6, <1>7, <1>8, <1>9, <1>10, <1>11, <1>12, <1>13

\* Whoever stops a tap names one that was made.
StoppersNamed ==
    \A s \in Stoppers : stopper'[s].at \in {"wait", "imu", "join"} => stopper'[s].tap \in 1..taps

\* A stop() takes a tap that was made.
LEMMA StoppersPointStep ==
    ASSUME SourcesTypeOK, Pointed, [SourcesNext]_sourceVars
    PROVE  StoppersPoint'
  <1> USE SourcesAssumption
      DEF SourceFault, Called, CameraCloses, CameraReads, CameraRaises, OpenerKeeps, OpenerTo,
          PreviewIsOpen, OpenerCloses, Reports, Reported, Report, PumpKeeps, ImuKeeps, ImuTo,
          CallKeeps, StopperKeeps, StopperTo, Returned, lockVars, deviceVars, historyVars
  <1>1. ASSUME NEW p \in Openers, WarmUp(p) PROVE StoppersPoint'
    <2>1. OpenerClosesDoes(p)
      BY <1>1, OpenerClosesEffect
    <2>2. StoppersNamed
      BY <2>1, Reporters, Callers DEF StoppersNamed, OpenerClosesDoes, OtherStoppers,
          StoppersTyped, Pointed, StoppersPoint, SourcesTypeOK, TypeShared
    <2>3. taps' = taps
      BY <2>1 DEF OpenerClosesDoes, OpenerKeepsAll
    <2> QED BY <2>2, <2>3 DEF StoppersPoint, StoppersNamed
  <1>2. ASSUME NEW p \in Openers, CameraAttaches(p) PROVE StoppersPoint'
    <2>1. OpenerClosesDoes(p)
      BY <1>2, OpenerClosesEffect
    <2>2. StoppersNamed
      BY <2>1, Reporters, Callers DEF StoppersNamed, OpenerClosesDoes, OtherStoppers,
          StoppersTyped, Pointed, StoppersPoint, SourcesTypeOK, TypeShared
    <2>3. taps' = taps
      BY <2>1 DEF OpenerClosesDoes, OpenerKeepsAll
    <2> QED BY <2>2, <2>3 DEF StoppersPoint, StoppersNamed
  <1>3. CASE TapAttaches
    <2>1. UNCHANGED stopper /\ taps <= taps' /\ taps \in Nat /\ taps' \in Nat
      BY <1>3 DEF TapAttaches, SourcesTypeOK, TypeShared
    <2> QED BY <2>1 DEF Pointed, StoppersPoint
  <1>4. ASSUME NEW c \in Cameras, PumpReports(c) PROVE StoppersPoint'
    <2>1. PumpReportsDoes(c)
      BY <1>4, PumpReportsEffect
    <2>2. StoppersNamed
      BY <2>1, Reporters, Callers DEF StoppersNamed, PumpReportsDoes, Reporting,
          NotReporting, StopperGoes, OtherStoppers, StoppersTyped, Pointed, StoppersPoint,
          SourcesTypeOK, TypeShared
    <2>3. taps' = taps
      BY <2>1 DEF PumpReportsDoes, PumpKeepsAll
    <2> QED BY <2>2, <2>3 DEF StoppersPoint, StoppersNamed
  <1>5. ASSUME NEW c \in Cameras, PumpFails(c) PROVE StoppersPoint'
    <2>1. PumpFailsDoes(c)
      BY <1>5, PumpFailsEffect
    <2>2. StoppersNamed
      BY <2>1, Reporters, Callers DEF StoppersNamed, PumpFailsDoes, Reporting,
          NotReporting, StopperGoes, OtherStoppers, StoppersTyped, Pointed, StoppersPoint,
          SourcesTypeOK, TypeShared
    <2>3. taps' = taps
      BY <2>1 DEF PumpFailsDoes, PumpKeepsAll
    <2> QED BY <2>2, <2>3 DEF StoppersPoint, StoppersNamed
  <1>6. ASSUME NEW t \in Taps, ImuFails(t) PROVE StoppersPoint'
    <2>1. ImuFailsDoes(t)
      BY <1>6, ImuFailsEffect
    <2>2. StoppersNamed
      BY <2>1, Reporters, Callers DEF StoppersNamed, ImuFailsDoes, Reporting, StopperGoes,
          OtherStoppers, StoppersTyped, Pointed, StoppersPoint, SourcesTypeOK, TypeShared
    <2>3. taps' = taps
      BY <2>1 DEF ImuFailsDoes, ImuKeepsAll
    <2> QED BY <2>2, <2>3 DEF StoppersPoint, StoppersNamed
  <1>7. ASSUME NEW t \in Taps, FailureTold(t) PROVE StoppersPoint'
    <2>1. FailureToldDoes(t)
      BY <1>7, FailureToldEffect
    <2>2. StoppersNamed
      BY <2>1, Reporters, Callers DEF StoppersNamed, FailureToldDoes, StopperGoes,
          OtherStoppers, StoppersTyped, Pointed, StoppersPoint, SourcesTypeOK, TypeShared
    <2>3. taps' = taps
      BY <2>1 DEF FailureToldDoes, StopKeepsAll
    <2> QED BY <2>2, <2>3 DEF StoppersPoint, StoppersNamed
  <1>8. CASE StopCalled
    <2>1. StopCalledDoes
      BY <1>8, StopCalledEffect
    <2>2. StoppersNamed
      BY <2>1, Reporters, Callers DEF StoppersNamed, StopCalledDoes, StopperGoes,
          OtherStoppers, StoppersTyped, Pointed, StoppersPoint, SourcesTypeOK, TypeShared
    <2>3. taps' = taps
      BY <2>1 DEF StopCalledDoes, StopKeepsAll
    <2> QED BY <2>2, <2>3 DEF StoppersPoint, StoppersNamed
  <1>9. CASE CloseCalled
    <2>1. CloseCalledDoes
      BY <1>9, CloseCalledEffect
    <2>2. StoppersNamed
      BY <2>1, Reporters, Callers DEF StoppersNamed, CloseCalledDoes, OtherStoppers,
          StoppersTyped, Pointed, StoppersPoint, SourcesTypeOK, TypeShared
    <2>3. taps' = taps
      BY <2>1 DEF CloseCalledDoes, StopKeepsAll
    <2> QED BY <2>2, <2>3 DEF StoppersPoint, StoppersNamed
  <1>10. ASSUME NEW s \in Stoppers, StopTakes(s) PROVE StoppersPoint'
    <2>1. StopTakesDoes(s)
      BY <1>10, StopTakesEffect
    <2>2. \A u \in Stoppers \ {s} : stopper'[u] = stopper[u]
      BY <2>1 DEF StopTakesDoes, StopperReturns, OtherStoppers
    <2>3. stopper'[s].at \in {"wait", "imu", "join"} => stopper'[s].tap \in 1..taps
      BY <2>1 DEF StopTakesDoes, StopperReturns, Taps, SourcesTypeOK, TypeShared
    <2>4. taps' = taps
      BY <2>1 DEF StopTakesDoes, StopKeepsAll
    <2> QED BY <2>2, <2>3, <2>4 DEF Pointed, StoppersPoint
  <1>11. ASSUME NEW s \in Stoppers, StopWaits(s) PROVE StoppersPoint'
    <2>1. StopWaitsDoes(s)
      BY <1>11, StopWaitsEffect
    <2>2. StoppersNamed
      BY <2>1, Reporters, Callers DEF StoppersNamed, StopWaitsDoes, OtherStoppers,
          StoppersTyped, Pointed, StoppersPoint, SourcesTypeOK, TypeShared
    <2>3. taps' = taps
      BY <2>1 DEF StopWaitsDoes, StopKeepsAll
    <2> QED BY <2>2, <2>3 DEF StoppersPoint, StoppersNamed
  <1>12. ASSUME NEW s \in Stoppers, StopShutsImu(s) PROVE StoppersPoint'
    <2>1. StopShutsImuDoes(s)
      BY <1>12, StopShutsImuEffect
    <2>2. StoppersNamed
      BY <2>1, Reporters, Callers DEF StoppersNamed, StopShutsImuDoes, StopperGoes,
          OtherStoppers, StoppersTyped, Pointed, StoppersPoint, SourcesTypeOK, TypeShared
    <2>3. taps' = taps
      BY <2>1 DEF StopShutsImuDoes, StopKeepsAll
    <2> QED BY <2>2, <2>3 DEF StoppersPoint, StoppersNamed
  <1>13. ASSUME NEW s \in Stoppers, StopJoins(s) PROVE StoppersPoint'
    <2>1. StopJoinsDoes(s)
      BY <1>13, StopJoinsEffect
    <2>2. StoppersNamed
      BY <2>1, Reporters, Callers DEF StoppersNamed, StopJoinsDoes, StopperReturns,
          OtherStoppers, StoppersTyped, Pointed, StoppersPoint, SourcesTypeOK, TypeShared
    <2>3. taps' = taps
      BY <2>1 DEF StopJoinsDoes, StopKeepsAll
    <2> QED BY <2>2, <2>3 DEF StoppersPoint, StoppersNamed
  <1>14. ASSUME NEW s \in Stoppers, CloseShutsCamera(s) PROVE StoppersPoint'
    <2>1. CloseShutsCameraDoes(s)
      BY <1>14, CloseShutsCameraEffect
    <2>2. StoppersNamed
      BY <2>1, Reporters, Callers DEF StoppersNamed, CloseShutsCameraDoes, OtherStoppers,
          StoppersTyped, Pointed, StoppersPoint, SourcesTypeOK, TypeShared
    <2>3. taps' = taps
      BY <2>1 DEF CloseShutsCameraDoes, StopKeepsAll
    <2> QED BY <2>2, <2>3 DEF StoppersPoint, StoppersNamed
  <1>15. ASSUME NEW s \in Stoppers, CloseJoins(s) PROVE StoppersPoint'
    <2>1. CloseJoinsDoes(s)
      BY <1>15, CloseJoinsEffect
    <2>2. StoppersNamed
      BY <2>1, Reporters, Callers DEF StoppersNamed, CloseJoinsDoes, StopperReturns,
          OtherStoppers, StoppersTyped, Pointed, StoppersPoint, SourcesTypeOK, TypeShared
    <2>3. taps' = taps
      BY <2>1 DEF CloseJoinsDoes, StopKeepsAll
    <2> QED BY <2>2, <2>3 DEF StoppersPoint, StoppersNamed
  <1>16. CASE UNCHANGED <<stopper, taps>>
    BY <1>16 DEF Pointed, StoppersPoint
  <1>17. \/ UNCHANGED <<stopper, taps>>
         \/ \E p \in Openers : WarmUp(p) \/ CameraAttaches(p)
         \/ TapAttaches
         \/ StopCalled
         \/ CloseCalled
         \/ \E c \in Cameras : PumpReports(c) \/ PumpFails(c)
         \/ \E t \in Taps : ImuFails(t) \/ FailureTold(t)
         \/ \E s \in Stoppers :
                 \/ StopTakes(s) \/ StopWaits(s) \/ StopShutsImu(s) \/ StopJoins(s)
                 \/ CloseShutsCamera(s) \/ CloseJoins(s)
    BY ZenonT(40) DEF SourcesNext, sourceVars, PreviewBegins, CameraOpens, CameraRegisters,
        PumpLaunches, OpenerRaises, ImuLaunches, ImuFactoryRaises, PumpReads, PumpSnapshots,
        PumpBegins, PumpSubmits, PumpFinishes, PumpReleases, ImuReads, ImuChecks, ImuSubmits,
        ImuReleases
  <1> QED BY <1>1, <1>2, <1>3, <1>4, <1>5, <1>6, <1>7, <1>8, <1>9, <1>10, <1>11, <1>12, <1>13,
      <1>14, <1>15, <1>16, <1>17

\* A camera has no thread until its opener is done with it.
LEMMA FreshCamerasStep ==
    ASSUME SourcesTypeOK, Pointed, FreshCameras, [SourcesNext]_sourceVars
    PROVE  FreshCameras'
  <1> USE SourcesAssumption
      DEF SourceFault, Called, CameraCloses, CameraReads, CameraRaises, OpenerKeeps, OpenerTo,
          PreviewIsOpen, OpenerCloses, Reports, Reported, Report, PumpKeeps, ImuKeeps, ImuTo,
          CallKeeps, StopperKeeps, StopperTo, Returned, lockVars, deviceVars, historyVars
  <1>1. ASSUME NEW p \in Openers, PreviewBegins(p) PROVE FreshCameras'
    <2>1. UNCHANGED pump
      BY <1>1 DEF PreviewBegins
    <2>2. \A q \in Openers : opener'[q].at \in Holding =>
             opener[q].at \in Holding /\ opener'[q].camera = opener[q].camera
      BY <1>1 DEF PreviewBegins, Holding, OpenerStates, SourcesTypeOK, TypeThreads
    <2> QED BY <2>1, <2>2 DEF FreshCameras
  <1>2. ASSUME NEW p \in Openers, CameraOpens(p) PROVE FreshCameras'
    <2>1. UNCHANGED pump
      BY <1>2 DEF CameraOpens
    <2>2. CASE opener'[p].at \notin Holding
      <3>1. \A q \in Openers : opener'[q].at \in Holding =>
               opener[q].at \in Holding /\ opener'[q].camera = opener[q].camera
        BY <1>2, <2>2 DEF CameraOpens, SourcesTypeOK, TypeThreads
      <3> QED BY <2>1, <3>1 DEF FreshCameras
    <2>3. CASE opener'[p].at \in Holding
      <3>1. /\ opener' = [opener EXCEPT ![p] = [at |-> "register", camera |-> cameras + 1]]
            /\ cameras < MaxCameras
        BY <1>2, <2>3 DEF CameraOpens, Holding, SourcesTypeOK, TypeThreads
      <3>2. opener'[p].camera = cameras + 1 /\ \A q \in Openers \ {p} : opener'[q] = opener[q]
        BY <3>1 DEF SourcesTypeOK, TypeThreads
      <3>3. cameras \in Nat /\ cameras + 1 \in Cameras
        BY <3>1 DEF SourcesTypeOK, TypeShared, Cameras
      <3>4. pump[cameras + 1].at = "none"
        BY <3>3 DEF Pointed, PumpsPoint
      <3>5. \A q \in Openers \ {p} : opener[q].at \in Holding => opener[q].camera <= cameras
        BY <3>3 DEF Pointed, OpenersPoint
      <3> QED BY <2>1, <3>2, <3>3, <3>4, <3>5 DEF FreshCameras
    <2> QED BY <2>2, <2>3
  <1>3. ASSUME NEW p \in Openers, CameraRegisters(p) PROVE FreshCameras'
    <2>1. UNCHANGED pump
      BY <1>3 DEF CameraRegisters
    <2>2. \A q \in Openers : opener'[q].at \in Holding =>
             opener[q].at \in Holding /\ opener'[q].camera = opener[q].camera
      BY <1>3 DEF CameraRegisters, Holding, OpenerStates, SourcesTypeOK, TypeThreads
    <2> QED BY <2>1, <2>2 DEF FreshCameras
  <1>4. ASSUME NEW p \in Openers, WarmUp(p) PROVE FreshCameras'
    <2>1. UNCHANGED pump
      BY <1>4 DEF WarmUp
    <2>2. \A q \in Openers : opener'[q].at \in Holding =>
             opener[q].at \in Holding /\ opener'[q].camera = opener[q].camera
      BY <1>4 DEF WarmUp, Holding, OpenerStates, SourcesTypeOK, TypeThreads
    <2> QED BY <2>1, <2>2 DEF FreshCameras
  <1>5. ASSUME NEW p \in Openers, CameraAttaches(p) PROVE FreshCameras'
    <2>1. UNCHANGED pump
      BY <1>5 DEF CameraAttaches
    <2>2. \A q \in Openers : opener'[q].at \in Holding =>
             opener[q].at \in Holding /\ opener'[q].camera = opener[q].camera
      BY <1>5 DEF CameraAttaches, Holding, OpenerStates, SourcesTypeOK, TypeThreads
    <2> QED BY <2>1, <2>2 DEF FreshCameras
  <1>6. ASSUME NEW p \in Openers, PumpLaunches(p) PROVE FreshCameras'
    <2>1. PumpLaunchesDoes(p)
      BY <1>6, PumpLaunchesEffect
    <2>2. /\ opener'[p].at \notin Holding /\ \A q \in Openers \ {p} : opener'[q] = opener[q]
          /\ opener[p].at \in Holding
      BY <2>1 DEF PumpLaunchesDoes, Holding
    <2>3. \A d \in Cameras \ {opener[p].camera} : pump'[d] = pump[d]
      BY <2>1 DEF PumpLaunchesDoes, PumpMoved
    <2> QED BY <2>2, <2>3, HeldCameras DEF FreshCameras
  <1>7. ASSUME NEW p \in Openers, OpenerRaises(p) PROVE FreshCameras'
    <2>1. UNCHANGED pump
      BY <1>7 DEF OpenerRaises
    <2>2. \A q \in Openers : opener'[q].at \in Holding =>
             opener[q].at \in Holding /\ opener'[q].camera = opener[q].camera
      BY <1>7 DEF OpenerRaises, Holding, OpenerStates, SourcesTypeOK, TypeThreads
    <2> QED BY <2>1, <2>2 DEF FreshCameras
  <1>8. CASE TapAttaches
    <2>1. UNCHANGED pump
      BY <1>8 DEF TapAttaches
    <2>2. \A q \in Openers : opener'[q].at \in Holding =>
             opener[q].at \in Holding /\ opener'[q].camera = opener[q].camera
      BY <1>8 DEF TapAttaches, Holding, OpenerStates, SourcesTypeOK, TypeThreads, Openers
    <2> QED BY <2>1, <2>2 DEF FreshCameras
  <1>9. CASE ImuLaunches
    <2>1. UNCHANGED pump
      BY <1>9 DEF ImuLaunches
    <2>2. \A q \in Openers : opener'[q].at \in Holding =>
             opener[q].at \in Holding /\ opener'[q].camera = opener[q].camera
      BY <1>9 DEF ImuLaunches, Holding, OpenerStates, SourcesTypeOK, TypeThreads, Openers
    <2> QED BY <2>1, <2>2 DEF FreshCameras
  <1>10. CASE ImuFactoryRaises
    <2>1. UNCHANGED pump
      BY <1>10 DEF ImuFactoryRaises
    <2>2. \A q \in Openers : opener'[q].at \in Holding =>
             opener[q].at \in Holding /\ opener'[q].camera = opener[q].camera
      BY <1>10 DEF ImuFactoryRaises, Holding, OpenerStates, SourcesTypeOK, TypeThreads,
          Openers
    <2> QED BY <2>1, <2>2 DEF FreshCameras
  <1>11. ASSUME NEW c \in Cameras, PumpReads(c) PROVE FreshCameras'
    <2>1. PumpReadsDoes(c)
      BY <1>11, PumpReadsEffect
    <2>2. UNCHANGED opener
      BY <2>1 DEF PumpReadsDoes, PumpKeepsAll
    <2>3. \A d \in Cameras : pump[d].at = "none" => pump'[d].at = "none"
      BY <2>1 DEF PumpReadsDoes, PumpGoes, PumpMoved, PumpTakes, Observes
    <2> QED BY <2>2, <2>3, HeldCameras DEF FreshCameras
  <1>12. ASSUME NEW c \in Cameras, PumpSnapshots(c) PROVE FreshCameras'
    <2>1. PumpSnapshotsDoes(c)
      BY <1>12, PumpSnapshotsEffect
    <2>2. UNCHANGED opener
      BY <2>1 DEF PumpSnapshotsDoes, PumpKeepsAll
    <2>3. \A d \in Cameras : pump[d].at = "none" => pump'[d].at = "none"
      BY <2>1 DEF PumpSnapshotsDoes, PumpGoes, PumpMoved, PumpTakes, Observes
    <2> QED BY <2>2, <2>3, HeldCameras DEF FreshCameras
  <1>13. ASSUME NEW c \in Cameras, PumpBegins(c) PROVE FreshCameras'
    <2>1. PumpBeginsDoes(c)
      BY <1>13, PumpBeginsEffect
    <2>2. UNCHANGED opener
      BY <2>1 DEF PumpBeginsDoes, PumpKeepsAll
    <2>3. \A d \in Cameras : pump[d].at = "none" => pump'[d].at = "none"
      BY <2>1 DEF PumpBeginsDoes, PumpGoes, PumpMoved, PumpTakes, Observes
    <2> QED BY <2>2, <2>3, HeldCameras DEF FreshCameras
  <1>14. ASSUME NEW c \in Cameras, PumpSubmits(c) PROVE FreshCameras'
    <2>1. PumpSubmitsDoes(c)
      BY <1>14, PumpSubmitsEffect
    <2>2. UNCHANGED opener
      BY <2>1 DEF PumpSubmitsDoes, PumpKeepsAll
    <2>3. \A d \in Cameras : pump[d].at = "none" => pump'[d].at = "none"
      BY <2>1 DEF PumpSubmitsDoes, PumpGoes, PumpMoved, PumpTakes, Observes
    <2> QED BY <2>2, <2>3, HeldCameras DEF FreshCameras
  <1>15. ASSUME NEW c \in Cameras, PumpReports(c) PROVE FreshCameras'
    <2>1. PumpReportsDoes(c)
      BY <1>15, PumpReportsEffect
    <2>2. UNCHANGED opener
      BY <2>1 DEF PumpReportsDoes, PumpKeepsAll
    <2>3. \A d \in Cameras : pump[d].at = "none" => pump'[d].at = "none"
      BY <2>1 DEF PumpReportsDoes, PumpGoes, PumpMoved, PumpTakes, Observes
    <2> QED BY <2>2, <2>3, HeldCameras DEF FreshCameras
  <1>16. ASSUME NEW c \in Cameras, PumpFinishes(c) PROVE FreshCameras'
    <2>1. PumpFinishesDoes(c)
      BY <1>16, PumpFinishesEffect
    <2>2. UNCHANGED opener
      BY <2>1 DEF PumpFinishesDoes, PumpKeepsAll
    <2>3. \A d \in Cameras : pump[d].at = "none" => pump'[d].at = "none"
      BY <2>1 DEF PumpFinishesDoes, PumpGoes, PumpMoved, PumpTakes, Observes
    <2> QED BY <2>2, <2>3, HeldCameras DEF FreshCameras
  <1>17. ASSUME NEW c \in Cameras, PumpFails(c) PROVE FreshCameras'
    <2>1. PumpFailsDoes(c)
      BY <1>17, PumpFailsEffect
    <2>2. UNCHANGED opener
      BY <2>1 DEF PumpFailsDoes, PumpKeepsAll
    <2>3. \A d \in Cameras : pump[d].at = "none" => pump'[d].at = "none"
      BY <2>1 DEF PumpFailsDoes, PumpGoes, PumpMoved, PumpTakes, Observes
    <2> QED BY <2>2, <2>3, HeldCameras DEF FreshCameras
  <1>18. ASSUME NEW c \in Cameras, PumpReleases(c) PROVE FreshCameras'
    <2>1. PumpReleasesDoes(c)
      BY <1>18, PumpReleasesEffect
    <2>2. UNCHANGED opener
      BY <2>1 DEF PumpReleasesDoes, PumpKeepsAll
    <2>3. \A d \in Cameras : pump[d].at = "none" => pump'[d].at = "none"
      BY <2>1 DEF PumpReleasesDoes, PumpGoes, PumpMoved, PumpTakes, Observes
    <2> QED BY <2>2, <2>3, HeldCameras DEF FreshCameras
  <1>19. CASE UNCHANGED <<pump, opener>>
    BY <1>19 DEF FreshCameras
  <1>20. \/ UNCHANGED <<pump, opener>>
         \/ \E p \in Openers :
                 \/ PreviewBegins(p) \/ CameraOpens(p) \/ CameraRegisters(p) \/ WarmUp(p)
                 \/ CameraAttaches(p) \/ PumpLaunches(p) \/ OpenerRaises(p)
         \/ TapAttaches
         \/ ImuLaunches
         \/ ImuFactoryRaises
         \/ \E c \in Cameras :
                 \/ PumpReads(c) \/ PumpSnapshots(c) \/ PumpBegins(c) \/ PumpSubmits(c)
                 \/ PumpReports(c) \/ PumpFinishes(c) \/ PumpFails(c) \/ PumpReleases(c)
    BY DEF SourcesNext, sourceVars, ImuReads, ImuChecks, ImuSubmits, ImuFails, ImuReleases,
        FailureTold, StopCalled, CloseCalled, StopTakes, StopWaits, StopShutsImu, StopJoins,
        CloseShutsCamera, CloseJoins
  <1> QED BY <1>1, <1>2, <1>3, <1>4, <1>5, <1>6, <1>7, <1>8, <1>9, <1>10, <1>11, <1>12, <1>13,
      <1>14, <1>15, <1>16, <1>17, <1>18, <1>19, <1>20

\* The taps keep their type.
LEMMA TapsStep ==
    ASSUME SourcesTypeOK, Pointed, Launched, [SourcesNext]_sourceVars
    PROVE  TapsTyped
  <1> USE SourcesAssumption
      DEF SourceFault, Called, CameraCloses, CameraReads, CameraRaises, OpenerKeeps, OpenerTo,
          PreviewIsOpen, OpenerCloses, Reports, Reported, Report, PumpKeeps, ImuKeeps, ImuTo,
          CallKeeps, StopperKeeps, StopperTo, Returned, lockVars, deviceVars, historyVars
  <1>1. CASE TapAttaches
    <2>1. TapAttachesDoes
      BY <1>1, TapAttachesEffect
    <2> QED BY <2>1 DEF TapAttachesDoes, TapOpened, OtherTaps, TapsTyped, FramesKept,
        GateKept, ImuKept, FlightKept, SourcesTypeOK, TypeThreads
  <1>2. CASE ImuLaunches
    <2>1. ImuLaunchesDoes
      BY <1>2, ImuLaunchesEffect
    <2> QED BY <2>1 DEF ImuLaunchesDoes, ImuKeepsAll, ThreadGoes, OtherTaps, TapsTyped,
        FramesKept, GateKept, ImuKept, FlightKept, SourcesTypeOK, TypeThreads
  <1>3. ASSUME NEW c \in Cameras, PumpBegins(c) PROVE TapsTyped
    <2>1. PumpBeginsDoes(c)
      BY <1>3, PumpBeginsEffect
    <2> QED BY <2>1 DEF PumpBeginsDoes, PumpKeepsAll, FrameObserved, Observes, OtherTaps,
        TapsTyped, FramesKept, GateKept, ImuKept, FlightKept, SourcesTypeOK, TypeThreads
  <1>4. ASSUME NEW c \in Cameras, PumpSubmits(c) PROVE TapsTyped
    <2>1. PumpSubmitsDoes(c)
      BY <1>4, PumpSubmitsEffect
    <2> QED BY <2>1 DEF PumpSubmitsDoes, PumpKeepsAll, FrameTaken, OtherTaps, TapsTyped,
        FramesKept, GateKept, ImuKept, FlightKept, SourcesTypeOK, TypeThreads
  <1>5. ASSUME NEW c \in Cameras, PumpReports(c) PROVE TapsTyped
    <2>1. PumpReportsDoes(c)
      BY <1>5, PumpReportsEffect
    <2> QED BY <2>1 DEF PumpReportsDoes, PumpKeepsAll, Reporting, NotReporting, OtherTaps,
        TapsTyped, FramesKept, GateKept, ImuKept, FlightKept, SourcesTypeOK, TypeThreads
  <1>6. ASSUME NEW c \in Cameras, PumpFinishes(c) PROVE TapsTyped
    <2>1. PumpFinishesDoes(c)
      BY <1>6, PumpFinishesEffect
    <2> QED BY <2>1 DEF PumpFinishesDoes, PumpKeepsAll, FrameFinished, OtherTaps,
        TapsTyped, FramesKept, GateKept, ImuKept, FlightKept, SourcesTypeOK, TypeThreads
  <1>7. ASSUME NEW c \in Cameras, PumpFails(c) PROVE TapsTyped
    <2>1. PumpFailsDoes(c)
      BY <1>7, PumpFailsEffect
    <2> QED BY <2>1 DEF PumpFailsDoes, PumpKeepsAll, Reporting, NotReporting, OtherTaps,
        TapsTyped, FramesKept, GateKept, ImuKept, FlightKept, SourcesTypeOK, TypeThreads
  <1>8. ASSUME NEW t \in Taps, ImuReads(t) PROVE TapsTyped
    <2>1. ImuThreadDoes(t)
      BY <1>8, ImuThreadEffect
    <2> QED BY <2>1 DEF ImuThreadDoes, ImuKeepsAll, ThreadGoes, OtherTaps, TapsTyped,
        FramesKept, GateKept, ImuKept, FlightKept, SourcesTypeOK, TypeThreads
  <1>9. ASSUME NEW t \in Taps, ImuChecks(t) PROVE TapsTyped
    <2>1. ImuThreadDoes(t)
      BY <1>9, ImuThreadEffect
    <2> QED BY <2>1 DEF ImuThreadDoes, ImuKeepsAll, ThreadGoes, OtherTaps, TapsTyped,
        FramesKept, GateKept, ImuKept, FlightKept, SourcesTypeOK, TypeThreads
  <1>10. ASSUME NEW t \in Taps, ImuSubmits(t) PROVE TapsTyped
    <2>1. ImuThreadDoes(t)
      BY <1>10, ImuThreadEffect
    <2> QED BY <2>1 DEF ImuThreadDoes, ImuKeepsAll, ThreadGoes, OtherTaps, TapsTyped,
        FramesKept, GateKept, ImuKept, FlightKept, SourcesTypeOK, TypeThreads
  <1>11. ASSUME NEW t \in Taps, ImuFails(t) PROVE TapsTyped
    <2>1. ImuFailsDoes(t)
      BY <1>11, ImuFailsEffect
    <2> QED BY <2>1 DEF ImuFailsDoes, ImuKeepsAll, Reporting, ThreadGoes, OtherTaps,
        TapsTyped, FramesKept, GateKept, ImuKept, FlightKept, SourcesTypeOK, TypeThreads
  <1>12. ASSUME NEW t \in Taps, ImuReleases(t) PROVE TapsTyped
    <2>1. ImuReleasesDoes(t)
      BY <1>12, ImuReleasesEffect
    <2> QED BY <2>1 DEF ImuReleasesDoes, ImuKeepsAll, ImuReleased, OtherTaps, TapsTyped,
        FramesKept, GateKept, ImuKept, FlightKept, SourcesTypeOK, TypeThreads
  <1>13. ASSUME NEW s \in Stoppers, StopTakes(s) PROVE TapsTyped
    <2>1. StopTakesDoes(s)
      BY <1>13, StopTakesEffect
    <2> QED BY <2>1 DEF StopTakesDoes, StopKeepsAll, GateShut, OtherTaps, TapsTyped,
        FramesKept, GateKept, ImuKept, FlightKept, SourcesTypeOK, TypeThreads
  <1>14. ASSUME NEW s \in Stoppers, StopShutsImu(s) PROVE TapsTyped
    <2>1. StopShutsImuDoes(s)
      BY <1>14, StopShutsImuEffect
    <2> QED BY <2>1 DEF StopShutsImuDoes, StopKeepsAll, ImuShut, OtherTaps, TapsTyped,
        FramesKept, GateKept, ImuKept, FlightKept, SourcesTypeOK, TypeThreads
  <1>15. CASE UNCHANGED tap
    BY <1>15 DEF SourcesTypeOK, TypeThreads, TapsTyped
  <1>16. \/ UNCHANGED tap
         \/ TapAttaches
         \/ ImuLaunches
         \/ \E c \in Cameras :
                 \/ PumpBegins(c) \/ PumpSubmits(c) \/ PumpReports(c) \/ PumpFinishes(c)
                 \/ PumpFails(c)
         \/ \E t \in Taps :
                 \/ ImuReads(t) \/ ImuChecks(t) \/ ImuSubmits(t) \/ ImuFails(t)
                 \/ ImuReleases(t)
         \/ \E s \in Stoppers : StopTakes(s) \/ StopShutsImu(s)
    BY DEF SourcesNext, sourceVars, PreviewBegins, CameraOpens, CameraRegisters, WarmUp,
        CameraAttaches, PumpLaunches, OpenerRaises, ImuFactoryRaises, PumpReads, PumpSnapshots,
        PumpReleases, FailureTold, StopCalled, CloseCalled, StopWaits, StopJoins,
        CloseShutsCamera, CloseJoins
  <1> QED BY <1>1, <1>2, <1>3, <1>4, <1>5, <1>6, <1>7, <1>8, <1>9, <1>10, <1>11, <1>12, <1>13,
      <1>14, <1>15, <1>16

\* So do the calls of stop() and close().
LEMMA StoppersStep ==
    ASSUME SourcesTypeOK, Pointed, [SourcesNext]_sourceVars
    PROVE  StoppersTyped
  <1> USE SourcesAssumption
      DEF SourceFault, Called, CameraCloses, CameraReads, CameraRaises, OpenerKeeps, OpenerTo,
          PreviewIsOpen, OpenerCloses, Reports, Reported, Report, PumpKeeps, ImuKeeps, ImuTo,
          CallKeeps, StopperKeeps, StopperTo, Returned, lockVars, deviceVars, historyVars
  <1>1. ASSUME NEW p \in Openers, WarmUp(p) PROVE StoppersTyped
    <2>1. OpenerClosesDoes(p)
      BY <1>1, OpenerClosesEffect
    <2> QED BY <2>1 DEF OpenerClosesDoes, OpenerKeepsAll, OtherStoppers, StoppersTyped,
        SourcesTypeOK, TypeThreads
  <1>2. ASSUME NEW p \in Openers, CameraAttaches(p) PROVE StoppersTyped
    <2>1. OpenerClosesDoes(p)
      BY <1>2, OpenerClosesEffect
    <2> QED BY <2>1 DEF OpenerClosesDoes, OpenerKeepsAll, OtherStoppers, StoppersTyped,
        SourcesTypeOK, TypeThreads
  <1>3. ASSUME NEW c \in Cameras, PumpReports(c) PROVE StoppersTyped
    <2>1. PumpReportsDoes(c)
      BY <1>3, PumpReportsEffect
    <2> QED BY <2>1 DEF PumpReportsDoes, PumpKeepsAll, Reporting, NotReporting,
        StopperGoes, OtherStoppers, StoppersTyped, SourcesTypeOK, TypeThreads
  <1>4. ASSUME NEW c \in Cameras, PumpFails(c) PROVE StoppersTyped
    <2>1. PumpFailsDoes(c)
      BY <1>4, PumpFailsEffect
    <2> QED BY <2>1 DEF PumpFailsDoes, PumpKeepsAll, Reporting, NotReporting, StopperGoes,
        OtherStoppers, StoppersTyped, SourcesTypeOK, TypeThreads
  <1>5. ASSUME NEW t \in Taps, ImuFails(t) PROVE StoppersTyped
    <2>1. ImuFailsDoes(t)
      BY <1>5, ImuFailsEffect
    <2> QED BY <2>1 DEF ImuFailsDoes, ImuKeepsAll, Reporting, StopperGoes, OtherStoppers,
        StoppersTyped, SourcesTypeOK, TypeThreads
  <1>6. ASSUME NEW t \in Taps, FailureTold(t) PROVE StoppersTyped
    <2>1. FailureToldDoes(t)
      BY <1>6, FailureToldEffect
    <2> QED BY <2>1 DEF FailureToldDoes, StopKeepsAll, StopperGoes, OtherStoppers,
        StoppersTyped, SourcesTypeOK, TypeThreads
  <1>7. CASE StopCalled
    <2>1. StopCalledDoes
      BY <1>7, StopCalledEffect
    <2> QED BY <2>1 DEF StopCalledDoes, StopKeepsAll, StopperGoes, OtherStoppers,
        StoppersTyped, SourcesTypeOK, TypeThreads
  <1>8. CASE CloseCalled
    <2>1. CloseCalledDoes
      BY <1>8, CloseCalledEffect
    <2> QED BY <2>1 DEF CloseCalledDoes, StopKeepsAll, OtherStoppers, StoppersTyped,
        SourcesTypeOK, TypeThreads
  <1>9. ASSUME NEW s \in Stoppers, StopTakes(s) PROVE StoppersTyped
    <2>1. StopTakesDoes(s)
      BY <1>9, StopTakesEffect
    <2> QED BY <2>1 DEF StopTakesDoes, StopKeepsAll, StopperReturns, OtherStoppers,
        StoppersTyped, SourcesTypeOK, TypeThreads
  <1>10. ASSUME NEW s \in Stoppers, StopWaits(s) PROVE StoppersTyped
    <2>1. StopWaitsDoes(s)
      BY <1>10, StopWaitsEffect
    <2> QED BY <2>1 DEF StopWaitsDoes, StopKeepsAll, OtherStoppers, StoppersTyped,
        SourcesTypeOK, TypeThreads
  <1>11. ASSUME NEW s \in Stoppers, StopShutsImu(s) PROVE StoppersTyped
    <2>1. StopShutsImuDoes(s)
      BY <1>11, StopShutsImuEffect
    <2> QED BY <2>1 DEF StopShutsImuDoes, StopKeepsAll, StopperGoes, OtherStoppers,
        StoppersTyped, SourcesTypeOK, TypeThreads
  <1>12. ASSUME NEW s \in Stoppers, StopJoins(s) PROVE StoppersTyped
    <2>1. StopJoinsDoes(s)
      BY <1>12, StopJoinsEffect
    <2> QED BY <2>1 DEF StopJoinsDoes, StopKeepsAll, StopperReturns, OtherStoppers,
        StoppersTyped, SourcesTypeOK, TypeThreads
  <1>13. ASSUME NEW s \in Stoppers, CloseShutsCamera(s) PROVE StoppersTyped
    <2>1. CloseShutsCameraDoes(s)
      BY <1>13, CloseShutsCameraEffect
    <2> QED BY <2>1 DEF CloseShutsCameraDoes, StopKeepsAll, OtherStoppers, StoppersTyped,
        SourcesTypeOK, TypeThreads
  <1>14. ASSUME NEW s \in Stoppers, CloseJoins(s) PROVE StoppersTyped
    <2>1. CloseJoinsDoes(s)
      BY <1>14, CloseJoinsEffect
    <2> QED BY <2>1 DEF CloseJoinsDoes, StopKeepsAll, StopperReturns, OtherStoppers,
        StoppersTyped, SourcesTypeOK, TypeThreads
  <1>15. CASE UNCHANGED stopper
    BY <1>15 DEF SourcesTypeOK, TypeThreads, StoppersTyped
  <1>16. \/ UNCHANGED stopper
         \/ \E p \in Openers : WarmUp(p) \/ CameraAttaches(p)
         \/ \E c \in Cameras : PumpReports(c) \/ PumpFails(c)
         \/ \E t \in Taps : ImuFails(t) \/ FailureTold(t)
         \/ StopCalled
         \/ CloseCalled
         \/ \E s \in Stoppers :
                 \/ StopTakes(s) \/ StopWaits(s) \/ StopShutsImu(s) \/ StopJoins(s)
                 \/ CloseShutsCamera(s) \/ CloseJoins(s)
    BY DEF SourcesNext, sourceVars, PreviewBegins, CameraOpens, CameraRegisters, PumpLaunches,
        OpenerRaises, TapAttaches, ImuLaunches, ImuFactoryRaises, PumpReads, PumpSnapshots,
        PumpBegins, PumpSubmits, PumpFinishes, PumpReleases, ImuReads, ImuChecks, ImuSubmits,
        ImuReleases
  <1> QED BY <1>1, <1>2, <1>3, <1>4, <1>5, <1>6, <1>7, <1>8, <1>9, <1>10, <1>11, <1>12, <1>13,
      <1>14, <1>15, <1>16

\* A step that makes no tap, and touches one that was made at most, leaves the rest.
LEMMA OneTapTouched ==
    ASSUME taps \in Nat, UNCHANGED taps, NEW t,
           UNCHANGED tap \/ (t \in Taps /\ t <= taps /\ \A u \in Taps \ {t} : tap'[u] = tap[u])
    PROVE  \A u \in Taps : u > taps' => u > taps /\ tap'[u] = tap[u]
  <1> SUFFICES ASSUME NEW u \in Taps, u > taps
               PROVE  tap'[u] = tap[u]
    OBVIOUS
  <1>1. CASE UNCHANGED tap
    BY <1>1
  <1>2. CASE t \in Taps /\ t <= taps /\ \A v \in Taps \ {t} : tap'[v] = tap[v]
    <2>1. u # t
      BY <1>2, SourcesAssumption DEF Taps
    <2> QED BY <1>2, <2>1
  <1> QED BY <1>1, <1>2

\* No step touches a tap that was not made.
LEMMA UntouchedStep ==
    ASSUME SourcesTypeOK, Pointed, Untouched, Launched, [SourcesNext]_sourceVars
    PROVE  Untouched'
  <1> USE SourcesAssumption
      DEF SourceFault, Called, CameraCloses, CameraReads, CameraRaises, OpenerKeeps, OpenerTo,
          PreviewIsOpen, OpenerCloses, Reports, Reported, Report, PumpKeeps, ImuKeeps, ImuTo,
          CallKeeps, StopperKeeps, StopperTo, Returned, lockVars, deviceVars, historyVars
  <1>t. taps \in Nat
    BY DEF SourcesTypeOK, TypeShared
  <1>1. CASE TapAttaches
    <2>1. TapAttachesDoes
      BY <1>1, TapAttachesEffect
    <2>3. \A u \in Taps : u > taps' => u > taps /\ tap'[u] = tap[u]
      BY <2>1 DEF TapAttachesDoes, TapOpened, OtherTaps, SourcesTypeOK, TypeShared, Taps
    <2> QED BY <2>3 DEF Untouched
  <1>2. CASE ImuLaunches
    <2>1. ImuLaunchesDoes
      BY <1>2, ImuLaunchesEffect
    <2>3. \A u \in Taps : u > taps' => u > taps /\ tap'[u] = tap[u]
      BY <2>1 DEF ImuLaunchesDoes, ImuKeepsAll, ThreadGoes, OtherTaps, SourcesTypeOK,
          TypeShared, Taps
    <2> QED BY <2>3 DEF Untouched
  <1>3. ASSUME NEW c \in Cameras, PumpBegins(c) PROVE Untouched'
    <2>1. PumpBeginsDoes(c)
      BY <1>3, PumpBeginsEffect
    <2>2. UNCHANGED tap \/ (pump[c].tap \in Taps /\ pump[c].tap <= taps /\ OtherTaps(pump[c].tap))
      BY <2>1 DEF PumpBeginsDoes, Observes, FrameObserved
    <2>3. UNCHANGED taps
      BY <2>1 DEF PumpBeginsDoes, PumpKeepsAll
    <2>4. \A u \in Taps : u > taps' => u > taps /\ tap'[u] = tap[u]
      BY <1>t, <2>2, <2>3, OneTapTouched DEF OtherTaps
    <2> QED BY <2>4 DEF Untouched
  <1>4. ASSUME NEW c \in Cameras, PumpSubmits(c) PROVE Untouched'
    <2>1. PumpSubmitsDoes(c)
      BY <1>4, PumpSubmitsEffect
    <2>2. UNCHANGED tap \/ (pump[c].tap \in Taps /\ pump[c].tap <= taps /\ OtherTaps(pump[c].tap))
      BY <2>1 DEF PumpSubmitsDoes, FrameTaken
    <2>3. UNCHANGED taps
      BY <2>1 DEF PumpSubmitsDoes, PumpKeepsAll
    <2>4. \A u \in Taps : u > taps' => u > taps /\ tap'[u] = tap[u]
      BY <1>t, <2>2, <2>3, OneTapTouched DEF OtherTaps
    <2> QED BY <2>4 DEF Untouched
  <1>5. ASSUME NEW c \in Cameras, PumpReports(c) PROVE Untouched'
    <2>1. PumpReportsDoes(c)
      BY <1>5, PumpReportsEffect
    <2>2. UNCHANGED tap \/ (pump[c].tap \in Taps /\ pump[c].tap <= taps /\ OtherTaps(pump[c].tap))
      BY <2>1 DEF PumpReportsDoes, Reporting, NotReporting
    <2>3. UNCHANGED taps
      BY <2>1 DEF PumpReportsDoes, PumpKeepsAll
    <2>4. \A u \in Taps : u > taps' => u > taps /\ tap'[u] = tap[u]
      BY <1>t, <2>2, <2>3, OneTapTouched DEF OtherTaps
    <2> QED BY <2>4 DEF Untouched
  <1>6. ASSUME NEW c \in Cameras, PumpFinishes(c) PROVE Untouched'
    <2>1. PumpFinishesDoes(c)
      BY <1>6, PumpFinishesEffect
    <2>2. pump[c].tap \in Taps /\ pump[c].tap <= taps /\ OtherTaps(pump[c].tap)
      BY <2>1 DEF PumpFinishesDoes, FrameFinished
    <2>3. UNCHANGED taps
      BY <2>1 DEF PumpFinishesDoes, PumpKeepsAll
    <2>4. \A u \in Taps : u > taps' => u > taps /\ tap'[u] = tap[u]
      BY <1>t, <2>2, <2>3, OneTapTouched DEF OtherTaps
    <2> QED BY <2>4 DEF Untouched
  <1>7. ASSUME NEW c \in Cameras, PumpFails(c) PROVE Untouched'
    <2>1. PumpFailsDoes(c)
      BY <1>7, PumpFailsEffect
    <2>2. UNCHANGED tap \/ (current \in Taps /\ current <= taps /\ OtherTaps(current))
      BY <2>1 DEF PumpFailsDoes, Reporting, NotReporting
    <2>3. UNCHANGED taps
      BY <2>1 DEF PumpFailsDoes, PumpKeepsAll
    <2>4. \A u \in Taps : u > taps' => u > taps /\ tap'[u] = tap[u]
      BY <2>2, <2>3 DEF OtherTaps, SourcesTypeOK, TypeShared, Taps
    <2> QED BY <2>4 DEF Untouched
  <1>8. ASSUME NEW t \in Taps, ImuReads(t) PROVE Untouched'
    <2>1. ImuThreadDoes(t)
      BY <1>8, ImuThreadEffect
    <2>2. t <= taps
      BY <2>1, ThreadAtTap DEF ImuThreadDoes
    <2>3. \A u \in Taps : u > taps' => u > taps /\ tap'[u] = tap[u]
      BY <2>1, <2>2 DEF ImuThreadDoes, ImuKeepsAll, ThreadGoes, OtherTaps, SourcesTypeOK,
          TypeShared, Taps
    <2> QED BY <2>3 DEF Untouched
  <1>9. ASSUME NEW t \in Taps, ImuChecks(t) PROVE Untouched'
    <2>1. ImuThreadDoes(t)
      BY <1>9, ImuThreadEffect
    <2>2. t <= taps
      BY <2>1, ThreadAtTap DEF ImuThreadDoes
    <2>3. \A u \in Taps : u > taps' => u > taps /\ tap'[u] = tap[u]
      BY <2>1, <2>2 DEF ImuThreadDoes, ImuKeepsAll, ThreadGoes, OtherTaps, SourcesTypeOK,
          TypeShared, Taps
    <2> QED BY <2>3 DEF Untouched
  <1>10. ASSUME NEW t \in Taps, ImuSubmits(t) PROVE Untouched'
    <2>1. ImuThreadDoes(t)
      BY <1>10, ImuThreadEffect
    <2>2. t <= taps
      BY <2>1, ThreadAtTap DEF ImuThreadDoes
    <2>3. \A u \in Taps : u > taps' => u > taps /\ tap'[u] = tap[u]
      BY <2>1, <2>2 DEF ImuThreadDoes, ImuKeepsAll, ThreadGoes, OtherTaps, SourcesTypeOK,
          TypeShared, Taps
    <2> QED BY <2>3 DEF Untouched
  <1>11. ASSUME NEW t \in Taps, ImuFails(t) PROVE Untouched'
    <2>1. ImuFailsDoes(t)
      BY <1>11, ImuFailsEffect
    <2>2. t <= taps
      BY <2>1, ThreadAtTap DEF ImuFailsDoes
    <2>3. \A u \in Taps : u > taps' => u > taps /\ tap'[u] = tap[u]
      BY <2>1, <2>2 DEF ImuFailsDoes, ImuKeepsAll, Reporting, ThreadGoes, OtherTaps,
          SourcesTypeOK, TypeShared, Taps
    <2> QED BY <2>3 DEF Untouched
  <1>12. ASSUME NEW t \in Taps, ImuReleases(t) PROVE Untouched'
    <2>1. ImuReleasesDoes(t)
      BY <1>12, ImuReleasesEffect
    <2>2. t <= taps
      BY <2>1, ThreadAtTap DEF ImuReleasesDoes
    <2>3. \A u \in Taps : u > taps' => u > taps /\ tap'[u] = tap[u]
      BY <2>1, <2>2 DEF ImuReleasesDoes, ImuKeepsAll, ImuReleased, OtherTaps,
          SourcesTypeOK, TypeShared, Taps
    <2> QED BY <2>3 DEF Untouched
  <1>13. ASSUME NEW s \in Stoppers, StopTakes(s) PROVE Untouched'
    <2>1. StopTakesDoes(s)
      BY <1>13, StopTakesEffect
    <2>3. \A u \in Taps : u > taps' => u > taps /\ tap'[u] = tap[u]
      BY <2>1 DEF StopTakesDoes, StopKeepsAll, GateShut, OtherTaps, SourcesTypeOK,
          TypeShared, Taps
    <2> QED BY <2>3 DEF Untouched
  <1>14. ASSUME NEW s \in Stoppers, StopShutsImu(s) PROVE Untouched'
    <2>1. StopShutsImuDoes(s)
      BY <1>14, StopShutsImuEffect
    <2>3. \A u \in Taps : u > taps' => u > taps /\ tap'[u] = tap[u]
      BY <2>1 DEF StopShutsImuDoes, StopKeepsAll, ImuShut, OtherTaps, SourcesTypeOK,
          TypeShared, Taps
    <2> QED BY <2>3 DEF Untouched
  <1>15. CASE UNCHANGED <<tap, taps>>
    BY <1>15 DEF Untouched
  <1>16. \/ UNCHANGED <<tap, taps>>
         \/ TapAttaches
         \/ ImuLaunches
         \/ \E c \in Cameras :
                 \/ PumpBegins(c) \/ PumpSubmits(c) \/ PumpReports(c) \/ PumpFinishes(c)
                 \/ PumpFails(c)
         \/ \E t \in Taps :
                 \/ ImuReads(t) \/ ImuChecks(t) \/ ImuSubmits(t) \/ ImuFails(t)
                 \/ ImuReleases(t)
         \/ \E s \in Stoppers : StopTakes(s) \/ StopShutsImu(s)
    BY DEF SourcesNext, sourceVars, PreviewBegins, CameraOpens, CameraRegisters, WarmUp,
        CameraAttaches, PumpLaunches, OpenerRaises, ImuFactoryRaises, PumpReads, PumpSnapshots,
        PumpReleases, FailureTold, StopCalled, CloseCalled, StopWaits, StopJoins,
        CloseShutsCamera, CloseJoins
  <1> QED BY <1>1, <1>2, <1>3, <1>4, <1>5, <1>6, <1>7, <1>8, <1>9, <1>10, <1>11, <1>12, <1>13,
      <1>14, <1>15, <1>16

\* An IMU is released by its own thread alone.
LEMMA ImuHeldStep ==
    ASSUME SourcesTypeOK, Pointed, Launched, ImuHeld, [SourcesNext]_sourceVars
    PROVE  ImuHeld'
  <1> USE SourcesAssumption
      DEF SourceFault, Called, CameraCloses, CameraReads, CameraRaises, OpenerKeeps, OpenerTo,
          PreviewIsOpen, OpenerCloses, Reports, Reported, Report, PumpKeeps, ImuKeeps, ImuTo,
          CallKeeps, StopperKeeps, StopperTo, Returned, lockVars, deviceVars, historyVars
  <1>1. CASE TapAttaches
    <2>1. TapAttachesDoes
      BY <1>1, TapAttachesEffect
    <2> QED BY <2>1 DEF TapAttachesDoes, TapOpened, OtherTaps, ImuKept, ImuHeld,
        SourcesTypeOK, TypeShared, Taps, TypeThreads
  <1>2. CASE ImuLaunches
    <2>1. ImuLaunchesDoes
      BY <1>2, ImuLaunchesEffect
    <2> QED BY <2>1 DEF ImuLaunchesDoes, ImuKeepsAll, ThreadGoes, OtherTaps, ImuKept,
        ImuHeld, SourcesTypeOK, TypeShared, Taps
  <1>3. ASSUME NEW c \in Cameras, PumpBegins(c) PROVE ImuHeld'
    <2>1. PumpBeginsDoes(c)
      BY <1>3, PumpBeginsEffect
    <2> QED BY <2>1 DEF PumpBeginsDoes, PumpKeepsAll, FrameObserved, Observes, OtherTaps,
        ImuKept, ImuHeld, SourcesTypeOK, TypeShared, Taps
  <1>4. ASSUME NEW c \in Cameras, PumpSubmits(c) PROVE ImuHeld'
    <2>1. PumpSubmitsDoes(c)
      BY <1>4, PumpSubmitsEffect
    <2> QED BY <2>1 DEF PumpSubmitsDoes, PumpKeepsAll, FrameTaken, OtherTaps, ImuKept,
        ImuHeld, SourcesTypeOK, TypeShared, Taps
  <1>5. ASSUME NEW c \in Cameras, PumpReports(c) PROVE ImuHeld'
    <2>1. PumpReportsDoes(c)
      BY <1>5, PumpReportsEffect
    <2> QED BY <2>1 DEF PumpReportsDoes, PumpKeepsAll, Reporting, NotReporting, OtherTaps,
        ImuKept, ImuHeld, SourcesTypeOK, TypeShared, Taps
  <1>6. ASSUME NEW c \in Cameras, PumpFinishes(c) PROVE ImuHeld'
    <2>1. PumpFinishesDoes(c)
      BY <1>6, PumpFinishesEffect
    <2> QED BY <2>1 DEF PumpFinishesDoes, PumpKeepsAll, FrameFinished, OtherTaps, ImuKept,
        ImuHeld, SourcesTypeOK, TypeShared, Taps
  <1>7. ASSUME NEW c \in Cameras, PumpFails(c) PROVE ImuHeld'
    <2>1. PumpFailsDoes(c)
      BY <1>7, PumpFailsEffect
    <2> QED BY <2>1 DEF PumpFailsDoes, PumpKeepsAll, Reporting, NotReporting, OtherTaps,
        ImuKept, ImuHeld, SourcesTypeOK, TypeShared, Taps
  <1>8. ASSUME NEW t \in Taps, ImuReads(t) PROVE ImuHeld'
    <2>1. ImuThreadDoes(t)
      BY <1>8, ImuThreadEffect
    <2> QED BY <2>1 DEF ImuThreadDoes, ImuKeepsAll, ThreadGoes, OtherTaps, ImuKept,
        ImuHeld, SourcesTypeOK, TypeShared, Taps
  <1>9. ASSUME NEW t \in Taps, ImuChecks(t) PROVE ImuHeld'
    <2>1. ImuThreadDoes(t)
      BY <1>9, ImuThreadEffect
    <2> QED BY <2>1 DEF ImuThreadDoes, ImuKeepsAll, ThreadGoes, OtherTaps, ImuKept,
        ImuHeld, SourcesTypeOK, TypeShared, Taps
  <1>10. ASSUME NEW t \in Taps, ImuSubmits(t) PROVE ImuHeld'
    <2>1. ImuThreadDoes(t)
      BY <1>10, ImuThreadEffect
    <2> QED BY <2>1 DEF ImuThreadDoes, ImuKeepsAll, ThreadGoes, OtherTaps, ImuKept,
        ImuHeld, SourcesTypeOK, TypeShared, Taps
  <1>11. ASSUME NEW t \in Taps, ImuFails(t) PROVE ImuHeld'
    <2>1. ImuFailsDoes(t)
      BY <1>11, ImuFailsEffect
    <2> QED BY <2>1 DEF ImuFailsDoes, ImuKeepsAll, Reporting, ThreadGoes, OtherTaps,
        ImuKept, ImuHeld, SourcesTypeOK, TypeShared, Taps
  <1>12. ASSUME NEW t \in Taps, ImuReleases(t) PROVE ImuHeld'
    <2>1. ImuReleasesDoes(t)
      BY <1>12, ImuReleasesEffect
    <2> QED BY <2>1 DEF ImuReleasesDoes, ImuKeepsAll, ImuReleased, OtherTaps, ImuKept,
        ImuHeld, SourcesTypeOK, TypeShared, Taps
  <1>13. ASSUME NEW s \in Stoppers, StopTakes(s) PROVE ImuHeld'
    <2>1. StopTakesDoes(s)
      BY <1>13, StopTakesEffect
    <2> QED BY <2>1 DEF StopTakesDoes, StopKeepsAll, GateShut, OtherTaps, ImuKept,
        ImuHeld, SourcesTypeOK, TypeShared, Taps
  <1>14. ASSUME NEW s \in Stoppers, StopShutsImu(s) PROVE ImuHeld'
    <2>1. StopShutsImuDoes(s)
      BY <1>14, StopShutsImuEffect
    <2> QED BY <2>1 DEF StopShutsImuDoes, StopKeepsAll, ImuShut, OtherTaps, ImuKept,
        ImuHeld, SourcesTypeOK, TypeShared, Taps
  <1>15. CASE UNCHANGED <<tap, taps>>
    BY <1>15 DEF ImuHeld
  <1>16. \/ UNCHANGED <<tap, taps>>
         \/ TapAttaches
         \/ ImuLaunches
         \/ \E c \in Cameras :
                 \/ PumpBegins(c) \/ PumpSubmits(c) \/ PumpReports(c) \/ PumpFinishes(c)
                 \/ PumpFails(c)
         \/ \E t \in Taps :
                 \/ ImuReads(t) \/ ImuChecks(t) \/ ImuSubmits(t) \/ ImuFails(t)
                 \/ ImuReleases(t)
         \/ \E s \in Stoppers : StopTakes(s) \/ StopShutsImu(s)
    BY DEF SourcesNext, sourceVars, PreviewBegins, CameraOpens, CameraRegisters, WarmUp,
        CameraAttaches, PumpLaunches, OpenerRaises, ImuFactoryRaises, PumpReads, PumpSnapshots,
        PumpReleases, FailureTold, StopCalled, CloseCalled, StopWaits, StopJoins,
        CloseShutsCamera, CloseJoins
  <1> QED BY <1>1, <1>2, <1>3, <1>4, <1>5, <1>6, <1>7, <1>8, <1>9, <1>10, <1>11, <1>12, <1>13,
      <1>14, <1>15, <1>16

\* The failure of a tap is reported once, and told once.
LEMMA ToldStep ==
    ASSUME SourcesTypeOK, Pointed, Launched, Told, [SourcesNext]_sourceVars
    PROVE  Told'
  <1> USE SourcesAssumption
      DEF SourceFault, Called, CameraCloses, CameraReads, CameraRaises, OpenerKeeps, OpenerTo,
          PreviewIsOpen, OpenerCloses, Reports, Reported, Report, PumpKeeps, ImuKeeps, ImuTo,
          CallKeeps, StopperKeeps, StopperTo, Returned, lockVars, deviceVars, historyVars
  <1>1. ASSUME NEW p \in Openers, WarmUp(p) PROVE Told'
    <2>1. OpenerClosesDoes(p)
      BY <1>1, OpenerClosesEffect
    <2> QED BY <2>1, Reporters, Callers DEF OpenerClosesDoes, OpenerKeepsAll,
        OtherStoppers, StoppersTyped, Told, SourcesTypeOK, TypeShared
  <1>2. ASSUME NEW p \in Openers, CameraAttaches(p) PROVE Told'
    <2>1. OpenerClosesDoes(p)
      BY <1>2, OpenerClosesEffect
    <2> QED BY <2>1, Reporters, Callers DEF OpenerClosesDoes, OpenerKeepsAll,
        OtherStoppers, StoppersTyped, Told, SourcesTypeOK, TypeShared
  <1>3. CASE TapAttaches
    <2>1. TapAttachesDoes
      BY <1>3, TapAttachesEffect
    <2> QED BY <2>1, Reporters, Callers DEF TapAttachesDoes, TapOpened, OtherTaps,
        GateKept, Told, SourcesTypeOK, TypeShared
  <1>4. CASE ImuLaunches
    <2>1. ImuLaunchesDoes
      BY <1>4, ImuLaunchesEffect
    <2> QED BY <2>1, Reporters, Callers DEF ImuLaunchesDoes, ImuKeepsAll, ThreadGoes,
        OtherTaps, GateKept, Told, SourcesTypeOK, TypeShared
  <1>5. ASSUME NEW c \in Cameras, PumpBegins(c) PROVE Told'
    <2>1. PumpBeginsDoes(c)
      BY <1>5, PumpBeginsEffect
    <2>2. \A t \in Taps : tap'[t].reported = tap[t].reported
      BY <2>1 DEF PumpBeginsDoes, Observes, FrameObserved, OtherTaps, GateKept
    <2>3. UNCHANGED <<told, stopper>>
      BY <2>1 DEF PumpBeginsDoes, PumpKeepsAll
    <2> QED BY <2>2, <2>3 DEF Told
  <1>6. ASSUME NEW c \in Cameras, PumpSubmits(c) PROVE Told'
    <2>1. PumpSubmitsDoes(c)
      BY <1>6, PumpSubmitsEffect
    <2> QED BY <2>1, Reporters, Callers DEF PumpSubmitsDoes, PumpKeepsAll, FrameTaken,
        OtherTaps, GateKept, Told, SourcesTypeOK, TypeShared
  <1>7. ASSUME NEW c \in Cameras, PumpReports(c) PROVE Told'
    <2>1. PumpReportsDoes(c)
      BY <1>7, PumpReportsEffect
    <2> QED BY <2>1, Reporters, Callers DEF PumpReportsDoes, PumpKeepsAll, Reporting,
        NotReporting, OtherTaps, GateKept, StopperGoes, OtherStoppers, StoppersTyped,
        Told, SourcesTypeOK, TypeShared
  <1>8. ASSUME NEW c \in Cameras, PumpFinishes(c) PROVE Told'
    <2>1. PumpFinishesDoes(c)
      BY <1>8, PumpFinishesEffect
    <2> QED BY <2>1, Reporters, Callers DEF PumpFinishesDoes, PumpKeepsAll, FrameFinished,
        OtherTaps, GateKept, Told, SourcesTypeOK, TypeShared
  <1>9. ASSUME NEW c \in Cameras, PumpFails(c) PROVE Told'
    <2>1. PumpFailsDoes(c)
      BY <1>9, PumpFailsEffect
    <2> QED BY <2>1, Reporters, Callers DEF PumpFailsDoes, PumpKeepsAll, Reporting,
        NotReporting, OtherTaps, GateKept, StopperGoes, OtherStoppers, StoppersTyped,
        Told, SourcesTypeOK, TypeShared
  <1>10. ASSUME NEW t \in Taps, ImuReads(t) PROVE Told'
    <2>1. ImuThreadDoes(t)
      BY <1>10, ImuThreadEffect
    <2> QED BY <2>1, Reporters, Callers DEF ImuThreadDoes, ImuKeepsAll, ThreadGoes,
        OtherTaps, GateKept, Told, SourcesTypeOK, TypeShared
  <1>11. ASSUME NEW t \in Taps, ImuChecks(t) PROVE Told'
    <2>1. ImuThreadDoes(t)
      BY <1>11, ImuThreadEffect
    <2> QED BY <2>1, Reporters, Callers DEF ImuThreadDoes, ImuKeepsAll, ThreadGoes,
        OtherTaps, GateKept, Told, SourcesTypeOK, TypeShared
  <1>12. ASSUME NEW t \in Taps, ImuSubmits(t) PROVE Told'
    <2>1. ImuThreadDoes(t)
      BY <1>12, ImuThreadEffect
    <2> QED BY <2>1, Reporters, Callers DEF ImuThreadDoes, ImuKeepsAll, ThreadGoes,
        OtherTaps, GateKept, Told, SourcesTypeOK, TypeShared
  <1>13. ASSUME NEW t \in Taps, ImuFails(t) PROVE Told'
    <2>1. ImuFailsDoes(t)
      BY <1>13, ImuFailsEffect
    <2> QED BY <2>1, Reporters, Callers DEF ImuFailsDoes, ImuKeepsAll, Reporting,
        ThreadGoes, OtherTaps, GateKept, StopperGoes, OtherStoppers, StoppersTyped, Told,
        SourcesTypeOK, TypeShared
  <1>14. ASSUME NEW t \in Taps, ImuReleases(t) PROVE Told'
    <2>1. ImuReleasesDoes(t)
      BY <1>14, ImuReleasesEffect
    <2> QED BY <2>1, Reporters, Callers DEF ImuReleasesDoes, ImuKeepsAll, ImuReleased,
        OtherTaps, GateKept, Told, SourcesTypeOK, TypeShared
  <1>15. ASSUME NEW t \in Taps, FailureTold(t) PROVE Told'
    <2>1. FailureToldDoes(t)
      BY <1>15, FailureToldEffect
    <2> QED BY <2>1, Reporters, Callers DEF FailureToldDoes, StopKeepsAll, StopperGoes,
        OtherStoppers, StoppersTyped, Told, SourcesTypeOK, TypeShared, TypeThreads
  <1>16. CASE StopCalled
    <2>1. StopCalledDoes
      BY <1>16, StopCalledEffect
    <2> QED BY <2>1, Reporters, Callers DEF StopCalledDoes, StopKeepsAll, StopperGoes,
        OtherStoppers, StoppersTyped, Told, SourcesTypeOK, TypeShared
  <1>17. CASE CloseCalled
    <2>1. CloseCalledDoes
      BY <1>17, CloseCalledEffect
    <2> QED BY <2>1, Reporters, Callers DEF CloseCalledDoes, StopKeepsAll, OtherStoppers,
        StoppersTyped, Told, SourcesTypeOK, TypeShared
  <1>18. ASSUME NEW s \in Stoppers, StopTakes(s) PROVE Told'
    <2>1. StopTakesDoes(s)
      BY <1>18, StopTakesEffect
    <2>2. \A t \in Taps : stopper[Reporter(t)].at = "idle" => stopper'[Reporter(t)].at = "idle"
      BY <2>1, Reporters, Callers DEF StopTakesDoes, StopKeepsAll, StopperReturns,
          OtherStoppers, StoppersTyped
    <2>3. \A t \in Taps : told'[t] = told[t] /\ tap'[t].reported = tap[t].reported
      BY <2>1 DEF StopTakesDoes, GateShut, OtherTaps
    <2> QED BY <2>2, <2>3 DEF Told, SourcesTypeOK, TypeShared
  <1>19. ASSUME NEW s \in Stoppers, StopWaits(s) PROVE Told'
    <2>1. StopWaitsDoes(s)
      BY <1>19, StopWaitsEffect
    <2> QED BY <2>1, Reporters, Callers DEF StopWaitsDoes, StopKeepsAll, OtherStoppers,
        StoppersTyped, Told, SourcesTypeOK, TypeShared
  <1>20. ASSUME NEW s \in Stoppers, StopShutsImu(s) PROVE Told'
    <2>1. StopShutsImuDoes(s)
      BY <1>20, StopShutsImuEffect
    <2> QED BY <2>1, Reporters, Callers DEF StopShutsImuDoes, StopKeepsAll, ImuShut,
        OtherTaps, GateKept, StopperGoes, OtherStoppers, StoppersTyped, Told,
        SourcesTypeOK, TypeShared
  <1>21. ASSUME NEW s \in Stoppers, StopJoins(s) PROVE Told'
    <2>1. StopJoinsDoes(s)
      BY <1>21, StopJoinsEffect
    <2>2. \A t \in Taps : stopper[Reporter(t)].at = "idle" => stopper'[Reporter(t)].at = "idle"
      BY <2>1, Reporters, Callers DEF StopJoinsDoes, StopKeepsAll, StopperReturns,
          OtherStoppers, StoppersTyped
    <2>3. \A t \in Taps : told'[t] = told[t] /\ tap'[t].reported = tap[t].reported
      BY <2>1 DEF StopJoinsDoes
    <2> QED BY <2>2, <2>3 DEF Told, SourcesTypeOK, TypeShared
  <1>22. ASSUME NEW s \in Stoppers, CloseShutsCamera(s) PROVE Told'
    <2>1. CloseShutsCameraDoes(s)
      BY <1>22, CloseShutsCameraEffect
    <2>2. \A t \in Taps : stopper[Reporter(t)].at = "idle" => stopper'[Reporter(t)].at = "idle"
      BY <2>1, Reporters, Callers DEF CloseShutsCameraDoes, StopKeepsAll, OtherStoppers,
          StoppersTyped
    <2>3. \A t \in Taps : told'[t] = told[t] /\ tap'[t].reported = tap[t].reported
      BY <2>1 DEF CloseShutsCameraDoes
    <2> QED BY <2>2, <2>3 DEF Told, SourcesTypeOK, TypeShared
  <1>23. ASSUME NEW s \in Stoppers, CloseJoins(s) PROVE Told'
    <2>1. CloseJoinsDoes(s)
      BY <1>23, CloseJoinsEffect
    <2>2. \A t \in Taps : stopper[Reporter(t)].at = "idle" => stopper'[Reporter(t)].at = "idle"
      BY <2>1, Reporters, Callers DEF CloseJoinsDoes, StopKeepsAll, StopperReturns,
          OtherStoppers, StoppersTyped
    <2>3. \A t \in Taps : told'[t] = told[t] /\ tap'[t].reported = tap[t].reported
      BY <2>1 DEF CloseJoinsDoes
    <2> QED BY <2>2, <2>3 DEF Told, SourcesTypeOK, TypeShared
  <1>24. CASE UNCHANGED <<tap, stopper, told>>
    BY <1>24 DEF Told
  <1>25. \/ UNCHANGED <<tap, stopper, told>>
         \/ \E p \in Openers : WarmUp(p) \/ CameraAttaches(p)
         \/ TapAttaches
         \/ ImuLaunches
         \/ StopCalled
         \/ CloseCalled
         \/ \E c \in Cameras :
                 \/ PumpBegins(c) \/ PumpSubmits(c) \/ PumpReports(c) \/ PumpFinishes(c)
                 \/ PumpFails(c)
         \/ \E t \in Taps :
                 \/ ImuReads(t) \/ ImuChecks(t) \/ ImuSubmits(t) \/ ImuFails(t)
                 \/ ImuReleases(t) \/ FailureTold(t)
         \/ \E s \in Stoppers :
                 \/ StopTakes(s) \/ StopWaits(s) \/ StopShutsImu(s) \/ StopJoins(s)
                 \/ CloseShutsCamera(s) \/ CloseJoins(s)
    BY DEF SourcesNext, sourceVars, PreviewBegins, CameraOpens, CameraRegisters, PumpLaunches,
        OpenerRaises, ImuFactoryRaises, PumpReads, PumpSnapshots, PumpReleases
  <1> QED BY <1>1, <1>2, <1>3, <1>4, <1>5, <1>6, <1>7, <1>8, <1>9, <1>10, <1>11, <1>12, <1>13,
      <1>14, <1>15, <1>16, <1>17, <1>18, <1>19, <1>20, <1>21, <1>22, <1>23, <1>24, <1>25

GoesOnLaunching ==
    opener'["recording"].at = "imu" => opener["recording"].at = "imu" /\ UNCHANGED <<tap, taps>>

\* A tap begins its thread once.
LEMMA LaunchedStep ==
    ASSUME SourcesTypeOK, Pointed, Untouched, Launched, [SourcesNext]_sourceVars
    PROVE  Launched'
  <1> USE SourcesAssumption
      DEF SourceFault, Called, CameraCloses, CameraReads, CameraRaises, OpenerKeeps, OpenerTo,
          PreviewIsOpen, OpenerCloses, Reports, Reported, Report, PumpKeeps, ImuKeeps, ImuTo,
          CallKeeps, StopperKeeps, StopperTo, Returned, lockVars, deviceVars, historyVars
  <1>1. ASSUME NEW p \in Openers, PreviewBegins(p) PROVE Launched'
    <2>1. GoesOnLaunching
      BY <1>1 DEF GoesOnLaunching, PreviewBegins, SourcesTypeOK, TypeThreads,
          OpenerStates, Openers
    <2> QED BY <2>1 DEF GoesOnLaunching, Launched
  <1>2. ASSUME NEW p \in Openers, CameraOpens(p) PROVE Launched'
    <2>1. GoesOnLaunching
      BY <1>2 DEF GoesOnLaunching, CameraOpens, SourcesTypeOK, TypeThreads, OpenerStates,
          Openers
    <2> QED BY <2>1 DEF GoesOnLaunching, Launched
  <1>3. ASSUME NEW p \in Openers, CameraRegisters(p) PROVE Launched'
    <2>1. GoesOnLaunching
      BY <1>3 DEF GoesOnLaunching, CameraRegisters, SourcesTypeOK, TypeThreads,
          OpenerStates, Openers
    <2> QED BY <2>1 DEF GoesOnLaunching, Launched
  <1>4. ASSUME NEW p \in Openers, WarmUp(p) PROVE Launched'
    <2>1. GoesOnLaunching
      BY <1>4 DEF GoesOnLaunching, WarmUp, SourcesTypeOK, TypeThreads, OpenerStates, Openers
    <2> QED BY <2>1 DEF GoesOnLaunching, Launched
  <1>5. ASSUME NEW p \in Openers, CameraAttaches(p) PROVE Launched'
    <2>1. GoesOnLaunching
      BY <1>5 DEF GoesOnLaunching, CameraAttaches, SourcesTypeOK, TypeThreads,
          OpenerStates, Openers
    <2> QED BY <2>1 DEF GoesOnLaunching, Launched
  <1>6. ASSUME NEW p \in Openers, PumpLaunches(p) PROVE Launched'
    <2>1. GoesOnLaunching
      BY <1>6 DEF GoesOnLaunching, PumpLaunches, SourcesTypeOK, TypeThreads, OpenerStates,
          Openers
    <2> QED BY <2>1 DEF GoesOnLaunching, Launched
  <1>7. ASSUME NEW p \in Openers, OpenerRaises(p) PROVE Launched'
    <2>1. GoesOnLaunching
      BY <1>7 DEF GoesOnLaunching, OpenerRaises, SourcesTypeOK, TypeThreads, OpenerStates,
          Openers
    <2> QED BY <2>1 DEF GoesOnLaunching, Launched
  <1>8. CASE TapAttaches
    <2>1. TapAttachesDoes
      BY <1>8, TapAttachesEffect
    <2>2. current # 0 => opener'["recording"].at = "idle"
      BY <1>8 DEF TapAttaches, SourcesTypeOK, TypeThreads, OpenerStates, Openers
    <2>3. CASE current # 0
      BY <2>2, <2>3 DEF Launched
    <2>4. CASE current = 0
      <3>1. /\ taps' = taps /\ UNCHANGED tap
            \/ /\ taps' = taps + 1 /\ taps + 1 \in Taps
               /\ tap'[taps + 1].thread = tap[taps + 1].thread
        BY <2>1 DEF TapAttachesDoes, TapOpened
      <3>2. taps + 1 \in Taps => tap[taps + 1].thread = "none"
        <4>1. NoTap.thread = "none"
          BY DEF NoTap
        <4> QED BY <4>1 DEF Untouched, SourcesTypeOK, TypeShared
      <3>3. current = 0 => taps' = taps + 1
        BY <1>8 DEF TapAttaches
      <3> QED BY <2>4, <3>1, <3>2, <3>3 DEF Launched, SourcesTypeOK, TypeShared
    <2> QED BY <2>3, <2>4
  <1>9. CASE ImuLaunches
    <2>1. GoesOnLaunching
      BY <1>9 DEF GoesOnLaunching, ImuLaunches, SourcesTypeOK, TypeThreads, OpenerStates,
          Openers
    <2> QED BY <2>1 DEF GoesOnLaunching, Launched
  <1>10. CASE ImuFactoryRaises
    <2>1. GoesOnLaunching
      BY <1>10 DEF GoesOnLaunching, ImuFactoryRaises, SourcesTypeOK, TypeThreads,
          OpenerStates, Openers
    <2> QED BY <2>1 DEF GoesOnLaunching, Launched
  <1>11. ASSUME NEW c \in Cameras, PumpBegins(c) PROVE Launched'
    <2>1. PumpBeginsDoes(c)
      BY <1>11, PumpBeginsEffect
    <2>2. UNCHANGED <<opener, taps>>
      BY <2>1 DEF PumpBeginsDoes, PumpKeepsAll
    <2>3. \A u \in Taps : tap[u].thread = "none" => tap'[u].thread = "none"
      BY <2>1 DEF PumpBeginsDoes, FrameObserved, Observes, OtherTaps, ImuKept
    <2> QED BY <2>2, <2>3 DEF Launched, SourcesTypeOK, TypeShared, Taps
  <1>12. ASSUME NEW c \in Cameras, PumpSubmits(c) PROVE Launched'
    <2>1. PumpSubmitsDoes(c)
      BY <1>12, PumpSubmitsEffect
    <2>2. UNCHANGED <<opener, taps>>
      BY <2>1 DEF PumpSubmitsDoes, PumpKeepsAll
    <2>3. \A u \in Taps : tap[u].thread = "none" => tap'[u].thread = "none"
      BY <2>1 DEF PumpSubmitsDoes, FrameTaken, OtherTaps, ImuKept
    <2> QED BY <2>2, <2>3 DEF Launched, SourcesTypeOK, TypeShared, Taps
  <1>13. ASSUME NEW c \in Cameras, PumpReports(c) PROVE Launched'
    <2>1. PumpReportsDoes(c)
      BY <1>13, PumpReportsEffect
    <2>2. UNCHANGED <<opener, taps>>
      BY <2>1 DEF PumpReportsDoes, PumpKeepsAll
    <2>3. \A u \in Taps : tap[u].thread = "none" => tap'[u].thread = "none"
      BY <2>1 DEF PumpReportsDoes, Reporting, NotReporting, OtherTaps, ImuKept
    <2> QED BY <2>2, <2>3 DEF Launched, SourcesTypeOK, TypeShared, Taps
  <1>14. ASSUME NEW c \in Cameras, PumpFinishes(c) PROVE Launched'
    <2>1. PumpFinishesDoes(c)
      BY <1>14, PumpFinishesEffect
    <2>2. UNCHANGED <<opener, taps>>
      BY <2>1 DEF PumpFinishesDoes, PumpKeepsAll
    <2>3. \A u \in Taps : tap[u].thread = "none" => tap'[u].thread = "none"
      BY <2>1 DEF PumpFinishesDoes, FrameFinished, OtherTaps, ImuKept
    <2> QED BY <2>2, <2>3 DEF Launched, SourcesTypeOK, TypeShared, Taps
  <1>15. ASSUME NEW c \in Cameras, PumpFails(c) PROVE Launched'
    <2>1. PumpFailsDoes(c)
      BY <1>15, PumpFailsEffect
    <2>2. UNCHANGED <<opener, taps>>
      BY <2>1 DEF PumpFailsDoes, PumpKeepsAll
    <2>3. \A u \in Taps : tap[u].thread = "none" => tap'[u].thread = "none"
      BY <2>1 DEF PumpFailsDoes, Reporting, NotReporting, OtherTaps, ImuKept
    <2> QED BY <2>2, <2>3 DEF Launched, SourcesTypeOK, TypeShared, Taps
  <1>16. ASSUME NEW t \in Taps, ImuReads(t) PROVE Launched'
    <2>1. ImuThreadDoes(t)
      BY <1>16, ImuThreadEffect
    <2>2. UNCHANGED <<opener, taps>>
      BY <2>1 DEF ImuThreadDoes, ImuKeepsAll
    <2>3. \A u \in Taps : tap[u].thread = "none" => tap'[u].thread = "none"
      BY <2>1 DEF ImuThreadDoes, ThreadGoes, OtherTaps, ImuKept
    <2> QED BY <2>2, <2>3 DEF Launched, SourcesTypeOK, TypeShared, Taps
  <1>17. ASSUME NEW t \in Taps, ImuChecks(t) PROVE Launched'
    <2>1. ImuThreadDoes(t)
      BY <1>17, ImuThreadEffect
    <2>2. UNCHANGED <<opener, taps>>
      BY <2>1 DEF ImuThreadDoes, ImuKeepsAll
    <2>3. \A u \in Taps : tap[u].thread = "none" => tap'[u].thread = "none"
      BY <2>1 DEF ImuThreadDoes, ThreadGoes, OtherTaps, ImuKept
    <2> QED BY <2>2, <2>3 DEF Launched, SourcesTypeOK, TypeShared, Taps
  <1>18. ASSUME NEW t \in Taps, ImuSubmits(t) PROVE Launched'
    <2>1. ImuThreadDoes(t)
      BY <1>18, ImuThreadEffect
    <2>2. UNCHANGED <<opener, taps>>
      BY <2>1 DEF ImuThreadDoes, ImuKeepsAll
    <2>3. \A u \in Taps : tap[u].thread = "none" => tap'[u].thread = "none"
      BY <2>1 DEF ImuThreadDoes, ThreadGoes, OtherTaps, ImuKept
    <2> QED BY <2>2, <2>3 DEF Launched, SourcesTypeOK, TypeShared, Taps
  <1>19. ASSUME NEW t \in Taps, ImuFails(t) PROVE Launched'
    <2>1. ImuFailsDoes(t)
      BY <1>19, ImuFailsEffect
    <2>2. UNCHANGED <<opener, taps>>
      BY <2>1 DEF ImuFailsDoes, ImuKeepsAll
    <2>3. \A u \in Taps : tap[u].thread = "none" => tap'[u].thread = "none"
      BY <2>1 DEF ImuFailsDoes, Reporting, ThreadGoes, OtherTaps, ImuKept
    <2> QED BY <2>2, <2>3 DEF Launched, SourcesTypeOK, TypeShared, Taps
  <1>20. ASSUME NEW t \in Taps, ImuReleases(t) PROVE Launched'
    <2>1. ImuReleasesDoes(t)
      BY <1>20, ImuReleasesEffect
    <2>2. UNCHANGED <<opener, taps>>
      BY <2>1 DEF ImuReleasesDoes, ImuKeepsAll
    <2>3. \A u \in Taps : tap[u].thread = "none" => tap'[u].thread = "none"
      BY <2>1 DEF ImuReleasesDoes, ImuReleased, OtherTaps, ImuKept
    <2> QED BY <2>2, <2>3 DEF Launched, SourcesTypeOK, TypeShared, Taps
  <1>21. ASSUME NEW s \in Stoppers, StopTakes(s) PROVE Launched'
    <2>1. StopTakesDoes(s)
      BY <1>21, StopTakesEffect
    <2>2. UNCHANGED <<opener, taps>>
      BY <2>1 DEF StopTakesDoes, StopKeepsAll
    <2>3. \A u \in Taps : tap[u].thread = "none" => tap'[u].thread = "none"
      BY <2>1 DEF StopTakesDoes, GateShut, OtherTaps, ImuKept
    <2> QED BY <2>2, <2>3 DEF Launched, SourcesTypeOK, TypeShared, Taps
  <1>22. ASSUME NEW s \in Stoppers, StopShutsImu(s) PROVE Launched'
    <2>1. StopShutsImuDoes(s)
      BY <1>22, StopShutsImuEffect
    <2>2. UNCHANGED <<opener, taps>>
      BY <2>1 DEF StopShutsImuDoes, StopKeepsAll
    <2>3. \A u \in Taps : tap[u].thread = "none" => tap'[u].thread = "none"
      BY <2>1 DEF StopShutsImuDoes, ImuShut, OtherTaps, ImuKept
    <2> QED BY <2>2, <2>3 DEF Launched, SourcesTypeOK, TypeShared, Taps
  <1>23. CASE UNCHANGED <<opener, tap, taps>>
    BY <1>23 DEF Launched
  <1>24. \/ UNCHANGED <<opener, tap, taps>>
         \/ \E p \in Openers :
                 \/ PreviewBegins(p) \/ CameraOpens(p) \/ CameraRegisters(p) \/ WarmUp(p)
                 \/ CameraAttaches(p) \/ PumpLaunches(p) \/ OpenerRaises(p)
         \/ TapAttaches
         \/ ImuLaunches
         \/ ImuFactoryRaises
         \/ \E c \in Cameras :
                 \/ PumpBegins(c) \/ PumpSubmits(c) \/ PumpReports(c) \/ PumpFinishes(c)
                 \/ PumpFails(c)
         \/ \E t \in Taps :
                 \/ ImuReads(t) \/ ImuChecks(t) \/ ImuSubmits(t) \/ ImuFails(t)
                 \/ ImuReleases(t)
         \/ \E s \in Stoppers : StopTakes(s) \/ StopShutsImu(s)
    BY DEF SourcesNext, sourceVars, PumpReads, PumpSnapshots, PumpReleases, FailureTold,
        StopCalled, CloseCalled, StopWaits, StopJoins, CloseShutsCamera, CloseJoins
  <1> QED BY <1>1, <1>2, <1>3, <1>4, <1>5, <1>6, <1>7, <1>8, <1>9, <1>10, <1>11, <1>12, <1>13,
      <1>14, <1>15, <1>16, <1>17, <1>18, <1>19, <1>20, <1>21, <1>22, <1>23, <1>24

\* As long as the same IMUs are open, the handles go on covering them.
LEMMA HandlesKept ==
    ASSUME SourcesTypeOK, HandlesHeld, UNCHANGED <<registered, handles>>,
           \A t \in Taps : tap'[t].imu \in {"open", "shut"} <=> tap[t].imu \in {"open", "shut"}
    PROVE  HandlesHeld'
  <1>1. OpenImus' = OpenImus
    BY DEF OpenImus
  <1> QED BY <1>1 DEF HandlesHeld

\* Whoever opens or releases something counts it.
LEMMA HandlesHeldStep ==
    ASSUME SourcesTypeOK, Pointed, Untouched, Launched, ImuHeld, HandlesHeld,
           [SourcesNext]_sourceVars
    PROVE  HandlesHeld'
  <1> USE SourcesAssumption
      DEF SourceFault, Called, CameraCloses, CameraReads, CameraRaises, OpenerKeeps, OpenerTo,
          PreviewIsOpen, OpenerCloses, Reports, Reported, Report, PumpKeeps, ImuKeeps, ImuTo,
          CallKeeps, StopperKeeps, StopperTo, Returned, lockVars, deviceVars, historyVars
  <1>1. ASSUME NEW p \in Openers, CameraRegisters(p) PROVE HandlesHeld'
    <2>1. CASE UNCHANGED <<registered, handles>>
      <3>1. UNCHANGED tap
        BY <1>1 DEF CameraRegisters
      <3> QED BY <2>1, <3>1, HandlesKept
    <2>2. CASE ~UNCHANGED <<registered, handles>>
      <3>1. UNCHANGED tap /\ handles' = handles + 1
        BY <1>1, <2>2 DEF CameraRegisters
      <3>2. OpenImus' = OpenImus
        BY <3>1 DEF OpenImus
      <3> QED BY <3>1, <3>2, ImusFinite DEF HandlesHeld, SourcesTypeOK, TypeShared
    <2> QED BY <2>1, <2>2
  <1>2. CASE TapAttaches
    <2>1. TapAttachesDoes
      BY <1>2, TapAttachesEffect
    <2>2. CASE UNCHANGED <<tap, taps, current, handles>>
      <3>1. UNCHANGED registered
        BY <2>1 DEF TapAttachesDoes
      <3> QED BY <2>2, <3>1, HandlesKept
    <2>3. CASE taps + 1 \in Taps /\ handles' = handles + 1 /\ TapOpened(taps + 1)
      <3>1. OpenImus' = OpenImus \cup {taps + 1}
        BY <2>3 DEF TapOpened, OtherTaps, OpenImus
      <3>2. /\ Cardinality(OpenImus') \in Nat /\ Cardinality(OpenImus) \in Nat
            /\ Cardinality(OpenImus') <= Cardinality(OpenImus) + 1
        BY <2>3, <3>1, ImuAdded, ImusFinite
      <3>3. UNCHANGED registered /\ handles \in Int
        BY <2>1 DEF TapAttachesDoes, SourcesTypeOK, TypeShared
      <3> QED BY <2>3, <3>2, <3>3 DEF HandlesHeld
    <2> QED BY <2>1, <2>2, <2>3 DEF TapAttachesDoes
  <1>3. CASE ImuLaunches
    <2>1. ImuLaunchesDoes
      BY <1>3, ImuLaunchesEffect
    <2>2. UNCHANGED <<registered, handles>>
      BY <2>1 DEF ImuLaunchesDoes, ImuKeepsAll
    <2>3. \A u \in Taps : tap'[u].imu \in {"open", "shut"} <=> tap[u].imu \in {"open", "shut"}
      BY <2>1 DEF ImuLaunchesDoes, ImuKeepsAll, ThreadGoes, OtherTaps, ImuKept
    <2> QED BY <2>2, <2>3, HandlesKept
  <1>4. ASSUME NEW c \in Cameras, PumpBegins(c) PROVE HandlesHeld'
    <2>1. PumpBeginsDoes(c)
      BY <1>4, PumpBeginsEffect
    <2>2. UNCHANGED <<registered, handles>>
      BY <2>1 DEF PumpBeginsDoes, PumpKeepsAll
    <2>3. \A u \in Taps : tap'[u].imu \in {"open", "shut"} <=> tap[u].imu \in {"open", "shut"}
      BY <2>1 DEF PumpBeginsDoes, PumpKeepsAll, FrameObserved, Observes, OtherTaps, ImuKept
    <2> QED BY <2>2, <2>3, HandlesKept
  <1>5. ASSUME NEW c \in Cameras, PumpSubmits(c) PROVE HandlesHeld'
    <2>1. PumpSubmitsDoes(c)
      BY <1>5, PumpSubmitsEffect
    <2>2. UNCHANGED <<registered, handles>>
      BY <2>1 DEF PumpSubmitsDoes, PumpKeepsAll
    <2>3. \A u \in Taps : tap'[u].imu \in {"open", "shut"} <=> tap[u].imu \in {"open", "shut"}
      BY <2>1 DEF PumpSubmitsDoes, PumpKeepsAll, FrameTaken, OtherTaps, ImuKept
    <2> QED BY <2>2, <2>3, HandlesKept
  <1>6. ASSUME NEW c \in Cameras, PumpReports(c) PROVE HandlesHeld'
    <2>1. PumpReportsDoes(c)
      BY <1>6, PumpReportsEffect
    <2>2. UNCHANGED <<registered, handles>>
      BY <2>1 DEF PumpReportsDoes, PumpKeepsAll
    <2>3. \A u \in Taps : tap'[u].imu \in {"open", "shut"} <=> tap[u].imu \in {"open", "shut"}
      BY <2>1 DEF PumpReportsDoes, PumpKeepsAll, Reporting, NotReporting, OtherTaps, ImuKept
    <2> QED BY <2>2, <2>3, HandlesKept
  <1>7. ASSUME NEW c \in Cameras, PumpFinishes(c) PROVE HandlesHeld'
    <2>1. PumpFinishesDoes(c)
      BY <1>7, PumpFinishesEffect
    <2>2. UNCHANGED <<registered, handles>>
      BY <2>1 DEF PumpFinishesDoes, PumpKeepsAll
    <2>3. \A u \in Taps : tap'[u].imu \in {"open", "shut"} <=> tap[u].imu \in {"open", "shut"}
      BY <2>1 DEF PumpFinishesDoes, PumpKeepsAll, FrameFinished, OtherTaps, ImuKept
    <2> QED BY <2>2, <2>3, HandlesKept
  <1>8. ASSUME NEW c \in Cameras, PumpFails(c) PROVE HandlesHeld'
    <2>1. PumpFailsDoes(c)
      BY <1>8, PumpFailsEffect
    <2>2. UNCHANGED <<registered, handles>>
      BY <2>1 DEF PumpFailsDoes, PumpKeepsAll
    <2>3. \A u \in Taps : tap'[u].imu \in {"open", "shut"} <=> tap[u].imu \in {"open", "shut"}
      BY <2>1 DEF PumpFailsDoes, PumpKeepsAll, Reporting, NotReporting, OtherTaps, ImuKept
    <2> QED BY <2>2, <2>3, HandlesKept
  <1>9. ASSUME NEW c \in Cameras, PumpReleases(c) PROVE HandlesHeld'
    <2>1. PumpReleasesDoes(c)
      BY <1>9, PumpReleasesEffect
    <2>2. UNCHANGED tap /\ OpenImus' = OpenImus
      BY <2>1 DEF PumpReleasesDoes, OpenImus
    <2>3. CASE UNCHANGED <<registered, handles>>
      BY <2>3, <2>2, HandlesKept
    <2>4. CASE registered # 0 /\ registered' = 0 /\ handles' = handles - 1
      BY <2>4, <2>2, ImusFinite DEF HandlesHeld, SourcesTypeOK, TypeShared
    <2> QED BY <2>1, <2>3, <2>4 DEF PumpReleasesDoes
  <1>10. ASSUME NEW t \in Taps, ImuReads(t) PROVE HandlesHeld'
    <2>1. ImuThreadDoes(t)
      BY <1>10, ImuThreadEffect
    <2>2. UNCHANGED <<registered, handles>>
      BY <2>1 DEF ImuThreadDoes, ImuKeepsAll
    <2>3. \A u \in Taps : tap'[u].imu \in {"open", "shut"} <=> tap[u].imu \in {"open", "shut"}
      BY <2>1 DEF ImuThreadDoes, ImuKeepsAll, ThreadGoes, OtherTaps, ImuKept
    <2> QED BY <2>2, <2>3, HandlesKept
  <1>11. ASSUME NEW t \in Taps, ImuChecks(t) PROVE HandlesHeld'
    <2>1. ImuThreadDoes(t)
      BY <1>11, ImuThreadEffect
    <2>2. UNCHANGED <<registered, handles>>
      BY <2>1 DEF ImuThreadDoes, ImuKeepsAll
    <2>3. \A u \in Taps : tap'[u].imu \in {"open", "shut"} <=> tap[u].imu \in {"open", "shut"}
      BY <2>1 DEF ImuThreadDoes, ImuKeepsAll, ThreadGoes, OtherTaps, ImuKept
    <2> QED BY <2>2, <2>3, HandlesKept
  <1>12. ASSUME NEW t \in Taps, ImuSubmits(t) PROVE HandlesHeld'
    <2>1. ImuThreadDoes(t)
      BY <1>12, ImuThreadEffect
    <2>2. UNCHANGED <<registered, handles>>
      BY <2>1 DEF ImuThreadDoes, ImuKeepsAll
    <2>3. \A u \in Taps : tap'[u].imu \in {"open", "shut"} <=> tap[u].imu \in {"open", "shut"}
      BY <2>1 DEF ImuThreadDoes, ImuKeepsAll, ThreadGoes, OtherTaps, ImuKept
    <2> QED BY <2>2, <2>3, HandlesKept
  <1>13. ASSUME NEW t \in Taps, ImuFails(t) PROVE HandlesHeld'
    <2>1. ImuFailsDoes(t)
      BY <1>13, ImuFailsEffect
    <2>2. UNCHANGED <<registered, handles>>
      BY <2>1 DEF ImuFailsDoes, ImuKeepsAll
    <2>3. \A u \in Taps : tap'[u].imu \in {"open", "shut"} <=> tap[u].imu \in {"open", "shut"}
      BY <2>1 DEF ImuFailsDoes, ImuKeepsAll, Reporting, ThreadGoes, OtherTaps, ImuKept
    <2> QED BY <2>2, <2>3, HandlesKept
  <1>14. ASSUME NEW t \in Taps, ImuReleases(t) PROVE HandlesHeld'
    <2>1. ImuReleasesDoes(t)
      BY <1>14, ImuReleasesEffect
    <2>2. t <= taps
      BY <2>1, ThreadAtTap DEF ImuReleasesDoes
    <2>3. t \in OpenImus
      BY <2>1, <2>2 DEF ImuReleasesDoes, ImuHeld, OpenImus
    <2>4. OpenImus' = OpenImus \ {t}
      BY <2>1 DEF ImuReleasesDoes, ImuReleased, OtherTaps, OpenImus
    <2>5. Cardinality(OpenImus') = Cardinality(OpenImus) - 1 /\ Cardinality(OpenImus) \in Nat
      BY <2>3, <2>4, ImuRemoved, ImusFinite
    <2>6. UNCHANGED registered /\ handles' = handles - 1 /\ handles \in Int
      BY <2>1 DEF ImuReleasesDoes, ImuKeepsAll, SourcesTypeOK, TypeShared
    <2> QED BY <2>5, <2>6 DEF HandlesHeld
  <1>15. ASSUME NEW s \in Stoppers, StopTakes(s) PROVE HandlesHeld'
    <2>1. StopTakesDoes(s)
      BY <1>15, StopTakesEffect
    <2>2. UNCHANGED <<registered, handles>>
      BY <2>1 DEF StopTakesDoes, StopKeepsAll
    <2>3. \A u \in Taps : tap'[u].imu \in {"open", "shut"} <=> tap[u].imu \in {"open", "shut"}
      BY <2>1 DEF StopTakesDoes, StopKeepsAll, GateShut, OtherTaps, ImuKept
    <2> QED BY <2>2, <2>3, HandlesKept
  <1>16. ASSUME NEW s \in Stoppers, StopShutsImu(s) PROVE HandlesHeld'
    <2>1. StopShutsImuDoes(s)
      BY <1>16, StopShutsImuEffect
    <2>2. UNCHANGED <<registered, handles>>
      BY <2>1 DEF StopShutsImuDoes, StopKeepsAll
    <2>3. \A u \in Taps : tap'[u].imu \in {"open", "shut"} <=> tap[u].imu \in {"open", "shut"}
      BY <2>1 DEF StopShutsImuDoes, StopKeepsAll, ImuShut, OtherTaps, ImuKept
    <2> QED BY <2>2, <2>3, HandlesKept
  <1>17. CASE UNCHANGED <<tap, registered, handles>>
    BY <1>17, HandlesKept
  <1>18. \/ UNCHANGED <<tap, registered, handles>>
         \/ \E p \in Openers : CameraRegisters(p)
         \/ TapAttaches
         \/ ImuLaunches
         \/ \E c \in Cameras :
                 \/ PumpBegins(c) \/ PumpSubmits(c) \/ PumpReports(c) \/ PumpFinishes(c)
                 \/ PumpFails(c) \/ PumpReleases(c)
         \/ \E t \in Taps :
                 \/ ImuReads(t) \/ ImuChecks(t) \/ ImuSubmits(t) \/ ImuFails(t)
                 \/ ImuReleases(t)
         \/ \E s \in Stoppers : StopTakes(s) \/ StopShutsImu(s)
    BY ZenonT(40) DEF SourcesNext, sourceVars, PreviewBegins, CameraOpens, WarmUp, CameraAttaches,
        PumpLaunches, OpenerRaises, ImuFactoryRaises, PumpReads, PumpSnapshots, FailureTold,
        StopCalled, CloseCalled, StopWaits, StopJoins, CloseShutsCamera, CloseJoins
  <1> QED BY <1>1, <1>2, <1>3, <1>4, <1>5, <1>6, <1>7, <1>8, <1>9, <1>10, <1>11, <1>12, <1>13,
      <1>14, <1>15, <1>16, <1>17, <1>18

\* A frame is counted from the moment it is taken until it is done with.
LEMMA FlyingCountedStep ==
    ASSUME SourcesTypeOK, Pointed, FreshCameras, Launched, FlyingCounted, [SourcesNext]_sourceVars
    PROVE  FlyingCounted'
  <1> USE SourcesAssumption
      DEF SourceFault, Called, CameraCloses, CameraReads, CameraRaises, OpenerKeeps, OpenerTo,
          PreviewIsOpen, OpenerCloses, Reports, Reported, Report, PumpKeeps, ImuKeeps, ImuTo,
          CallKeeps, StopperKeeps, StopperTo, Returned, lockVars, deviceVars, historyVars
  <1>1. ASSUME NEW p \in Openers, PumpLaunches(p) PROVE FlyingCounted'
    <2>1. PumpLaunchesDoes(p)
      BY <1>1, PumpLaunchesEffect
    <2> DEFINE c == opener[p].camera
    <2>2. UNCHANGED tap
      BY <2>1 DEF PumpLaunchesDoes, OpenerAlone
    <2>3. pump[c].at = "none"
      BY <2>1 DEF PumpLaunchesDoes, FreshCameras, Holding
    <2>4. pump'[c].at = "loop" /\ \A d \in Cameras \ {c} : pump'[d] = pump[d]
      BY <2>1 DEF PumpLaunchesDoes, PumpMoved
    <2>5. \A t \in Taps : Flying(t)' = Flying(t)
      BY <2>3, <2>4 DEF Flying, Submitting
    <2> QED BY <2>2, <2>5, FlyingKept
  <1>2. CASE TapAttaches
    <2>1. TapAttachesDoes
      BY <1>2, TapAttachesEffect
    <2>2. \A u \in Taps : tap'[u].inflight = tap[u].inflight
      BY <2>1 DEF TapAttachesDoes, TapOpened, OtherTaps, FlightKept
    <2>3. UNCHANGED pump
      BY <2>1 DEF TapAttachesDoes
    <2> QED BY <2>2, <2>3, FlyingKept DEF Flying
  <1>3. CASE ImuLaunches
    <2>1. ImuLaunchesDoes
      BY <1>3, ImuLaunchesEffect
    <2>2. \A u \in Taps : tap'[u].inflight = tap[u].inflight
      BY <2>1 DEF ImuLaunchesDoes, ImuKeepsAll, ThreadGoes, OtherTaps, FlightKept
    <2>3. UNCHANGED pump
      BY <2>1 DEF ImuLaunchesDoes, ImuKeepsAll
    <2> QED BY <2>2, <2>3, FlyingKept DEF Flying
  <1>4. ASSUME NEW c \in Cameras, PumpReads(c) PROVE FlyingCounted'
    <2>1. PumpReadsDoes(c)
      BY <1>4, PumpReadsEffect
    <2>2. \A u \in Taps : tap'[u].inflight = tap[u].inflight
      BY <2>1 DEF PumpReadsDoes, PumpKeepsAll, OtherTaps, FlightKept
    <2>3. \A d \in Cameras : pump'[d].at \in Submitting => pump'[d].tap = pump[d].tap
      BY <2>1 DEF PumpReadsDoes, PumpKeepsAll, PumpGoes, PumpMoved, PumpTakes, Observes,
          PumpHolds, Submitting
    <2>4. \A d \in Cameras : pump'[d].at \in Submitting <=> pump[d].at \in Submitting
      BY <2>1 DEF PumpReadsDoes, PumpKeepsAll, PumpGoes, PumpMoved, PumpTakes, Observes,
          Submitting
    <2>5. \A u \in Taps : Flying(u)' = Flying(u)
      BY <2>3, <2>4 DEF Flying
    <2> QED BY <2>2, <2>5, FlyingKept
  <1>5. ASSUME NEW c \in Cameras, PumpSnapshots(c) PROVE FlyingCounted'
    <2>1. PumpSnapshotsDoes(c)
      BY <1>5, PumpSnapshotsEffect
    <2>2. \A u \in Taps : tap'[u].inflight = tap[u].inflight
      BY <2>1 DEF PumpSnapshotsDoes, PumpKeepsAll, OtherTaps, FlightKept
    <2>3. \A d \in Cameras : pump'[d].at \in Submitting => pump'[d].tap = pump[d].tap
      BY <2>1 DEF PumpSnapshotsDoes, PumpKeepsAll, PumpGoes, PumpMoved, PumpTakes,
          Observes, PumpHolds, Submitting
    <2>4. \A d \in Cameras : pump'[d].at \in Submitting <=> pump[d].at \in Submitting
      BY <2>1 DEF PumpSnapshotsDoes, PumpKeepsAll, PumpGoes, PumpMoved, PumpTakes,
          Observes, Submitting
    <2>5. \A u \in Taps : Flying(u)' = Flying(u)
      BY <2>3, <2>4 DEF Flying
    <2> QED BY <2>2, <2>5, FlyingKept
  <1>6. ASSUME NEW c \in Cameras, PumpBegins(c) PROVE FlyingCounted'
    <2>1. PumpBeginsDoes(c)
      BY <1>6, PumpBeginsEffect
    <2>0. PICK t \in Taps : t = pump[c].tap
      BY <2>1 DEF PumpBeginsDoes
    <2>2. pump[c].at = "begin" /\ pump[c].tap = t
      BY <2>0, <2>1 DEF PumpBeginsDoes
    <2>3. \A d \in Cameras \ {c} : pump'[d] = pump[d]
      BY <2>1 DEF PumpBeginsDoes, PumpGoes, PumpMoved, PumpTakes, Observes
    <2>4. CASE PumpGoes(c, "loop") /\ \A u \in Taps : tap'[u].inflight = tap[u].inflight
      <3>1. \A u \in Taps : Flying(u)' = Flying(u)
        BY <2>2, <2>3, <2>4 DEF Flying, Submitting, PumpGoes, PumpMoved
      <3> QED BY <2>4, <3>1, FlyingKept
    <2>5. CASE \E gap \in {0, 1} : PumpTakes(c, gap) /\ FrameObserved(t, gap, TRUE)
      <3>1. pump'[c].at = "submit" /\ pump'[c].tap = t
        BY <2>2, <2>5 DEF PumpTakes, PumpMoved
      <3>2. c \notin Flying(t) /\ Flying(t)' = Flying(t) \cup {c}
        BY <2>2, <2>3, <3>1 DEF Flying, Submitting
      <3>3. \A u \in Taps \ {t} : Flying(u)' = Flying(u)
        BY <2>2, <2>3, <3>1 DEF Flying, Submitting
      <3>4. /\ tap'[t].inflight = tap[t].inflight + 1
            /\ \A u \in Taps \ {t} : tap'[u].inflight = tap[u].inflight
        BY <2>5 DEF FrameObserved, OtherTaps
      <3> QED BY <2>2, <3>2, <3>3, <3>4, FlyingBegun
    <2>6. ASSUME NEW gap \in {0, 1}, NEW taken \in BOOLEAN, Observes(c, t, gap, taken)
          PROVE  FlyingCounted'
      <3>1. CASE taken
        <4>1. PumpTakes(c, gap) /\ FrameObserved(t, gap, TRUE)
          BY <2>6, <3>1 DEF Observes
        <4> QED BY <2>5, <4>1
      <3>2. CASE ~taken
        <4>1. PumpGoes(c, "loop") /\ \A u \in Taps : tap'[u].inflight = tap[u].inflight
          BY <2>6, <3>2 DEF Observes, FrameObserved, OtherTaps
        <4> QED BY <2>4, <4>1
      <3> QED BY <3>1, <3>2
    <2>7. CASE UNCHANGED tap /\ PumpGoes(c, "loop")
      BY <2>4, <2>7
    <2> QED BY <2>1, <2>2, <2>6, <2>7 DEF PumpBeginsDoes
  <1>7. ASSUME NEW c \in Cameras, PumpSubmits(c) PROVE FlyingCounted'
    <2>1. PumpSubmitsDoes(c)
      BY <1>7, PumpSubmitsEffect
    <2>2. \A u \in Taps : tap'[u].inflight = tap[u].inflight
      BY <2>1 DEF PumpSubmitsDoes, PumpKeepsAll, FrameTaken, OtherTaps, FlightKept
    <2>3. \A d \in Cameras : pump'[d].at \in Submitting => pump'[d].tap = pump[d].tap
      BY <2>1 DEF PumpSubmitsDoes, PumpKeepsAll, PumpGoes, PumpMoved, PumpTakes, Observes,
          PumpHolds, Submitting
    <2>4. \A d \in Cameras : pump'[d].at \in Submitting <=> pump[d].at \in Submitting
      BY <2>1 DEF PumpSubmitsDoes, PumpKeepsAll, PumpGoes, PumpMoved, PumpTakes, Observes,
          Submitting
    <2>5. \A u \in Taps : Flying(u)' = Flying(u)
      BY <2>3, <2>4 DEF Flying
    <2> QED BY <2>2, <2>5, FlyingKept
  <1>8. ASSUME NEW c \in Cameras, PumpReports(c) PROVE FlyingCounted'
    <2>1. PumpReportsDoes(c)
      BY <1>8, PumpReportsEffect
    <2>2. \A u \in Taps : tap'[u].inflight = tap[u].inflight
      BY <2>1 DEF PumpReportsDoes, PumpKeepsAll, Reporting, NotReporting, OtherTaps,
          FlightKept
    <2>3. \A d \in Cameras : pump'[d].at \in Submitting => pump'[d].tap = pump[d].tap
      BY <2>1 DEF PumpReportsDoes, PumpKeepsAll, PumpGoes, PumpMoved, PumpTakes, Observes,
          PumpHolds, Submitting
    <2>4. \A d \in Cameras : pump'[d].at \in Submitting <=> pump[d].at \in Submitting
      BY <2>1 DEF PumpReportsDoes, PumpKeepsAll, PumpGoes, PumpMoved, PumpTakes, Observes,
          Submitting
    <2>5. \A u \in Taps : Flying(u)' = Flying(u)
      BY <2>3, <2>4 DEF Flying
    <2> QED BY <2>2, <2>5, FlyingKept
  <1>9. ASSUME NEW c \in Cameras, PumpFinishes(c) PROVE FlyingCounted'
    <2>1. PumpFinishesDoes(c)
      BY <1>9, PumpFinishesEffect
    <2>0. PICK t \in Taps : t = pump[c].tap
      BY <2>1 DEF PumpFinishesDoes
    <2>2. pump[c].at = "finish" /\ pump[c].tap = t
      BY <2>0, <2>1 DEF PumpFinishesDoes
    <2>3. pump'[c].at = "loop" /\ \A d \in Cameras \ {c} : pump'[d] = pump[d]
      BY <2>1 DEF PumpFinishesDoes, PumpGoes, PumpMoved
    <2>4. c \in Flying(t) /\ Flying(t)' = Flying(t) \ {c}
      BY <2>2, <2>3 DEF Flying, Submitting
    <2>5. \A u \in Taps \ {t} : Flying(u)' = Flying(u)
      BY <2>2, <2>3 DEF Flying, Submitting
    <2>6. /\ tap'[t].inflight = tap[t].inflight - 1
          /\ \A u \in Taps \ {t} : tap'[u].inflight = tap[u].inflight
      BY <2>1, <2>2 DEF PumpFinishesDoes, FrameFinished, OtherTaps
    <2> QED BY <2>2, <2>4, <2>5, <2>6, FlyingEnded
  <1>10. ASSUME NEW c \in Cameras, PumpFails(c) PROVE FlyingCounted'
    <2>1. PumpFailsDoes(c)
      BY <1>10, PumpFailsEffect
    <2>2. \A u \in Taps : tap'[u].inflight = tap[u].inflight
      BY <2>1 DEF PumpFailsDoes, PumpKeepsAll, Reporting, NotReporting, OtherTaps,
          FlightKept
    <2>3. \A d \in Cameras : pump'[d].at \in Submitting => pump'[d].tap = pump[d].tap
      BY <2>1 DEF PumpFailsDoes, PumpKeepsAll, PumpGoes, PumpMoved, PumpTakes, Observes,
          PumpHolds, Submitting
    <2>4. \A d \in Cameras : pump'[d].at \in Submitting <=> pump[d].at \in Submitting
      BY <2>1 DEF PumpFailsDoes, PumpKeepsAll, PumpGoes, PumpMoved, PumpTakes, Observes,
          Submitting
    <2>5. \A u \in Taps : Flying(u)' = Flying(u)
      BY <2>3, <2>4 DEF Flying
    <2> QED BY <2>2, <2>5, FlyingKept
  <1>11. ASSUME NEW c \in Cameras, PumpReleases(c) PROVE FlyingCounted'
    <2>1. PumpReleasesDoes(c)
      BY <1>11, PumpReleasesEffect
    <2>2. \A u \in Taps : tap'[u].inflight = tap[u].inflight
      BY <2>1 DEF PumpReleasesDoes, PumpKeepsAll, OtherTaps, FlightKept
    <2>3. \A d \in Cameras : pump'[d].at \in Submitting => pump'[d].tap = pump[d].tap
      BY <2>1 DEF PumpReleasesDoes, PumpKeepsAll, PumpGoes, PumpMoved, PumpTakes,
          Observes, PumpHolds, Submitting
    <2>4. \A d \in Cameras : pump'[d].at \in Submitting <=> pump[d].at \in Submitting
      BY <2>1 DEF PumpReleasesDoes, PumpKeepsAll, PumpGoes, PumpMoved, PumpTakes,
          Observes, Submitting
    <2>5. \A u \in Taps : Flying(u)' = Flying(u)
      BY <2>3, <2>4 DEF Flying
    <2> QED BY <2>2, <2>5, FlyingKept
  <1>12. ASSUME NEW t \in Taps, ImuReads(t) PROVE FlyingCounted'
    <2>1. ImuThreadDoes(t)
      BY <1>12, ImuThreadEffect
    <2>2. \A u \in Taps : tap'[u].inflight = tap[u].inflight
      BY <2>1 DEF ImuThreadDoes, ImuKeepsAll, ThreadGoes, OtherTaps, FlightKept
    <2>3. UNCHANGED pump
      BY <2>1 DEF ImuThreadDoes, ImuKeepsAll
    <2> QED BY <2>2, <2>3, FlyingKept DEF Flying
  <1>13. ASSUME NEW t \in Taps, ImuChecks(t) PROVE FlyingCounted'
    <2>1. ImuThreadDoes(t)
      BY <1>13, ImuThreadEffect
    <2>2. \A u \in Taps : tap'[u].inflight = tap[u].inflight
      BY <2>1 DEF ImuThreadDoes, ImuKeepsAll, ThreadGoes, OtherTaps, FlightKept
    <2>3. UNCHANGED pump
      BY <2>1 DEF ImuThreadDoes, ImuKeepsAll
    <2> QED BY <2>2, <2>3, FlyingKept DEF Flying
  <1>14. ASSUME NEW t \in Taps, ImuSubmits(t) PROVE FlyingCounted'
    <2>1. ImuThreadDoes(t)
      BY <1>14, ImuThreadEffect
    <2>2. \A u \in Taps : tap'[u].inflight = tap[u].inflight
      BY <2>1 DEF ImuThreadDoes, ImuKeepsAll, ThreadGoes, OtherTaps, FlightKept
    <2>3. UNCHANGED pump
      BY <2>1 DEF ImuThreadDoes, ImuKeepsAll
    <2> QED BY <2>2, <2>3, FlyingKept DEF Flying
  <1>15. ASSUME NEW t \in Taps, ImuFails(t) PROVE FlyingCounted'
    <2>1. ImuFailsDoes(t)
      BY <1>15, ImuFailsEffect
    <2>2. \A u \in Taps : tap'[u].inflight = tap[u].inflight
      BY <2>1 DEF ImuFailsDoes, ImuKeepsAll, Reporting, ThreadGoes, OtherTaps, FlightKept
    <2>3. UNCHANGED pump
      BY <2>1 DEF ImuFailsDoes, ImuKeepsAll
    <2> QED BY <2>2, <2>3, FlyingKept DEF Flying
  <1>16. ASSUME NEW t \in Taps, ImuReleases(t) PROVE FlyingCounted'
    <2>1. ImuReleasesDoes(t)
      BY <1>16, ImuReleasesEffect
    <2>2. \A u \in Taps : tap'[u].inflight = tap[u].inflight
      BY <2>1 DEF ImuReleasesDoes, ImuKeepsAll, ImuReleased, OtherTaps, FlightKept
    <2>3. UNCHANGED pump
      BY <2>1 DEF ImuReleasesDoes, ImuKeepsAll
    <2> QED BY <2>2, <2>3, FlyingKept DEF Flying
  <1>17. ASSUME NEW s \in Stoppers, StopTakes(s) PROVE FlyingCounted'
    <2>1. StopTakesDoes(s)
      BY <1>17, StopTakesEffect
    <2>2. \A u \in Taps : tap'[u].inflight = tap[u].inflight
      BY <2>1 DEF StopTakesDoes, StopKeepsAll, GateShut, OtherTaps, FlightKept
    <2>3. UNCHANGED pump
      BY <2>1 DEF StopTakesDoes, StopKeepsAll
    <2> QED BY <2>2, <2>3, FlyingKept DEF Flying
  <1>18. ASSUME NEW s \in Stoppers, StopShutsImu(s) PROVE FlyingCounted'
    <2>1. StopShutsImuDoes(s)
      BY <1>18, StopShutsImuEffect
    <2>2. \A u \in Taps : tap'[u].inflight = tap[u].inflight
      BY <2>1 DEF StopShutsImuDoes, StopKeepsAll, ImuShut, OtherTaps, FlightKept
    <2>3. UNCHANGED pump
      BY <2>1 DEF StopShutsImuDoes, StopKeepsAll
    <2> QED BY <2>2, <2>3, FlyingKept DEF Flying
  <1>19. CASE UNCHANGED <<pump, tap>>
    BY <1>19, FlyingKept DEF Flying
  <1>20. \/ UNCHANGED <<pump, tap>>
         \/ \E p \in Openers : PumpLaunches(p)
         \/ TapAttaches
         \/ ImuLaunches
         \/ \E c \in Cameras :
                 \/ PumpReads(c) \/ PumpSnapshots(c) \/ PumpBegins(c) \/ PumpSubmits(c)
                 \/ PumpReports(c) \/ PumpFinishes(c) \/ PumpFails(c) \/ PumpReleases(c)
         \/ \E t \in Taps :
                 \/ ImuReads(t) \/ ImuChecks(t) \/ ImuSubmits(t) \/ ImuFails(t)
                 \/ ImuReleases(t)
         \/ \E s \in Stoppers : StopTakes(s) \/ StopShutsImu(s)
    BY DEF SourcesNext, sourceVars, PreviewBegins, CameraOpens, CameraRegisters, WarmUp,
        CameraAttaches, OpenerRaises, ImuFactoryRaises, FailureTold, StopCalled, CloseCalled,
        StopWaits, StopJoins, CloseShutsCamera, CloseJoins
  <1> QED BY <1>1, <1>2, <1>3, <1>4, <1>5, <1>6, <1>7, <1>8, <1>9, <1>10, <1>11, <1>12, <1>13,
      <1>14, <1>15, <1>16, <1>17, <1>18, <1>19, <1>20

\* A tap that is being stopped stays so, and takes no new frame; a thread that ended has ended.
GatesStayShut == \A t \in Taps : tap[t].stopping = TRUE => tap'[t].stopping = TRUE
ReportsShut ==
    \A t \in Taps : tap'[t].reported = TRUE => tap[t].reported = TRUE \/ tap'[t].stopping = TRUE
FlightsEnd ==
    \A t \in Taps : tap[t].stopping = TRUE /\ tap[t].inflight = 0 => tap'[t].inflight = 0
ThreadsEnd == \A t \in Taps : tap[t].thread = "ended" => tap'[t].thread = "ended"
Quietens == GatesStayShut /\ ReportsShut /\ FlightsEnd /\ ThreadsEnd

\* No step opens the gate of a tap again.
LEMMA QuietensStep ==
    ASSUME SourcesTypeOK, Pointed, Launched, FlyingCounted, [SourcesNext]_sourceVars
    PROVE  Quietens
  <1> USE SourcesAssumption
      DEF SourceFault, Called, CameraCloses, CameraReads, CameraRaises, OpenerKeeps, OpenerTo,
          PreviewIsOpen, OpenerCloses, Reports, Reported, Report, PumpKeeps, ImuKeeps, ImuTo,
          CallKeeps, StopperKeeps, StopperTo, Returned, lockVars, deviceVars, historyVars
  <1>1. CASE TapAttaches
    <2>1. TapAttachesDoes
      BY <1>1, TapAttachesEffect
    <2>2. GatesStayShut
      BY <2>1 DEF GatesStayShut, TapAttachesDoes, TapOpened, OtherTaps, GateKept
    <2>3. ReportsShut
      BY <2>1 DEF ReportsShut, TapAttachesDoes, TapOpened, OtherTaps, GateKept
    <2>4. FlightsEnd
      BY <2>1 DEF FlightsEnd, TapAttachesDoes, TapOpened, OtherTaps, FlightKept
    <2>5. ThreadsEnd
      BY <2>1 DEF ThreadsEnd, TapAttachesDoes, TapOpened, OtherTaps, ImuKept
    <2> QED BY <2>2, <2>3, <2>4, <2>5 DEF Quietens
  <1>2. CASE ImuLaunches
    <2>1. ImuLaunchesDoes
      BY <1>2, ImuLaunchesEffect
    <2>2. GatesStayShut
      BY <2>1 DEF GatesStayShut, ImuLaunchesDoes, ImuKeepsAll, ThreadGoes, OtherTaps,
          GateKept
    <2>3. ReportsShut
      BY <2>1 DEF ReportsShut, ImuLaunchesDoes, ImuKeepsAll, ThreadGoes, OtherTaps, GateKept
    <2>4. FlightsEnd
      BY <2>1 DEF FlightsEnd, ImuLaunchesDoes, ImuKeepsAll, ThreadGoes, OtherTaps,
          FlightKept
    <2>5. ThreadsEnd
      BY <2>1 DEF ThreadsEnd, ImuLaunchesDoes, ImuKeepsAll, ThreadGoes, OtherTaps, ImuKept
    <2> QED BY <2>2, <2>3, <2>4, <2>5 DEF Quietens
  <1>3. ASSUME NEW c \in Cameras, PumpBegins(c) PROVE Quietens
    <2>1. PumpBeginsDoes(c)
      BY <1>3, PumpBeginsEffect
    <2>2. GatesStayShut
      BY <2>1 DEF GatesStayShut, PumpBeginsDoes, PumpKeepsAll, FrameObserved, Observes,
          OtherTaps, GateKept
    <2>3. ReportsShut
      BY <2>1 DEF ReportsShut, PumpBeginsDoes, PumpKeepsAll, FrameObserved, Observes,
          OtherTaps, GateKept
    <2>4. FlightsEnd
      BY <2>1 DEF FlightsEnd, PumpBeginsDoes, PumpKeepsAll, FrameObserved, Observes,
          OtherTaps, FlightKept
    <2>5. ThreadsEnd
      BY <2>1 DEF ThreadsEnd, PumpBeginsDoes, PumpKeepsAll, FrameObserved, Observes,
          OtherTaps, ImuKept
    <2> QED BY <2>2, <2>3, <2>4, <2>5 DEF Quietens
  <1>4. ASSUME NEW c \in Cameras, PumpSubmits(c) PROVE Quietens
    <2>1. PumpSubmitsDoes(c)
      BY <1>4, PumpSubmitsEffect
    <2>2. GatesStayShut
      BY <2>1 DEF GatesStayShut, PumpSubmitsDoes, PumpKeepsAll, FrameTaken, OtherTaps,
          GateKept
    <2>3. ReportsShut
      BY <2>1 DEF ReportsShut, PumpSubmitsDoes, PumpKeepsAll, FrameTaken, OtherTaps,
          GateKept
    <2>4. FlightsEnd
      BY <2>1 DEF FlightsEnd, PumpSubmitsDoes, PumpKeepsAll, FrameTaken, OtherTaps,
          FlightKept
    <2>5. ThreadsEnd
      BY <2>1 DEF ThreadsEnd, PumpSubmitsDoes, PumpKeepsAll, FrameTaken, OtherTaps, ImuKept
    <2> QED BY <2>2, <2>3, <2>4, <2>5 DEF Quietens
  <1>5. ASSUME NEW c \in Cameras, PumpReports(c) PROVE Quietens
    <2>1. PumpReportsDoes(c)
      BY <1>5, PumpReportsEffect
    <2>2. GatesStayShut
      BY <2>1 DEF GatesStayShut, PumpReportsDoes, PumpKeepsAll, Reporting, NotReporting,
          OtherTaps, GateKept
    <2>3. ReportsShut
      BY <2>1 DEF ReportsShut, PumpReportsDoes, PumpKeepsAll, Reporting, NotReporting,
          OtherTaps, GateKept
    <2>4. FlightsEnd
      BY <2>1 DEF FlightsEnd, PumpReportsDoes, PumpKeepsAll, Reporting, NotReporting,
          OtherTaps, FlightKept
    <2>5. ThreadsEnd
      BY <2>1 DEF ThreadsEnd, PumpReportsDoes, PumpKeepsAll, Reporting, NotReporting,
          OtherTaps, ImuKept
    <2> QED BY <2>2, <2>3, <2>4, <2>5 DEF Quietens
  <1>6. ASSUME NEW c \in Cameras, PumpFinishes(c) PROVE Quietens
    <2>1. PumpFinishesDoes(c)
      BY <1>6, PumpFinishesEffect
    <2>2. GatesStayShut
      BY <2>1 DEF GatesStayShut, PumpFinishesDoes, PumpKeepsAll, FrameFinished, OtherTaps,
          GateKept
    <2>3. ReportsShut
      BY <2>1 DEF ReportsShut, PumpFinishesDoes, PumpKeepsAll, FrameFinished, OtherTaps,
          GateKept
    <2>4. FlightsEnd
      <3>1. pump[c].tap \in Taps /\ c \in Flying(pump[c].tap)
        BY <2>1 DEF PumpFinishesDoes, Flying, Submitting
      <3>2. tap[pump[c].tap].inflight # 0
        BY <3>1, FlyingFinite, FS_EmptySet DEF FlyingCounted
      <3>3. \A u \in Taps \ {pump[c].tap} : tap'[u] = tap[u]
        BY <2>1 DEF PumpFinishesDoes, FrameFinished, OtherTaps
      <3> QED BY <3>1, <3>2, <3>3 DEF FlightsEnd
    <2>5. ThreadsEnd
      BY <2>1 DEF ThreadsEnd, PumpFinishesDoes, PumpKeepsAll, FrameFinished, OtherTaps,
          ImuKept
    <2> QED BY <2>2, <2>3, <2>4, <2>5 DEF Quietens
  <1>7. ASSUME NEW c \in Cameras, PumpFails(c) PROVE Quietens
    <2>1. PumpFailsDoes(c)
      BY <1>7, PumpFailsEffect
    <2>2. GatesStayShut
      BY <2>1 DEF GatesStayShut, PumpFailsDoes, PumpKeepsAll, Reporting, NotReporting,
          OtherTaps, GateKept
    <2>3. ReportsShut
      BY <2>1 DEF ReportsShut, PumpFailsDoes, PumpKeepsAll, Reporting, NotReporting,
          OtherTaps, GateKept
    <2>4. FlightsEnd
      BY <2>1 DEF FlightsEnd, PumpFailsDoes, PumpKeepsAll, Reporting, NotReporting,
          OtherTaps, FlightKept
    <2>5. ThreadsEnd
      BY <2>1 DEF ThreadsEnd, PumpFailsDoes, PumpKeepsAll, Reporting, NotReporting,
          OtherTaps, ImuKept
    <2> QED BY <2>2, <2>3, <2>4, <2>5 DEF Quietens
  <1>8. ASSUME NEW t \in Taps, ImuReads(t) PROVE Quietens
    <2>1. ImuThreadDoes(t)
      BY <1>8, ImuThreadEffect
    <2>2. GatesStayShut
      BY <2>1 DEF GatesStayShut, ImuThreadDoes, ImuKeepsAll, ThreadGoes, OtherTaps, GateKept
    <2>3. ReportsShut
      BY <2>1 DEF ReportsShut, ImuThreadDoes, ImuKeepsAll, ThreadGoes, OtherTaps, GateKept
    <2>4. FlightsEnd
      BY <2>1 DEF FlightsEnd, ImuThreadDoes, ImuKeepsAll, ThreadGoes, OtherTaps, FlightKept
    <2>5. ThreadsEnd
      BY <2>1 DEF ThreadsEnd, ImuThreadDoes, ImuKeepsAll, ThreadGoes, OtherTaps, ImuKept
    <2> QED BY <2>2, <2>3, <2>4, <2>5 DEF Quietens
  <1>9. ASSUME NEW t \in Taps, ImuChecks(t) PROVE Quietens
    <2>1. ImuThreadDoes(t)
      BY <1>9, ImuThreadEffect
    <2>2. GatesStayShut
      BY <2>1 DEF GatesStayShut, ImuThreadDoes, ImuKeepsAll, ThreadGoes, OtherTaps, GateKept
    <2>3. ReportsShut
      BY <2>1 DEF ReportsShut, ImuThreadDoes, ImuKeepsAll, ThreadGoes, OtherTaps, GateKept
    <2>4. FlightsEnd
      BY <2>1 DEF FlightsEnd, ImuThreadDoes, ImuKeepsAll, ThreadGoes, OtherTaps, FlightKept
    <2>5. ThreadsEnd
      BY <2>1 DEF ThreadsEnd, ImuThreadDoes, ImuKeepsAll, ThreadGoes, OtherTaps, ImuKept
    <2> QED BY <2>2, <2>3, <2>4, <2>5 DEF Quietens
  <1>10. ASSUME NEW t \in Taps, ImuSubmits(t) PROVE Quietens
    <2>1. ImuThreadDoes(t)
      BY <1>10, ImuThreadEffect
    <2>2. GatesStayShut
      BY <2>1 DEF GatesStayShut, ImuThreadDoes, ImuKeepsAll, ThreadGoes, OtherTaps, GateKept
    <2>3. ReportsShut
      BY <2>1 DEF ReportsShut, ImuThreadDoes, ImuKeepsAll, ThreadGoes, OtherTaps, GateKept
    <2>4. FlightsEnd
      BY <2>1 DEF FlightsEnd, ImuThreadDoes, ImuKeepsAll, ThreadGoes, OtherTaps, FlightKept
    <2>5. ThreadsEnd
      BY <2>1 DEF ThreadsEnd, ImuThreadDoes, ImuKeepsAll, ThreadGoes, OtherTaps, ImuKept
    <2> QED BY <2>2, <2>3, <2>4, <2>5 DEF Quietens
  <1>11. ASSUME NEW t \in Taps, ImuFails(t) PROVE Quietens
    <2>1. ImuFailsDoes(t)
      BY <1>11, ImuFailsEffect
    <2>2. GatesStayShut
      BY <2>1 DEF GatesStayShut, ImuFailsDoes, ImuKeepsAll, Reporting, ThreadGoes,
          OtherTaps, GateKept
    <2>3. ReportsShut
      BY <2>1 DEF ReportsShut, ImuFailsDoes, ImuKeepsAll, Reporting, ThreadGoes,
          OtherTaps, GateKept
    <2>4. FlightsEnd
      BY <2>1 DEF FlightsEnd, ImuFailsDoes, ImuKeepsAll, Reporting, ThreadGoes, OtherTaps,
          FlightKept
    <2>5. ThreadsEnd
      BY <2>1 DEF ThreadsEnd, ImuFailsDoes, ImuKeepsAll, Reporting, ThreadGoes, OtherTaps,
          ImuKept
    <2> QED BY <2>2, <2>3, <2>4, <2>5 DEF Quietens
  <1>12. ASSUME NEW t \in Taps, ImuReleases(t) PROVE Quietens
    <2>1. ImuReleasesDoes(t)
      BY <1>12, ImuReleasesEffect
    <2>2. GatesStayShut
      BY <2>1 DEF GatesStayShut, ImuReleasesDoes, ImuKeepsAll, ImuReleased, OtherTaps,
          GateKept
    <2>3. ReportsShut
      BY <2>1 DEF ReportsShut, ImuReleasesDoes, ImuKeepsAll, ImuReleased, OtherTaps,
          GateKept
    <2>4. FlightsEnd
      BY <2>1 DEF FlightsEnd, ImuReleasesDoes, ImuKeepsAll, ImuReleased, OtherTaps,
          FlightKept
    <2>5. ThreadsEnd
      BY <2>1 DEF ThreadsEnd, ImuReleasesDoes, ImuKeepsAll, ImuReleased, OtherTaps, ImuKept
    <2> QED BY <2>2, <2>3, <2>4, <2>5 DEF Quietens
  <1>13. ASSUME NEW s \in Stoppers, StopTakes(s) PROVE Quietens
    <2>1. StopTakesDoes(s)
      BY <1>13, StopTakesEffect
    <2>2. GatesStayShut
      BY <2>1 DEF GatesStayShut, StopTakesDoes, StopKeepsAll, GateShut, OtherTaps, GateKept
    <2>3. ReportsShut
      BY <2>1 DEF ReportsShut, StopTakesDoes, StopKeepsAll, GateShut, OtherTaps, GateKept
    <2>4. FlightsEnd
      BY <2>1 DEF FlightsEnd, StopTakesDoes, StopKeepsAll, GateShut, OtherTaps, FlightKept
    <2>5. ThreadsEnd
      BY <2>1 DEF ThreadsEnd, StopTakesDoes, StopKeepsAll, GateShut, OtherTaps, ImuKept
    <2> QED BY <2>2, <2>3, <2>4, <2>5 DEF Quietens
  <1>14. ASSUME NEW s \in Stoppers, StopShutsImu(s) PROVE Quietens
    <2>1. StopShutsImuDoes(s)
      BY <1>14, StopShutsImuEffect
    <2>2. GatesStayShut
      BY <2>1 DEF GatesStayShut, StopShutsImuDoes, StopKeepsAll, ImuShut, OtherTaps,
          GateKept
    <2>3. ReportsShut
      BY <2>1 DEF ReportsShut, StopShutsImuDoes, StopKeepsAll, ImuShut, OtherTaps, GateKept
    <2>4. FlightsEnd
      BY <2>1 DEF FlightsEnd, StopShutsImuDoes, StopKeepsAll, ImuShut, OtherTaps, FlightKept
    <2>5. ThreadsEnd
      BY <2>1 DEF ThreadsEnd, StopShutsImuDoes, StopKeepsAll, ImuShut, OtherTaps, ImuKept
    <2> QED BY <2>2, <2>3, <2>4, <2>5 DEF Quietens
  <1>15. CASE UNCHANGED tap
    BY <1>15 DEF Quietens, GatesStayShut, ReportsShut, FlightsEnd, ThreadsEnd
  <1>16. \/ UNCHANGED tap
         \/ TapAttaches
         \/ ImuLaunches
         \/ \E c \in Cameras :
                 \/ PumpBegins(c) \/ PumpSubmits(c) \/ PumpReports(c) \/ PumpFinishes(c)
                 \/ PumpFails(c)
         \/ \E t \in Taps :
                 \/ ImuReads(t) \/ ImuChecks(t) \/ ImuSubmits(t) \/ ImuFails(t)
                 \/ ImuReleases(t)
         \/ \E s \in Stoppers : StopTakes(s) \/ StopShutsImu(s)
    BY DEF SourcesNext, sourceVars, PreviewBegins, CameraOpens, CameraRegisters, WarmUp,
        CameraAttaches, PumpLaunches, OpenerRaises, ImuFactoryRaises, PumpReads, PumpSnapshots,
        PumpReleases, FailureTold, StopCalled, CloseCalled, StopWaits, StopJoins,
        CloseShutsCamera, CloseJoins
  <1> QED BY <1>1, <1>2, <1>3, <1>4, <1>5, <1>6, <1>7, <1>8, <1>9, <1>10, <1>11, <1>12, <1>13,
      <1>14, <1>15, <1>16

\* Whoever stops a tap goes on with it, or is done.
StopsOn(s) ==
    /\ stopper'[s].at \in {"wait", "imu", "join"} => tap'[stopper'[s].tap].stopping = TRUE
    /\ stopper'[s].at \in {"imu", "join"} /\ stopper'[s].late = FALSE =>
          tap'[stopper'[s].tap].inflight = 0
StopsOrReturns(s) ==
    stopper'[s].at \in {"wait", "imu", "join"} =>
        /\ stopper[s].at \in {"wait", "imu", "join"} /\ stopper'[s].tap = stopper[s].tap
        /\ stopper'[s].at \in {"imu", "join"} /\ stopper'[s].late = FALSE =>
              stopper[s].at \in {"imu", "join"} /\ stopper[s].late = FALSE

\* Whoever goes on stopping a tap, or is done, still stops a shut one that is empty.
LEMMA GoesOnStopping ==
    ASSUME SourcesTypeOK, Pointed, Stopped, Quietens, NEW s \in Stoppers, StopsOrReturns(s)
    PROVE  StopsOn(s)
  <1>1. stopper[s].at \in {"wait", "imu", "join"} => stopper[s].tap \in Taps
    BY StopperAtTap
  <1>2. stopper'[s].at \in {"wait", "imu", "join"} => tap'[stopper'[s].tap].stopping = TRUE
    BY <1>1 DEF StopsOrReturns, Quietens, GatesStayShut, Stopped
  <1>3. ASSUME stopper'[s].at \in {"imu", "join"}, stopper'[s].late = FALSE
        PROVE  tap'[stopper'[s].tap].inflight = 0
    <2>1. /\ stopper[s].at \in {"imu", "join"} /\ stopper[s].late = FALSE
          /\ stopper'[s].tap = stopper[s].tap
      BY <1>3 DEF StopsOrReturns
    <2>2. tap[stopper[s].tap].stopping = TRUE /\ tap[stopper[s].tap].inflight = 0
      BY <2>1 DEF Stopped
    <2> QED BY <1>1, <2>1, <2>2 DEF Quietens, FlightsEnd, ThreadsEnd
  <1> QED BY <1>2, <1>3 DEF StopsOn

\* No stop() forgets its tap, and none goes on in time before the last frame is through.
LEMMA StopsOnStep ==
    ASSUME SourcesTypeOK, Pointed, Launched, Stopped, Quietens, [SourcesNext]_sourceVars
    PROVE  \A s \in Stoppers : StopsOn(s)
  <1> USE SourcesAssumption
      DEF SourceFault, Called, CameraCloses, CameraReads, CameraRaises, OpenerKeeps, OpenerTo,
          PreviewIsOpen, OpenerCloses, Reports, Reported, Report, PumpKeeps, ImuKeeps, ImuTo,
          CallKeeps, StopperKeeps, StopperTo, Returned, lockVars, deviceVars, historyVars
  <1>1. ASSUME NEW p \in Openers, WarmUp(p) PROVE \A s \in Stoppers : StopsOn(s)
    <2>1. OpenerClosesDoes(p)
      BY <1>1, OpenerClosesEffect
    <2>2. \A u \in Stoppers : StopsOrReturns(u)
      BY <2>1, Reporters, Callers DEF OpenerClosesDoes, OpenerKeepsAll, OtherStoppers,
          StoppersTyped, StopsOrReturns
    <2> QED BY <2>2, GoesOnStopping
  <1>2. ASSUME NEW p \in Openers, CameraAttaches(p) PROVE \A s \in Stoppers : StopsOn(s)
    <2>1. OpenerClosesDoes(p)
      BY <1>2, OpenerClosesEffect
    <2>2. \A u \in Stoppers : StopsOrReturns(u)
      BY <2>1, Reporters, Callers DEF OpenerClosesDoes, OpenerKeepsAll, OtherStoppers,
          StoppersTyped, StopsOrReturns
    <2> QED BY <2>2, GoesOnStopping
  <1>3. ASSUME NEW c \in Cameras, PumpReports(c) PROVE \A s \in Stoppers : StopsOn(s)
    <2>1. PumpReportsDoes(c)
      BY <1>3, PumpReportsEffect
    <2>2. \A u \in Stoppers : StopsOrReturns(u)
      BY <2>1, Reporters, Callers DEF PumpReportsDoes, PumpKeepsAll, Reporting,
          NotReporting, StopperGoes, OtherStoppers, StoppersTyped, StopsOrReturns
    <2> QED BY <2>2, GoesOnStopping
  <1>4. ASSUME NEW c \in Cameras, PumpFails(c) PROVE \A s \in Stoppers : StopsOn(s)
    <2>1. PumpFailsDoes(c)
      BY <1>4, PumpFailsEffect
    <2>2. \A u \in Stoppers : StopsOrReturns(u)
      BY <2>1, Reporters, Callers DEF PumpFailsDoes, PumpKeepsAll, Reporting,
          NotReporting, StopperGoes, OtherStoppers, StoppersTyped, StopsOrReturns
    <2> QED BY <2>2, GoesOnStopping
  <1>5. ASSUME NEW t \in Taps, ImuFails(t) PROVE \A s \in Stoppers : StopsOn(s)
    <2>1. ImuFailsDoes(t)
      BY <1>5, ImuFailsEffect
    <2>2. \A u \in Stoppers : StopsOrReturns(u)
      BY <2>1, Reporters, Callers DEF ImuFailsDoes, ImuKeepsAll, Reporting, StopperGoes,
          OtherStoppers, StoppersTyped, StopsOrReturns
    <2> QED BY <2>2, GoesOnStopping
  <1>6. ASSUME NEW t \in Taps, FailureTold(t) PROVE \A s \in Stoppers : StopsOn(s)
    <2>1. FailureToldDoes(t)
      BY <1>6, FailureToldEffect
    <2>2. \A u \in Stoppers : StopsOrReturns(u)
      BY <2>1, Reporters, Callers DEF FailureToldDoes, StopKeepsAll, StopperGoes,
          OtherStoppers, StoppersTyped, StopsOrReturns
    <2> QED BY <2>2, GoesOnStopping
  <1>7. CASE StopCalled
    <2>1. StopCalledDoes
      BY <1>7, StopCalledEffect
    <2>2. \A u \in Stoppers : StopsOrReturns(u)
      BY <2>1, Reporters, Callers DEF StopCalledDoes, StopKeepsAll, StopperGoes,
          OtherStoppers, StoppersTyped, StopsOrReturns
    <2> QED BY <2>2, GoesOnStopping
  <1>8. CASE CloseCalled
    <2>1. CloseCalledDoes
      BY <1>8, CloseCalledEffect
    <2>2. \A u \in Stoppers : StopsOrReturns(u)
      BY <2>1, Reporters, Callers DEF CloseCalledDoes, StopKeepsAll, OtherStoppers,
          StoppersTyped, StopsOrReturns
    <2> QED BY <2>2, GoesOnStopping
  <1>9. ASSUME NEW s \in Stoppers, StopTakes(s) PROVE \A u \in Stoppers : StopsOn(u)
    <2>1. StopTakesDoes(s)
      BY <1>9, StopTakesEffect
    <2>2. \A u \in Stoppers \ {s} : StopsOrReturns(u)
      BY <2>1 DEF StopTakesDoes, StopperReturns, OtherStoppers, StopsOrReturns
    <2>3. StopsOn(s)
      <3>1. CASE StopperReturns(s)
        BY <3>1 DEF StopperReturns, StopsOn
      <3>2. CASE GateShut(current) /\ stopper'[s].at = "wait" /\ stopper'[s].tap = current
        BY <3>2 DEF GateShut, StopsOn
      <3> QED BY <2>1, <3>1, <3>2 DEF StopTakesDoes
    <2> QED BY <2>2, <2>3, GoesOnStopping
  <1>10. ASSUME NEW s \in Stoppers, StopWaits(s) PROVE \A u \in Stoppers : StopsOn(u)
    <2>1. StopWaitsDoes(s)
      BY <1>10, StopWaitsEffect
    <2>2. \A u \in Stoppers \ {s} : StopsOrReturns(u)
      BY <2>1 DEF StopWaitsDoes, OtherStoppers, StopsOrReturns
    <2>3. StopsOn(s)
      BY <2>1 DEF StopWaitsDoes, StopsOn, Stopped
    <2> QED BY <2>2, <2>3, GoesOnStopping
  <1>11. ASSUME NEW s \in Stoppers, StopShutsImu(s) PROVE \A u \in Stoppers : StopsOn(u)
    <2>1. StopShutsImuDoes(s)
      BY <1>11, StopShutsImuEffect
    <2>2. \A u \in Stoppers : StopsOrReturns(u)
      BY <2>1, Reporters, Callers DEF StopShutsImuDoes, StopKeepsAll, StopperGoes,
          OtherStoppers, StoppersTyped, StopsOrReturns
    <2> QED BY <2>2, GoesOnStopping
  <1>12. ASSUME NEW s \in Stoppers, StopJoins(s) PROVE \A u \in Stoppers : StopsOn(u)
    <2>1. StopJoinsDoes(s)
      BY <1>12, StopJoinsEffect
    <2>2. \A u \in Stoppers : StopsOrReturns(u)
      BY <2>1, Reporters, Callers DEF StopJoinsDoes, StopKeepsAll, StopperReturns,
          OtherStoppers, StoppersTyped, StopsOrReturns
    <2> QED BY <2>2, GoesOnStopping
  <1>13. ASSUME NEW s \in Stoppers, CloseShutsCamera(s) PROVE \A u \in Stoppers : StopsOn(u)
    <2>1. CloseShutsCameraDoes(s)
      BY <1>13, CloseShutsCameraEffect
    <2>2. \A u \in Stoppers : StopsOrReturns(u)
      BY <2>1, Reporters, Callers DEF CloseShutsCameraDoes, StopKeepsAll, OtherStoppers,
          StoppersTyped, StopsOrReturns
    <2> QED BY <2>2, GoesOnStopping
  <1>14. ASSUME NEW s \in Stoppers, CloseJoins(s) PROVE \A u \in Stoppers : StopsOn(u)
    <2>1. CloseJoinsDoes(s)
      BY <1>14, CloseJoinsEffect
    <2>2. \A u \in Stoppers : StopsOrReturns(u)
      BY <2>1, Reporters, Callers DEF CloseJoinsDoes, StopKeepsAll, StopperReturns,
          OtherStoppers, StoppersTyped, StopsOrReturns
    <2> QED BY <2>2, GoesOnStopping
  <1>15. CASE UNCHANGED stopper
    BY <1>15, GoesOnStopping DEF StopsOrReturns
  <1>16. \/ UNCHANGED stopper
         \/ \E p \in Openers : WarmUp(p) \/ CameraAttaches(p)
         \/ \E c \in Cameras : PumpReports(c) \/ PumpFails(c)
         \/ \E t \in Taps : ImuFails(t) \/ FailureTold(t)
         \/ StopCalled
         \/ CloseCalled
         \/ \E s \in Stoppers :
                 \/ StopTakes(s) \/ StopWaits(s) \/ StopShutsImu(s) \/ StopJoins(s)
                 \/ CloseShutsCamera(s) \/ CloseJoins(s)
    BY DEF SourcesNext, sourceVars, PreviewBegins, CameraOpens, CameraRegisters, PumpLaunches,
        OpenerRaises, TapAttaches, ImuLaunches, ImuFactoryRaises, PumpReads, PumpSnapshots,
        PumpBegins, PumpSubmits, PumpFinishes, PumpReleases, ImuReads, ImuChecks, ImuSubmits,
        ImuReleases
  <1> QED BY <1>1, <1>2, <1>3, <1>4, <1>5, <1>6, <1>7, <1>8, <1>9, <1>10, <1>11, <1>12, <1>13,
      <1>14, <1>15, <1>16

\* A tap that a stop() has just taken to the end is quiet.
LEMMA QuietStep ==
    ASSUME SourcesTypeOK, Pointed, Stopped, [SourcesNext]_sourceVars
    PROVE  \A t \in quiet' \ quiet :
              tap[t].stopping = TRUE /\ tap[t].inflight = 0 /\ tap[t].thread = "ended"
  <1>1. ASSUME NEW s \in Stoppers, StopJoins(s)
        PROVE  \A t \in quiet' \ quiet :
                  tap[t].stopping = TRUE /\ tap[t].inflight = 0 /\ tap[t].thread = "ended"
    <2>1. StopJoinsDoes(s)
      BY <1>1, StopJoinsEffect
    <2>2. CASE UNCHANGED quiet
      BY <2>2
    <2>3. CASE /\ quiet' = quiet \cup {stopper[s].tap}
               /\ tap[stopper[s].tap].thread = "ended" /\ stopper[s].late = FALSE
      BY <2>1, <2>3 DEF StopJoinsDoes, Stopped
    <2> QED BY <2>1, <2>2, <2>3 DEF StopJoinsDoes
  <1>2. CASE UNCHANGED quiet
    BY <1>2
  <1>3. UNCHANGED quiet \/ \E s \in Stoppers : StopJoins(s)
    BY DEF SourcesNext, sourceVars, historyVars, OpenerKeeps, PumpKeeps, ImuKeeps,
        PreviewBegins,
        CameraOpens, CameraRegisters, WarmUp, CameraAttaches, PumpLaunches, OpenerRaises,
        TapAttaches, ImuLaunches, ImuFactoryRaises, PumpReads, PumpSnapshots, PumpBegins,
        PumpSubmits, PumpReports, PumpFinishes, PumpFails, PumpReleases, ImuReads, ImuChecks,
        ImuSubmits, ImuFails, ImuReleases, FailureTold, StopCalled, CloseCalled, StopTakes,
        StopWaits, StopShutsImu, CloseShutsCamera, CloseJoins
  <1> QED BY <1>1, <1>2, <1>3

\* So a tap that is being stopped takes no frame any more.
LEMMA StoppedStep ==
    ASSUME SourcesTypeOK, Pointed, Launched, FlyingCounted, Stopped, [SourcesNext]_sourceVars
    PROVE  Stopped'
  <1>1. Quietens
    BY QuietensStep
  <1>2. \A s \in Stoppers : StopsOn(s)
    BY <1>1, StopsOnStep
  <1>3. \A t \in quiet' \ quiet :
            tap[t].stopping = TRUE /\ tap[t].inflight = 0 /\ tap[t].thread = "ended"
    BY QuietStep
  <1>4. quiet' \subseteq Taps
    BY SharedTyped DEF TypeShared
  <1>5. \A t \in Taps : tap'[t].reported = TRUE \/ t \in quiet' => tap'[t].stopping = TRUE
    BY <1>1, <1>3 DEF Quietens, GatesStayShut, ReportsShut, Stopped
  <1>6. \A t \in quiet' : tap'[t].inflight = 0 /\ tap'[t].thread = "ended"
    <2>1. \A t \in quiet' : t \in Taps /\ tap[t].stopping = TRUE /\ tap[t].inflight = 0
      BY <1>3, <1>4 DEF Stopped
    <2>2. \A t \in quiet' : tap[t].thread = "ended"
      BY <1>3 DEF Stopped
    <2> QED BY <1>1, <2>1, <2>2 DEF Quietens, FlightsEnd, ThreadsEnd
  <1> QED BY <1>2, <1>5, <1>6 DEF StopsOn, Stopped

\* As long as one camera was opened, one thread is at work.
LEMMA OneCamera ==
    ASSUME SourcesTypeOK, Pointed, cameras <= 1, NEW c \in Cameras, pump[c].at # "none"
    PROVE  c = 1
  BY SourcesAssumption DEF SourcesTypeOK, TypeShared, Pointed, PumpsPoint, Cameras

\* There is a first camera.
LEMMA FirstCamera == 1 \in Cameras
  BY SourcesAssumption DEF Cameras

\* The numbers of a tap.
LEMMA TapNumbers ==
    ASSUME SourcesTypeOK, NEW t \in Taps
    PROVE  /\ tap[t].observed \in Nat /\ tap[t].count \in Nat /\ tap[t].start \in Nat
           /\ tap[t].last \in Nat /\ seen \in Nat
  BY DEF SourcesTypeOK, TypeThreads, TypeShared, TapStates

\* The numbers of the first camera's thread.
LEMMA PumpNumbers ==
    ASSUME SourcesTypeOK
    PROVE  /\ pump[1].frame \in Nat /\ pump[1].gap \in {0, 1} /\ seen \in Nat
           /\ cameras \in Nat
  BY FirstCamera DEF SourcesTypeOK, TypeThreads, TypeShared, PumpStates

\* Few steps touch the frames of a tap.
LEMMA FramesStep ==
    ASSUME SourcesTypeOK, Pointed, Launched, [SourcesNext]_sourceVars,
           \A c \in Cameras : ~PumpBegins(c) /\ ~PumpSubmits(c)
    PROVE  \A u \in Taps : FramesKept(u)
  <1> USE SourcesAssumption
      DEF SourceFault, Called, CameraCloses, CameraReads, CameraRaises, OpenerKeeps, OpenerTo,
          PreviewIsOpen, OpenerCloses, Reports, Reported, Report, PumpKeeps, ImuKeeps, ImuTo,
          CallKeeps, StopperKeeps, StopperTo, Returned, lockVars, deviceVars, historyVars
  <1>1. CASE TapAttaches
    <2>1. TapAttachesDoes
      BY <1>1, TapAttachesEffect
    <2> QED BY <2>1 DEF TapAttachesDoes, TapOpened, OtherTaps, FramesKept
  <1>2. CASE ImuLaunches
    <2>1. ImuLaunchesDoes
      BY <1>2, ImuLaunchesEffect
    <2> QED BY <2>1 DEF ImuLaunchesDoes, ImuKeepsAll, ThreadGoes, OtherTaps, FramesKept
  <1>3. ASSUME NEW c \in Cameras, PumpBegins(c) PROVE \A u \in Taps : FramesKept(u)
    BY <1>3
  <1>4. ASSUME NEW c \in Cameras, PumpSubmits(c) PROVE \A u \in Taps : FramesKept(u)
    BY <1>4
  <1>5. ASSUME NEW c \in Cameras, PumpReports(c) PROVE \A u \in Taps : FramesKept(u)
    <2>1. PumpReportsDoes(c)
      BY <1>5, PumpReportsEffect
    <2> QED BY <2>1 DEF PumpReportsDoes, PumpKeepsAll, Reporting, NotReporting, OtherTaps,
        FramesKept
  <1>6. ASSUME NEW c \in Cameras, PumpFinishes(c) PROVE \A u \in Taps : FramesKept(u)
    <2>1. PumpFinishesDoes(c)
      BY <1>6, PumpFinishesEffect
    <2> QED BY <2>1 DEF PumpFinishesDoes, PumpKeepsAll, FrameFinished, OtherTaps, FramesKept
  <1>7. ASSUME NEW c \in Cameras, PumpFails(c) PROVE \A u \in Taps : FramesKept(u)
    <2>1. PumpFailsDoes(c)
      BY <1>7, PumpFailsEffect
    <2> QED BY <2>1 DEF PumpFailsDoes, PumpKeepsAll, Reporting, NotReporting, OtherTaps,
        FramesKept
  <1>8. ASSUME NEW t \in Taps, ImuReads(t) PROVE \A u \in Taps : FramesKept(u)
    <2>1. ImuThreadDoes(t)
      BY <1>8, ImuThreadEffect
    <2> QED BY <2>1 DEF ImuThreadDoes, ImuKeepsAll, ThreadGoes, OtherTaps, FramesKept
  <1>9. ASSUME NEW t \in Taps, ImuChecks(t) PROVE \A u \in Taps : FramesKept(u)
    <2>1. ImuThreadDoes(t)
      BY <1>9, ImuThreadEffect
    <2> QED BY <2>1 DEF ImuThreadDoes, ImuKeepsAll, ThreadGoes, OtherTaps, FramesKept
  <1>10. ASSUME NEW t \in Taps, ImuSubmits(t) PROVE \A u \in Taps : FramesKept(u)
    <2>1. ImuThreadDoes(t)
      BY <1>10, ImuThreadEffect
    <2> QED BY <2>1 DEF ImuThreadDoes, ImuKeepsAll, ThreadGoes, OtherTaps, FramesKept
  <1>11. ASSUME NEW t \in Taps, ImuFails(t) PROVE \A u \in Taps : FramesKept(u)
    <2>1. ImuFailsDoes(t)
      BY <1>11, ImuFailsEffect
    <2> QED BY <2>1 DEF ImuFailsDoes, ImuKeepsAll, Reporting, ThreadGoes, OtherTaps,
        FramesKept
  <1>12. ASSUME NEW t \in Taps, ImuReleases(t) PROVE \A u \in Taps : FramesKept(u)
    <2>1. ImuReleasesDoes(t)
      BY <1>12, ImuReleasesEffect
    <2> QED BY <2>1 DEF ImuReleasesDoes, ImuKeepsAll, ImuReleased, OtherTaps, FramesKept
  <1>13. ASSUME NEW s \in Stoppers, StopTakes(s) PROVE \A u \in Taps : FramesKept(u)
    <2>1. StopTakesDoes(s)
      BY <1>13, StopTakesEffect
    <2> QED BY <2>1 DEF StopTakesDoes, StopKeepsAll, GateShut, OtherTaps, FramesKept
  <1>14. ASSUME NEW s \in Stoppers, StopShutsImu(s) PROVE \A u \in Taps : FramesKept(u)
    <2>1. StopShutsImuDoes(s)
      BY <1>14, StopShutsImuEffect
    <2> QED BY <2>1 DEF StopShutsImuDoes, StopKeepsAll, ImuShut, OtherTaps, FramesKept
  <1>15. CASE UNCHANGED tap
    BY <1>15 DEF FramesKept
  <1>16. \/ UNCHANGED tap
         \/ TapAttaches
         \/ ImuLaunches
         \/ \E c \in Cameras :
                 \/ PumpBegins(c) \/ PumpSubmits(c) \/ PumpReports(c) \/ PumpFinishes(c)
                 \/ PumpFails(c)
         \/ \E t \in Taps :
                 \/ ImuReads(t) \/ ImuChecks(t) \/ ImuSubmits(t) \/ ImuFails(t)
                 \/ ImuReleases(t)
         \/ \E s \in Stoppers : StopTakes(s) \/ StopShutsImu(s)
    BY DEF SourcesNext, sourceVars, PreviewBegins, CameraOpens, CameraRegisters, WarmUp,
        CameraAttaches, PumpLaunches, OpenerRaises, ImuFactoryRaises, PumpReads, PumpSnapshots,
        PumpReleases, FailureTold, StopCalled, CloseCalled, StopWaits, StopJoins,
        CloseShutsCamera, CloseJoins
  <1> QED BY <1>1, <1>2, <1>3, <1>4, <1>5, <1>6, <1>7, <1>8, <1>9, <1>10, <1>11, <1>12, <1>13,
      <1>14, <1>15, <1>16

\* What records is what recorded, or nothing, or a tap that has observed nothing.
Narrows(t) ==
    current' = t /\ tap'[t].stopping = FALSE =>
        (current = t /\ tap[t].stopping = FALSE) \/ tap[t].observed = 0
CurrentMoves ==
    \/ current' = current
    \/ current' = 0
    \/ current' \in Taps /\ tap[current'].observed = 0

\* What records after a step.
LEMMA CurrentMovesStep ==
    ASSUME SourcesTypeOK, Pointed, Untouched, [SourcesNext]_sourceVars
    PROVE  CurrentMoves
  <1> USE SourcesAssumption
      DEF SourceFault, Called, CameraCloses, CameraReads, CameraRaises, OpenerKeeps, OpenerTo,
          PreviewIsOpen, OpenerCloses, Reports, Reported, Report, PumpKeeps, ImuKeeps, ImuTo,
          CallKeeps, StopperKeeps, StopperTo, Returned, lockVars, deviceVars, historyVars
  <1>1. CASE TapAttaches
    <2>1. TapAttachesDoes
      BY <1>1, TapAttachesEffect
    <2>2. taps + 1 \in Taps => tap[taps + 1].observed = 0
      <3>1. NoTap.observed = 0
        BY DEF NoTap
      <3> QED BY <3>1 DEF Untouched, SourcesTypeOK, TypeShared
    <2> QED BY <2>1, <2>2 DEF TapAttachesDoes, CurrentMoves
  <1>2. ASSUME NEW t \in Taps, ImuReleases(t) PROVE CurrentMoves
    <2>1. ImuReleasesDoes(t)
      BY <1>2, ImuReleasesEffect
    <2> QED BY <2>1 DEF ImuReleasesDoes, CurrentMoves
  <1>3. ASSUME NEW s \in Stoppers, StopTakes(s) PROVE CurrentMoves
    <2>1. StopTakesDoes(s)
      BY <1>3, StopTakesEffect
    <2> QED BY <2>1 DEF StopTakesDoes, CurrentMoves
  <1>4. ASSUME NEW s \in Stoppers, CloseJoins(s) PROVE CurrentMoves
    <2>1. CloseJoinsDoes(s)
      BY <1>4, CloseJoinsEffect
    <2> QED BY <2>1 DEF CloseJoinsDoes, CurrentMoves
  <1>5. CASE UNCHANGED current
    BY <1>5 DEF CurrentMoves
  <1>6. \/ UNCHANGED current
        \/ TapAttaches
        \/ \E t \in Taps : ImuReleases(t)
        \/ \E s \in Stoppers : StopTakes(s) \/ CloseJoins(s)
    BY ZenonT(40)
      DEF SourcesNext, sourceVars, PreviewBegins, CameraOpens, CameraRegisters, WarmUp,
        CameraAttaches, PumpLaunches, OpenerRaises, ImuLaunches, ImuFactoryRaises, PumpReads,
        PumpSnapshots, PumpBegins, PumpSubmits, PumpReports, PumpFinishes, PumpFails,
        PumpReleases, ImuReads, ImuChecks, ImuSubmits, ImuFails, FailureTold, StopCalled,
        CloseCalled, StopWaits, StopShutsImu, StopJoins, CloseShutsCamera
  <1> QED BY <1>1, <1>2, <1>3, <1>4, <1>5, <1>6

\* No step opens a gate that was shut, nor makes an old tap current again.
LEMMA NarrowsStep ==
    ASSUME SourcesTypeOK, Pointed, Untouched, Launched, FlyingCounted, [SourcesNext]_sourceVars
    PROVE  \A t \in Taps : Narrows(t)
  <1>1. CurrentMoves
    BY CurrentMovesStep
  <1>2. Quietens
    BY QuietensStep
  <1>3. \A t \in Taps : tap'[t].stopping = FALSE => tap[t].stopping = FALSE
    BY <1>2 DEF Quietens, GatesStayShut, SourcesTypeOK, TypeThreads, TapStates
  <1>4. \A t \in Taps : t # 0
    BY DEF Taps
  <1> QED BY <1>1, <1>3, <1>4 DEF CurrentMoves, Narrows

\* What the camera thread and the taps know of each other goes on as long as neither moves,
LEMMA FollowedKept ==
    ASSUME SourcesTypeOK, Pointed, PumpFollowed, pump'[1] = pump[1], seen' = seen,
           \A t \in Taps : FramesKept(t)
    PROVE  PumpFollowed'
  <1>1. pump[1].at \in Submitting => pump[1].tap \in Taps
    BY FirstCamera, PumpAtTap
  <1> QED BY <1>1 DEF PumpFollowed, FramesKept

\* and a tap that does not move keeps its count of frames.
LEMMA CadenceKept ==
    ASSUME SourcesTypeOK, pump'[1] = pump[1], seen' = seen, NEW t \in Taps, FramesKept(t),
           Narrows(t), Due(t), Follows(t), InStep(t)
    PROVE  Due(t)' /\ Follows(t)' /\ InStep(t)'
  <1>1. Due(t)'
    BY DEF Due, FramesKept
  <1>2. Follows(t)'
    <2>1. Behind' = Behind
      BY DEF Behind
    <2>2. /\ tap'[t].observed = tap[t].observed /\ tap'[t].count = tap[t].count
          /\ tap'[t].start = tap[t].start
      BY DEF FramesKept
    <2>3. current' = t /\ tap'[t].stopping = FALSE /\ tap'[t].observed > 0 =>
            current = t /\ tap[t].stopping = FALSE /\ tap[t].observed > 0
      BY <2>2 DEF Narrows
    <2> QED BY <2>1, <2>2, <2>3 DEF Follows
  <1>3. InStep(t)'
    BY DEF InStep, FramesKept
  <1> QED BY <1>1, <1>2, <1>3

\* and begins with nothing observed.
LEMMA FollowedFirst ==
    ASSUME SourcesTypeOK, PumpFollowed, pump[1].at = "none", pump'[1].at \in {"none", "loop"},
           UNCHANGED tap
    PROVE  Tracks'
  <1>1. \A t \in Taps : tap'[t].observed = 0 /\ tap'[t].count = 0
    BY DEF PumpFollowed
  <1>2. PumpFollowed'
    BY <1>1 DEF PumpFollowed, Submitting
  <1>3. \A t \in Taps : Due(t)' /\ Follows(t)' /\ InStep(t)'
    BY <1>1 DEF Due, Follows, InStep
  <1> QED BY <1>2, <1>3 DEF Tracks

\* Nothing is asked of a camera thread that leaves,
LEMMA TracksLeft ==
    ASSUME SourcesTypeOK, Tracks, pump'[1].at \in {"fail", "release", "ended"},
           \A t \in Taps : FramesKept(t)
    PROVE  Tracks'
  <1>1. PumpFollowed'
    BY DEF Tracks, PumpFollowed, FramesKept, Submitting
  <1>2. \A t \in Taps : Due(t)' /\ Follows(t)'
    BY DEF Due, Follows, Submitting
  <1>3. \A t \in Taps : InStep(t)'
    BY DEF Tracks, InStep, FramesKept
  <1> QED BY <1>1, <1>2, <1>3 DEF Tracks

\* and it is the same in the next step of one that goes on: it reads a frame,
LEMMA TracksReads ==
    ASSUME SourcesTypeOK, Pointed, cameras <= 1, Tracks, NEW c \in Cameras, PumpReads(c)
    PROVE  Tracks'
  <1>1. PumpReadsDoes(1) /\ pump[1].at = "loop"
    BY PumpReadsEffect, OneCamera DEF PumpReadsDoes
  <1>2. UNCHANGED <<tap, current>>
    BY <1>1 DEF PumpReadsDoes, PumpKeepsAll
  <1>3. CASE PumpGoes(1, "release") \/ PumpGoes(1, "fail")
    BY <1>2, <1>3, TracksLeft DEF PumpGoes, PumpMoved, FramesKept
  <1>4. CASE /\ PumpMoved(1, "snapshot") /\ pump'[1].gap \in {0, 1}
             /\ seen' = seen + 1 + pump'[1].gap /\ pump'[1].frame = seen'
    <2>1. pump'[1].at = "snapshot" /\ pump'[1].frame = seen'
      BY <1>4 DEF PumpMoved
    <2>2. PumpFollowed'
      BY <1>2, <2>1 DEF Tracks, PumpFollowed, Submitting
    <2>3. \A t \in Taps : Due(t)' /\ InStep(t)'
      BY <1>2, <2>1 DEF Tracks, Due, InStep
    <2>4. ASSUME NEW t \in Taps, current = t, tap[t].stopping = FALSE, tap[t].observed > 0
          PROVE  /\ tap[t].count > 0 /\ tap[t].start + tap[t].observed - 1 + Behind' = seen'
                 /\ Decimation * (tap[t].count - 1) < tap[t].observed
                 /\ tap[t].observed <= Decimation * tap[t].count
      <3>1. Follows(t)
        BY DEF Tracks
      <3>2. /\ tap[t].count > 0 /\ tap[t].start + tap[t].observed - 1 + Behind = seen
            /\ Decimation * (tap[t].count - 1) < tap[t].observed
            /\ tap[t].observed <= Decimation * tap[t].count
        BY <1>1, <2>4, <3>1 DEF Follows
      <3>3. Behind = 0 /\ Behind' = pump'[1].gap + 1
        BY <1>1, <2>1 DEF Behind
      <3>4. tap[t].start + tap[t].observed - 1 = seen
        BY <3>2, <3>3, TapNumbers
      <3>5. tap[t].start + tap[t].observed - 1 + (pump'[1].gap + 1) = seen'
        BY <1>4, <3>4, TapNumbers
      <3> QED BY <3>2, <3>3, <3>5
    <2>5. \A t \in Taps : Follows(t)'
      BY <1>2, <2>1, <2>4 DEF Follows, Submitting
    <2> QED BY <2>2, <2>3, <2>5 DEF Tracks
  <1> QED BY <1>1, <1>3, <1>4 DEF PumpReadsDoes

\* looks for a tap,
LEMMA TracksSnapshots ==
    ASSUME SourcesTypeOK, Pointed, cameras <= 1, Tracks, NEW c \in Cameras, PumpSnapshots(c)
    PROVE  Tracks'
  <1>1. PumpSnapshotsDoes(1) /\ pump[1].at = "snapshot"
    BY PumpSnapshotsEffect, OneCamera DEF PumpSnapshotsDoes
  <1>2. UNCHANGED <<tap, current, seen>>
    BY <1>1 DEF PumpSnapshotsDoes, PumpKeepsAll
  <1>3. CASE PumpGoes(1, "release")
    BY <1>2, <1>3, TracksLeft DEF PumpGoes, PumpMoved, FramesKept
  <1>4. CASE current = 0 /\ PumpGoes(1, "loop")
    <2>1. pump'[1].at = "loop" /\ \A t \in Taps : current' # t
      BY <1>2, <1>4 DEF PumpGoes, PumpMoved, Taps
    <2>2. PumpFollowed'
      BY <1>2, <2>1 DEF Tracks, PumpFollowed, Submitting
    <2>3. \A t \in Taps : Due(t)' /\ Follows(t)' /\ InStep(t)'
      BY <1>2, <2>1 DEF Tracks, Due, Follows, InStep
    <2> QED BY <2>2, <2>3 DEF Tracks
  <1>5. CASE /\ current # 0 /\ PumpMoved(1, "begin") /\ pump'[1].tap = current
             /\ pump'[1].gap = pump[1].gap /\ pump'[1].frame = pump[1].frame
    <2>1. pump'[1].at = "begin" /\ pump'[1].tap = current' /\ Behind' = Behind
      BY <1>1, <1>2, <1>5 DEF PumpMoved, Behind
    <2>2. PumpFollowed'
      BY <1>1, <1>2, <1>5, <2>1 DEF Tracks, PumpFollowed, Submitting
    <2>3. \A t \in Taps : Due(t)' /\ InStep(t)'
      BY <1>2, <2>1 DEF Tracks, Due, InStep
    <2>4. \A t \in Taps : Follows(t)'
      BY <1>1, <1>2, <2>1 DEF Tracks, Follows, Submitting
    <2> QED BY <2>2, <2>3, <2>4 DEF Tracks
  <1> QED BY <1>1, <1>3, <1>4, <1>5 DEF PumpSnapshotsDoes

\* hands the frame to it, or does not,
LEMMA TracksBegins ==
    ASSUME SourcesTypeOK, Pointed, cameras <= 1, Tracks, NEW c \in Cameras, PumpBegins(c)
    PROVE  Tracks'
  <1>1. PumpBeginsDoes(1) /\ pump[1].at = "begin"
    BY PumpBeginsEffect, OneCamera DEF PumpBeginsDoes
  <1>2. UNCHANGED <<current, seen>> /\ pump[1].tap \in Taps
    BY <1>1 DEF PumpBeginsDoes, PumpKeepsAll
  <1>3. CASE UNCHANGED tap /\ PumpGoes(1, "loop") /\ ~GateOpen(pump[1].tap)
    <2>1. pump'[1].at = "loop"
      BY <1>3 DEF PumpGoes, PumpMoved
    <2>2. PumpFollowed'
      BY <1>3, <2>1 DEF Tracks, PumpFollowed, Submitting
    <2>3. \A t \in Taps : Due(t)' /\ InStep(t)'
      BY <1>3, <2>1 DEF Tracks, Due, InStep
    <2>4. ASSUME NEW t \in Taps, current = t, tap[t].stopping = FALSE, tap[t].observed > 0
          PROVE  FALSE
      <3>1. pump[1].tap = t
        BY <1>1, <2>4 DEF Tracks, Follows
      <3> QED BY <1>3, <2>4, <3>1 DEF GateOpen
    <2>5. \A t \in Taps : Follows(t)'
      BY <1>2, <1>3, <2>4 DEF Follows
    <2> QED BY <2>2, <2>3, <2>5 DEF Tracks
  <1>4. ASSUME NEW gap \in {0, 1}, NEW taken \in BOOLEAN, Observes(1, pump[1].tap, gap, taken)
        PROVE  Tracks'
    <2>1. PICK t \in Taps : t = pump[1].tap
      BY <1>2
    <2>2. /\ current = t /\ tap[t].stopping = FALSE
          /\ gap = IF tap[t].observed = 0 THEN 0 ELSE pump[1].gap
          /\ taken <=> tap[t].observed = 0 \/ Wanted(t, gap)
          /\ IF taken THEN PumpTakes(1, gap) ELSE PumpGoes(1, "loop")
      BY <1>4, <2>1 DEF Observes
    <2>3. /\ tap'[t].observed = tap[t].observed + gap + 1 /\ tap'[t].count = tap[t].count
          /\ tap'[t].start = tap[t].start /\ tap'[t].last = tap[t].last
          /\ \A u \in Taps \ {t} : tap'[u] = tap[u]
      BY <1>4, <2>1 DEF Observes, FrameObserved, OtherTaps
    <2>4. /\ tap[t].observed \in Nat /\ tap'[t].observed \in Nat /\ tap'[t].observed > 0
          /\ tap[t].count \in Nat /\ tap[t].start \in Nat /\ seen \in Nat
      BY <2>3, TapNumbers
    <2>5. \A u \in Taps : InStep(u)'
      BY <2>3 DEF Tracks, InStep
    <2>6. \A u \in Taps \ {t} : Follows(u)'
      BY <1>2, <2>2 DEF Follows
    <2>7. \A u \in Taps : tap'[u].observed = 0 => tap'[u].count = 0
      BY <2>3, <2>4 DEF Tracks, PumpFollowed
    <2>8. ASSUME tap[t].observed > 0, gap = 0
          PROVE  /\ tap[t].count > 0 /\ tap[t].start + tap[t].observed = seen
                 /\ Decimation * (tap[t].count - 1) < tap[t].observed
                 /\ tap[t].observed <= Decimation * tap[t].count
                 /\ tap[t].observed % Decimation = 0 <=>
                       tap[t].observed = Decimation * tap[t].count
      <3>1. Follows(t)
        BY DEF Tracks
      <3>2. /\ tap[t].count > 0 /\ tap[t].start + tap[t].observed - 1 + Behind = seen
            /\ Decimation * (tap[t].count - 1) < tap[t].observed
            /\ tap[t].observed <= Decimation * tap[t].count
        BY <1>1, <2>2, <2>8, <3>1 DEF Follows
      <3>3. Behind = 1
        BY <1>1, <2>2, <2>8 DEF Behind
      <3>4. tap[t].observed % Decimation = 0 <=> tap[t].observed = Decimation * tap[t].count
        <4>1. Decimation \in Nat \ {0}
          BY SourcesAssumption
        <4>2. tap[t].count \in Nat \ {0} /\ tap[t].observed \in Nat
          BY <2>4, <3>2
        <4> QED BY <3>2, <4>1, <4>2, Multiple
      <3> QED BY <2>4, <3>2, <3>3, <3>4
    <2>9. CASE taken
      <3>1. /\ pump'[1].at = "submit" /\ pump'[1].tap = t
            /\ pump'[1].gap = gap /\ pump'[1].frame = seen
        BY <1>1, <2>1, <2>2, <2>9 DEF PumpTakes, PumpMoved, Tracks, PumpFollowed
      <3>2. PumpFollowed'
        BY <1>2, <2>4, <2>7, <3>1 DEF PumpFollowed, Submitting
      <3>3. ASSUME gap = 0
            PROVE  /\ tap'[t].observed = Decimation * tap[t].count + 1
                   /\ tap[t].count > 0 => tap[t].start + tap'[t].observed - 1 = seen
                   /\ tap[t].count > 0 => seen = tap[t].start + Decimation * tap[t].count
        <4>1. CASE tap[t].observed = 0
          <5>1. tap[t].count = 0
            BY <4>1 DEF Tracks, PumpFollowed
          <5> QED BY <2>3, <2>4, <3>3, <4>1, <5>1, SourcesAssumption
        <4>2. CASE tap[t].observed > 0
          <5>1. tap[t].observed = Decimation * tap[t].count
            BY <2>2, <2>8, <2>9, <3>3, <4>2 DEF Wanted
          <5> QED BY <2>3, <2>4, <2>8, <3>3, <4>2, <5>1
        <4> QED BY <2>4, <4>1, <4>2
      <3>4. Follows(t)'
        BY <1>2, <2>3, <3>1, <3>3 DEF Follows, Submitting
      <3>5. \A u \in Taps : Due(u)'
        BY <1>2, <2>3, <3>1, <3>3 DEF Due
      <3> QED BY <2>5, <2>6, <3>2, <3>4, <3>5 DEF Tracks
    <2>10. CASE ~taken
      <3>1. pump'[1].at = "loop"
        BY <2>2, <2>10 DEF PumpGoes, PumpMoved
      <3>2. PumpFollowed'
        BY <2>7, <3>1 DEF PumpFollowed, Submitting
      <3>3. \A u \in Taps : Due(u)'
        BY <3>1 DEF Due
      <3>4. tap[t].observed > 0 /\ gap = 0 /\ tap[t].observed % Decimation # 0
        BY <2>2, <2>4, <2>10 DEF Wanted
      <3>5. Behind' = 0
        BY <3>1 DEF Behind
      <3>6. /\ tap'[t].start + tap'[t].observed - 1 + Behind' = seen
            /\ Decimation * (tap'[t].count - 1) < tap'[t].observed
        BY <2>3, <2>4, <2>8, <3>4, <3>5, SourcesAssumption
      <3>7. tap'[t].observed <= Decimation * tap'[t].count
        <4>1. tap[t].observed < Decimation * tap[t].count /\ Decimation * tap[t].count \in Nat
          BY <2>4, <2>8, <3>4, SourcesAssumption
        <4> QED BY <2>3, <2>4, <3>4, <4>1
      <3>8. tap'[t].count > 0
        BY <2>3, <2>8, <3>4
      <3>9. Follows(t)'
        BY <1>2, <3>1, <3>6, <3>7, <3>8 DEF Follows, Submitting
      <3> QED BY <2>5, <2>6, <3>2, <3>3, <3>9 DEF Tracks
    <2> QED BY <2>9, <2>10
  <1> QED BY <1>1, <1>3, <1>4 DEF PumpBeginsDoes

\* submits it,
LEMMA TracksSubmits ==
    ASSUME SourcesTypeOK, Pointed, cameras <= 1, Tracks, NEW c \in Cameras, PumpSubmits(c)
    PROVE  Tracks'
  <1>1. PumpSubmitsDoes(1) /\ pump[1].at = "submit"
    BY PumpSubmitsEffect, OneCamera DEF PumpSubmitsDoes
  <1>2. UNCHANGED <<current, seen>> /\ pump[1].tap \in Taps
    BY <1>1 DEF PumpSubmitsDoes, PumpKeepsAll
  <1>3. CASE UNCHANGED tap /\ PumpGoes(1, "report")
    <2>1. pump'[1].at = "report" /\ pump'[1].tap = pump[1].tap
      BY <1>3 DEF PumpGoes, PumpMoved, PumpHolds
    <2>2. PumpFollowed'
      BY <1>1, <1>3, <2>1 DEF Tracks, PumpFollowed, Submitting
    <2>3. \A t \in Taps : Due(t)' /\ InStep(t)'
      BY <1>3, <2>1 DEF Tracks, Due, InStep
    <2>4. \A t \in Taps : Follows(t)'
      BY <1>1, <1>2, <1>3, <2>1 DEF Tracks, Follows, Submitting
    <2> QED BY <2>2, <2>3, <2>4 DEF Tracks
  <1>4. CASE /\ FrameTaken(pump[1].tap, pump[1].frame) /\ pump[1].gap = 0
             /\ PumpGoes(1, "finish")
    <2>1. PICK t \in Taps : t = pump[1].tap
      BY <1>2
    <2>2. pump'[1].at = "finish" /\ pump'[1].tap = t /\ pump[1].frame = seen
      BY <1>1, <1>4, <2>1 DEF PumpGoes, PumpMoved, PumpHolds, Tracks, PumpFollowed
    <2>3. /\ tap'[t].observed = tap[t].observed /\ tap'[t].count = tap[t].count + 1
          /\ tap'[t].start = (IF tap[t].count = 0 THEN seen ELSE tap[t].start)
          /\ tap'[t].last = seen /\ tap'[t].stopping = tap[t].stopping
          /\ \A u \in Taps \ {t} : tap'[u] = tap[u]
      BY <1>4, <2>1, <2>2 DEF FrameTaken, OtherTaps, GateKept
    <2>4. /\ tap[t].observed \in Nat /\ tap[t].count \in Nat /\ tap[t].start \in Nat
          /\ seen \in Nat /\ tap[t].observed > 0
      BY <1>1, <2>1, TapNumbers DEF Tracks, PumpFollowed, Submitting
    <2>5. PumpFollowed'
      BY <2>2, <2>3, <2>4 DEF Tracks, PumpFollowed, Submitting
    <2>6. \A u \in Taps : Due(u)'
      BY <2>2 DEF Due
    <2>7. InStep(t)'
      <3>1. CASE tap[t].count = 0
        <4>1. tap'[t].count - 1 = 0 /\ tap'[t].last = tap'[t].start
          BY <2>3, <3>1
        <4>2. Decimation * 0 = 0 /\ tap'[t].start \in Nat
          BY <2>3, <2>4, <3>1, SourcesAssumption
        <4> QED BY <4>1, <4>2 DEF InStep
      <3>2. CASE tap[t].count > 0
        <4>1. seen = tap[t].start + Decimation * tap[t].count
          BY <1>1, <1>4, <2>1, <3>2 DEF Tracks, Due
        <4>2. tap'[t].count - 1 = tap[t].count
          BY <2>3, <2>4
        <4> QED BY <2>3, <3>2, <4>1, <4>2 DEF InStep
      <3> QED BY <2>4, <3>1, <3>2
    <2>8. \A u \in Taps \ {t} : InStep(u)'
      BY <2>3 DEF Tracks, InStep
    <2>9. ASSUME current = t, tap[t].stopping = FALSE
          PROVE  /\ tap'[t].count > 0 /\ tap'[t].start + tap'[t].observed - 1 + Behind' = seen
                 /\ Decimation * (tap'[t].count - 1) < tap'[t].observed
                 /\ tap'[t].observed <= Decimation * tap'[t].count
      <3>1. Follows(t)
        BY DEF Tracks
      <3>2. /\ tap[t].observed = Decimation * tap[t].count + 1
            /\ tap[t].count > 0 => tap[t].start + tap[t].observed - 1 = seen
        BY <1>1, <1>4, <2>4, <2>9, <3>1 DEF Follows
      <3>3. Behind' = 0
        BY <2>2 DEF Behind
      <3>4. Decimation * (tap[t].count + 1) = Decimation * tap[t].count + Decimation
        BY <2>4, SourcesAssumption
      <3>5. Decimation * tap[t].count \in Nat /\ tap'[t].count - 1 = tap[t].count
        BY <2>3, <2>4, SourcesAssumption
      <3>6. tap[t].count = 0 => tap[t].observed = 1
        BY <3>2, SourcesAssumption
      <3>7. tap'[t].start + tap'[t].observed - 1 + Behind' = seen
        BY <2>3, <2>4, <3>2, <3>3, <3>6
      <3>8. tap'[t].observed <= Decimation * tap'[t].count
        BY <2>3, <2>4, <3>2, <3>4, <3>5, SourcesAssumption
      <3> QED BY <2>3, <2>4, <3>2, <3>5, <3>7, <3>8
    <2>10. Follows(t)'
      BY <1>2, <2>2, <2>3, <2>9 DEF Follows, Submitting
    <2>11. \A u \in Taps \ {t} : Follows(u)'
      <3>1. ASSUME NEW u \in Taps \ {t}, current = u, tap[u].stopping = FALSE, tap[u].observed > 0
            PROVE  FALSE
        BY <1>1, <2>1, <3>1 DEF Tracks, Follows, Submitting
      <3> QED BY <1>2, <2>3, <3>1 DEF Follows
    <2> QED BY <2>5, <2>6, <2>7, <2>8, <2>10, <2>11 DEF Tracks
  <1> QED BY <1>1, <1>3, <1>4 DEF PumpSubmitsDoes

\* reports that it could not: the tap takes nothing any more,
LEMMA TracksReports ==
    ASSUME SourcesTypeOK, Pointed, Stopped, cameras <= 1, Tracks, NEW c \in Cameras,
           PumpReports(c)
    PROVE  Tracks'
  <1>1. PumpReportsDoes(1) /\ pump[1].at = "report"
    BY PumpReportsEffect, OneCamera DEF PumpReportsDoes
  <1>2. UNCHANGED <<current, seen>> /\ pump[1].tap \in Taps
    BY <1>1 DEF PumpReportsDoes, PumpKeepsAll
  <1>3. pump'[1].at = "finish" /\ pump'[1].tap = pump[1].tap
    BY <1>1 DEF PumpReportsDoes, PumpGoes, PumpMoved, PumpHolds
  <1>4. \A t \in Taps : FramesKept(t)
    BY <1>1 DEF PumpReportsDoes, Reporting, NotReporting, OtherTaps, FramesKept
  <1>5. PumpFollowed'
    BY <1>1, <1>2, <1>3, <1>4 DEF Tracks, PumpFollowed, FramesKept, Submitting
  <1>6. \A t \in Taps : Due(t)' /\ InStep(t)'
    BY <1>3, <1>4 DEF Tracks, Due, InStep, FramesKept
  <1>7. ASSUME NEW t \in Taps, current = t, tap'[t].stopping = FALSE, tap[t].observed > 0
        PROVE  FALSE
    <2>1. tap[t].stopping = FALSE
      BY <1>1, <1>7 DEF PumpReportsDoes, Reporting, NotReporting, OtherTaps, SourcesTypeOK,
          TypeThreads, TapStates
    <2>2. pump[1].tap = t
      BY <1>1, <1>7, <2>1 DEF Tracks, Follows, Submitting
    <2>3. NotReporting(t)
      BY <1>1, <1>7, <2>2 DEF PumpReportsDoes, Reporting
    <2>4. tap[t].reported = TRUE
      BY <1>7, <2>3 DEF NotReporting
    <2> QED BY <2>1, <2>4 DEF Stopped
  <1>8. \A t \in Taps : Follows(t)'
    BY <1>2, <1>4, <1>7 DEF Follows, FramesKept
  <1> QED BY <1>5, <1>6, <1>8 DEF Tracks

\* and is done with it.
LEMMA TracksFinishes ==
    ASSUME SourcesTypeOK, Pointed, cameras <= 1, Tracks, NEW c \in Cameras, PumpFinishes(c)
    PROVE  Tracks'
  <1>1. PumpFinishesDoes(1) /\ pump[1].at = "finish"
    BY PumpFinishesEffect, OneCamera DEF PumpFinishesDoes
  <1>2. UNCHANGED <<current, seen>> /\ pump[1].tap \in Taps
    BY <1>1 DEF PumpFinishesDoes, PumpKeepsAll
  <1>3. pump'[1].at = "loop"
    BY <1>1 DEF PumpFinishesDoes, PumpGoes, PumpMoved
  <1>4. \A t \in Taps : FramesKept(t) /\ tap'[t].stopping = tap[t].stopping
    BY <1>1 DEF PumpFinishesDoes, FrameFinished, OtherTaps, FramesKept, GateKept
  <1>5. PumpFollowed'
    BY <1>3, <1>4 DEF Tracks, PumpFollowed, FramesKept, Submitting
  <1>6. \A t \in Taps : Due(t)' /\ InStep(t)'
    BY <1>3, <1>4 DEF Tracks, Due, InStep, FramesKept
  <1>7. Behind = 0 /\ Behind' = 0
    BY <1>1, <1>3 DEF Behind
  <1>8. \A t \in Taps : Follows(t)'
    BY <1>1, <1>2, <1>3, <1>4, <1>7 DEF Tracks, Follows, FramesKept, Submitting
  <1> QED BY <1>5, <1>6, <1>8 DEF Tracks

\* With one camera, all the steps keep the cadence.
LEMMA CadenceStep ==
    ASSUME SourcesTypeOK, Pointed, FreshCameras, Untouched, Launched, FlyingCounted, Stopped,
           Cadence, [SourcesNext]_sourceVars
    PROVE  Cadence'
  <1> SUFFICES ASSUME cameras' <= 1 PROVE Tracks'
    BY DEF Cadence
  <1>1. cameras <= 1 /\ Tracks
    <2>1. cameras <= cameras'
      BY CurrentStep
    <2>2. cameras \in Nat /\ cameras' \in Nat
      BY SharedTyped DEF SourcesTypeOK, TypeShared
    <2>3. cameras <= 1
      BY <2>1, <2>2
    <2> QED BY <2>3 DEF Cadence
  <1>2. ASSUME NEW c \in Cameras, PumpBegins(c) \/ PumpSubmits(c) PROVE Tracks'
    BY <1>1, <1>2, TracksBegins, TracksSubmits
  <1>3. CASE \A c \in Cameras : ~PumpBegins(c) /\ ~PumpSubmits(c)
    <2>1. \A t \in Taps : FramesKept(t)
      BY <1>3, FramesStep
    <2>2. ASSUME pump'[1] = pump[1], seen' = seen PROVE Tracks'
      <3>1. PumpFollowed'
        BY <1>1, <2>1, <2>2, FollowedKept DEF Tracks
      <3>2. \A t \in Taps : Narrows(t)
        BY NarrowsStep
      <3>3. \A t \in Taps : Due(t)' /\ Follows(t)' /\ InStep(t)'
        BY <1>1, <2>1, <2>2, <3>2, CadenceKept DEF Tracks
      <3> QED BY <3>1, <3>3 DEF Tracks
    <2>3. ASSUME NEW c \in Cameras,
                 PumpReads(c) \/ PumpSnapshots(c) \/ PumpReports(c) \/ PumpFinishes(c)
          PROVE  Tracks'
      BY <1>1, <2>3, TracksReads, TracksSnapshots, TracksReports, TracksFinishes
    <2>4. ASSUME NEW c \in Cameras, PumpFails(c) PROVE Tracks'
      <3>1. PumpFailsDoes(1)
        BY <1>1, <2>4, PumpFailsEffect, OneCamera DEF PumpFailsDoes
      <3> QED BY <1>1, <2>1, <3>1, TracksLeft DEF PumpFailsDoes, PumpGoes, PumpMoved
    <2>5. ASSUME NEW c \in Cameras, PumpReleases(c) PROVE Tracks'
      <3>1. PumpReleasesDoes(1)
        BY <1>1, <2>5, PumpReleasesEffect, OneCamera DEF PumpReleasesDoes
      <3> QED BY <1>1, <2>1, <3>1, TracksLeft DEF PumpReleasesDoes, PumpGoes, PumpMoved
    <2>6. ASSUME NEW p \in Openers, PumpLaunches(p) PROVE Tracks'
      <3>1. PumpLaunchesDoes(p)
        BY <2>6, PumpLaunchesEffect
      <3>2. opener[p].camera = 1 /\ pump[1].at = "none"
        <4>1. opener[p].at \in Holding
          BY <3>1 DEF PumpLaunchesDoes, Holding
        <4>2. opener[p].camera \in 1..cameras /\ cameras \in Nat
          BY <4>1 DEF Pointed, OpenersPoint, SourcesTypeOK, TypeShared
        <4>3. opener[p].camera = 1
          BY <1>1, <4>2
        <4> QED BY <4>1, <4>3 DEF FreshCameras
      <3>3. pump'[1].at = "loop" /\ UNCHANGED tap
        BY <3>1, <3>2 DEF PumpLaunchesDoes, PumpMoved, OpenerAlone
      <3> QED BY <1>1, <3>2, <3>3, FollowedFirst DEF Tracks
    <2>7. ASSUME NEW p \in Openers, CameraOpens(p) PROVE Tracks'
      <3>1. UNCHANGED <<pump, tap>>
        BY <2>7 DEF CameraOpens
      <3>2. CASE UNCHANGED seen
        BY <2>2, <3>1, <3>2
      <3>3. CASE cameras' = cameras + 1
        <4>1. pump[1].at = "none"
          BY <3>3, FirstCamera, PumpNumbers DEF Pointed, PumpsPoint
        <4> QED BY <1>1, <3>1, <4>1, FollowedFirst DEF Tracks
      <3> QED BY <2>7, <3>2, <3>3 DEF CameraOpens
    <2>8. ASSUME NEW p \in Openers, WarmUp(p) PROVE Tracks'
      <3>1. UNCHANGED <<pump, tap>> /\ opener[p].at \in Holding
        BY <2>8 DEF WarmUp, Holding
      <3>2. opener[p].camera \in 1..cameras /\ cameras \in Nat
        BY <3>1 DEF Pointed, OpenersPoint, SourcesTypeOK, TypeShared
      <3>3. opener[p].camera = 1
        BY <1>1, <3>2
      <3>4. pump[1].at = "none"
        BY <3>1, <3>3 DEF FreshCameras
      <3> QED BY <1>1, <3>1, <3>4, FollowedFirst DEF Tracks
    <2>9. CASE UNCHANGED <<pump, seen>>
      BY <2>2, <2>9
    <2>10. \/ UNCHANGED <<pump, seen>>
           \/ \E p \in Openers : PumpLaunches(p) \/ CameraOpens(p) \/ WarmUp(p)
           \/ \E c \in Cameras :
                 \/ PumpReads(c) \/ PumpSnapshots(c) \/ PumpReports(c) \/ PumpFinishes(c)
                 \/ PumpFails(c) \/ PumpReleases(c)
      BY <1>3 DEF SourcesNext, sourceVars, deviceVars, OpenerKeeps, ImuKeeps, CallKeeps,
          StopperKeeps,
          PreviewBegins, CameraRegisters, CameraAttaches, OpenerRaises, TapAttaches, ImuLaunches,
          ImuFactoryRaises, ImuReads, ImuChecks, ImuSubmits, ImuFails, ImuReleases, FailureTold,
          StopCalled, CloseCalled, StopTakes, StopWaits, StopShutsImu, StopJoins,
          CloseShutsCamera, CloseJoins
    <2> QED BY <2>3, <2>4, <2>5, <2>6, <2>7, <2>8, <2>9, <2>10
  <1> QED BY <1>2, <1>3

-----------------------------------------------------------------------------
(* The theorems *)

\* Every step keeps the types.
LEMMA SourcesTyped ==
    ASSUME SourcesTypeOK, Pointed, Launched, [SourcesNext]_sourceVars
    PROVE  SourcesTypeOK'
  <1>1. tap' \in [Taps -> TapStates] /\ stopper' \in [Stoppers -> StopperStates]
    BY TapsStep, StoppersStep DEF TapsTyped, StoppersTyped
  <1>2. pump' \in [Cameras -> PumpStates] /\ opener' \in [Openers -> OpenerStates]
    BY PumpsStep, OpenersTyped
  <1>3. TypeShared'
    BY SharedTyped
  <1> QED BY <1>1, <1>2, <1>3 DEF SourcesTypeOK, TypeThreads

\* The sources begin with no camera, no tap and nobody at work.
LEMMA SourcesBegin == ASSUME SourcesInit PROVE SourcesInv
  <1> USE SourcesAssumption DEF SourcesInit
  <1>1. 0 \in 0..MaxTaps /\ 0 \in 0..MaxCameras
    OBVIOUS
  <1>2. TypeThreads
    <2>1. NoPump \in PumpStates
      BY <1>1 DEF NoPump, PumpStates, PumpSteps
    <2>2. NoTap \in TapStates
      BY DEF NoTap, TapStates, ImuStates, ImuSteps
    <2>3. Idle \in StopperStates
      BY StopperIdle DEF StopperSteps
    <2>4. [at |-> "idle", camera |-> 0] \in OpenerStates
      BY <1>1 DEF OpenerStates, OpenerSteps
    <2> QED BY <2>1, <2>2, <2>3, <2>4 DEF TypeThreads
  <1>3. TypeShared
    <2>1. told \in [Taps -> Nat] /\ quiet \subseteq Taps
      OBVIOUS
    <2>2. stopSet \in BOOLEAN /\ closedWell \in BOOLEAN
      OBVIOUS
    <2>3. /\ handles \in Int /\ seen \in Nat /\ sourceFaults \in Nat /\ calls \in Nat
          /\ registered \in 0..MaxCameras /\ attached \in 0..MaxCameras
          /\ streaming \in 0..MaxCameras /\ cameras \in 0..MaxCameras
          /\ current \in 0..MaxTaps /\ taps \in 0..MaxTaps
      BY <1>1
    <2> QED BY <2>1, <2>2, <2>3 DEF TypeShared
  <1>4. NoPump.at = "none" /\ Idle.at = "idle"
    BY DEF NoPump, Idle
  <1>5. /\ NoTap.imu = "none" /\ NoTap.thread = "none"
        /\ NoTap.inflight = 0 /\ NoTap.observed = 0 /\ NoTap.count = 0
    BY DEF NoTap
  <1>6. NoTap.reported = FALSE
    BY DEF NoTap
  <1>7. /\ \A c \in Cameras : pump[c].at = "none"
        /\ \A s \in Stoppers : stopper[s].at = "idle"
        /\ \A p \in Openers : opener[p].at = "idle"
        /\ \A t \in Taps : tap[t] = NoTap
    BY <1>4
  <1>8. Pointed /\ FreshCameras
    BY <1>1, <1>7 DEF Pointed, OpenersPoint, PumpsPoint, StoppersPoint, FreshCameras, Holding,
        Submitting
  <1>9. Untouched /\ Launched
    BY <1>7 DEF Untouched, Launched, Openers
  <1>10. ImuHeld
    BY DEF ImuHeld, Taps
  <1>11. HandlesHeld
    <2>1. OpenImus = {}
      BY <1>5, <1>7 DEF OpenImus
    <2> QED BY <2>1, FS_EmptySet DEF HandlesHeld
  <1>12. Told
    BY <1>7, Reporters DEF Told
  <1>13. FlyingCounted
    <2>1. \A t \in Taps : Flying(t) = {}
      BY <1>7 DEF Flying, Submitting
    <2> QED BY <1>5, <1>7, <2>1, FS_EmptySet DEF FlyingCounted
  <1>14. Stopped
    <2>1. \A t \in Taps : tap[t].reported = FALSE
      BY <1>6, <1>7
    <2> QED BY <1>7, <2>1 DEF Stopped
  <1>15. Cadence
    <2>1. pump[1].at = "none"
      BY <1>7, FirstCamera
    <2>2. \A t \in Taps : tap[t].observed = 0 /\ tap[t].count = 0
      BY <1>5, <1>7
    <2> QED BY <2>1, <2>2 DEF Cadence, Tracks, PumpFollowed, Due, Follows, InStep, Submitting
  <1> QED BY <1>2, <1>3, <1>8, <1>9, <1>10, <1>11, <1>12, <1>13, <1>14, <1>15
      DEF SourcesInv, SourcesTypeOK

\* Every step keeps the inductive invariant, one conjunct after the other.
LEMMA SourcesInvKept == ASSUME SourcesInv, [SourcesNext]_sourceVars PROVE SourcesInv'
  <1>1. /\ SourcesTypeOK /\ Pointed /\ FreshCameras /\ Untouched /\ Launched /\ ImuHeld
        /\ HandlesHeld /\ Told /\ FlyingCounted /\ Stopped /\ Cadence
    BY DEF SourcesInv
  <1>2. SourcesTypeOK'
    BY <1>1, SourcesTyped
  <1>3. Pointed'
    BY <1>1, CurrentStep, OpenersPointStep, PumpsPointStep, StoppersPointStep DEF Pointed
  <1>4. FreshCameras'
    BY <1>1, FreshCamerasStep
  <1>5. Untouched' /\ Launched'
    BY <1>1, UntouchedStep, LaunchedStep
  <1>6. ImuHeld' /\ HandlesHeld'
    BY <1>1, ImuHeldStep, HandlesHeldStep
  <1>7. Told'
    BY <1>1, ToldStep
  <1>8. FlyingCounted' /\ Stopped'
    BY <1>1, FlyingCountedStep, StoppedStep
  <1>9. Cadence'
    BY <1>1, CadenceStep
  <1> QED BY <1>2, <1>3, <1>4, <1>5, <1>6, <1>7, <1>8, <1>9 DEF SourcesInv

\* The inductive invariant is at least as strong as what the run checks.
LEMMA SourcesInvSafe == ASSUME SourcesInv PROVE SourcesSafe
  <1>1. /\ SourcesTypeOK /\ HandlesHeld /\ Told /\ FlyingCounted /\ Stopped /\ Cadence
    BY DEF SourcesInv
  <1>2. StoppedIsQuiet
    <2>1. ASSUME NEW t \in quiet
          PROVE  /\ tap[t].thread = "ended" /\ tap[t].inflight = 0
                 /\ \A c \in Cameras :
                       pump[c].at \in {"submit", "report", "finish"} => pump[c].tap # t
      <3>1. t \in Taps
        BY <1>1 DEF SourcesTypeOK, TypeShared
      <3>2. tap[t].thread = "ended" /\ tap[t].inflight = 0
        BY <1>1 DEF Stopped
      <3>3. Cardinality(Flying(t)) = 0
        BY <1>1, <3>1, <3>2 DEF FlyingCounted
      <3>4. Flying(t) = {}
        BY <3>1, <3>3, FlyingFinite, FS_EmptySet
      <3> QED BY <3>2, <3>4 DEF Flying, Submitting
    <2> QED BY <2>1 DEF StoppedIsQuiet
  <1>3. ToldOnce
    <2>1. \A t \in Taps : told[t] \in Nat
      BY <1>1 DEF SourcesTypeOK, TypeShared
    <2> QED BY <1>1, <2>1 DEF Told, ToldOnce
  <1>4. NoHiddenGap
    BY <1>1 DEF Cadence, Tracks, InStep, NoHiddenGap
  <1> QED BY <1>1, <1>2, <1>3, <1>4 DEF SourcesSafe

\* The inductive invariant holds in every state.
LEMMA SourcesInvHolds == SourcesSpec => []SourcesInv
  <1>1. SourcesInit => SourcesInv
    BY SourcesBegin
  <1>2. SourcesInv /\ [SourcesNext]_sourceVars => SourcesInv'
    BY SourcesInvKept
  <1> QED BY <1>1, <1>2, PTL DEF SourcesSpec

\* Every variable of the camera, the taps and their threads stays in its type
\* (ContinuousCaptureSources).
THEOREM SourcesTypes == SourcesSpec => []SourcesTypeOK
  <1>1. SourcesInv => SourcesTypeOK
    BY DEF SourcesInv
  <1> QED BY <1>1, SourcesInvHolds, PTL

\* However many cameras and taps, and however long they run: the handles cover whatever is open,
\* a stop() that returned leaves nothing of its tap behind, the coordinator is told of one
\* failure at most, and a frame between two that were taken is never skipped unseen
\* (ContinuousCaptureSources).
THEOREM SourcesCorrect == SourcesSpec => []SourcesSafe
  <1>1. SourcesInv => SourcesSafe
    BY SourcesInvSafe
  <1> QED BY <1>1, SourcesInvHolds, PTL

-----------------------------------------------------------------------------
(* EngineSources.  Engines and taps are numbered as they are made: whoever is between two  *)
(* steps with a new one has one that nobody else can name.                 *)

At(p, step) == caller[p].at = step

\* Nothing that is named was not made.
Made ==
    /\ engine <= engines /\ device <= engines
    /\ engineTap <= engineTaps /\ inside <= engineTaps
    /\ \A t \in callback : t # 0 /\ t <= engineTaps
    /\ \A p \in EngineCaller : caller[p].engine <= engines /\ caller[p].tap <= engineTaps

\* An engine that is not registered yet is known to its caller alone.
FreshEngines ==
    \A p \in EngineCaller : At(p, "register") =>
        /\ caller[p].engine # 0 /\ caller[p].engine # engine
        /\ \A q \in EngineCaller \ {p} : At(q, "register") => caller[q].engine # caller[p].engine

\* So is a tap that the engine has not begun to record; it is still the sources' tap as long as
\* the engine runs and nobody closes them.
FreshTaps ==
    \A p \in EngineCaller : At(p, "record") =>
        /\ caller[p].tap # 0 /\ caller[p].tap # inside /\ caller[p].tap \notin callback
        /\ Runs(caller[p].engine) =>
              /\ engine = caller[p].engine
              /\ engineTap = caller[p].tap \/ ending.at \in {"close", "release"}
        /\ \A q \in EngineCaller \ {p} : At(q, "record") => caller[q].tap # caller[p].tap

\* What is recorded, the registered engine records; a stop waits for the engine that does.
EngineRecordsIt ==
    /\ inside # 0 => Runs(engine) /\ inside \notin callback
    /\ ending.at = "stop" /\ inside # 0 => device = ending.engine

\* A stop and a start never overlap.
OneStarter ==
    /\ \A p \in EngineCaller : caller[p].at \in {"attach", "record"} => caller[p].records = TRUE
    /\ ending.at = "stop" => \A p \in EngineCaller : caller[p].records = FALSE

EngineInv ==
    /\ EngineTypeOK /\ Made /\ FreshEngines /\ FreshTaps /\ EngineRecordsIt /\ OneStarter
    /\ EngineHandlesCounted /\ EngineOwned /\ TapAgrees

\* What each step of a caller does to its call.
Opened(p) ==
    /\ caller' \in [EngineCaller -> Calls]
    /\ \A q \in EngineCaller \ {p} : caller'[q] = caller[q]
    /\ caller[p].at = "idle" /\ caller'[p].at \in {"idle", "create", "attach"}
    /\ caller'[p].at = "attach" => caller'[p].records = TRUE
    /\ caller'[p].engine = 0 /\ caller'[p].tap = 0
    /\ ending.at # "idle" => caller'[p].records = FALSE

Created(p) ==
    /\ caller' \in [EngineCaller -> Calls]
    /\ \A q \in EngineCaller \ {p} : caller'[q] = caller[q]
    /\ caller[p].at = "create" /\ caller'[p].at \in {"idle", "register"}
    /\ caller'[p].at = "register" =>
          /\ device = 0 /\ engines' = engines + 1 /\ device' = engines + 1 /\ inside' = 0
          /\ caller'[p].engine = engines + 1 /\ caller'[p].tap = caller[p].tap
    /\ caller'[p].at = "idle" =>
          /\ caller'[p].engine = 0 /\ caller'[p].tap = 0
          /\ UNCHANGED <<engines, device, inside>>
    /\ caller[p].records = FALSE => caller'[p].records = FALSE

Registered(p) ==
    /\ caller' \in [EngineCaller -> Calls]
    /\ \A q \in EngineCaller \ {p} : caller'[q] = caller[q]
    /\ caller[p].at = "register" /\ caller'[p].at \in {"idle", "attach"}
    /\ caller'[p].at = "attach" => caller'[p].records = TRUE
    /\ caller'[p].engine = 0 /\ caller'[p].tap = 0
    /\ caller[p].records = FALSE => caller'[p].records = FALSE

Attached(p) ==
    /\ caller' \in [EngineCaller -> Calls]
    /\ \A q \in EngineCaller \ {p} : caller'[q] = caller[q]
    /\ caller[p].at = "attach" /\ caller'[p].at \in {"idle", "record"}
    /\ caller'[p].at = "record" =>
          /\ engineTap = 0 /\ engine # 0
          /\ engineTaps' = engineTaps + 1 /\ engineTap' = engineTaps + 1
          /\ engineHandles' = engineHandles + 1
          /\ caller'[p].engine = engine /\ caller'[p].tap = engineTaps + 1
          /\ caller'[p].records = caller[p].records
    /\ caller'[p].at = "idle" =>
          /\ caller'[p].engine = 0 /\ caller'[p].tap = 0
          /\ UNCHANGED <<engineTap, engineTaps, engineHandles>>
    /\ caller[p].records = FALSE => caller'[p].records = FALSE

Recorded(p) ==
    /\ caller' \in [EngineCaller -> Calls]
    /\ \A q \in EngineCaller \ {p} : caller'[q] = caller[q]
    /\ caller[p].at = "record" /\ caller'[p].at = "idle"
    /\ caller'[p].engine = 0 /\ caller'[p].tap = 0 /\ caller'[p].records = FALSE

\* What a step of a caller leaves behind: nothing, or the fields of its next step.
LEMMA CallsKept ==
    ASSUME EngineTypeOK, NEW p \in EngineCaller, NEW call \in Calls, CallTo(p, call)
    PROVE  /\ caller' \in [EngineCaller -> Calls] /\ caller'[p] = call
           /\ \A q \in EngineCaller \ {p} : caller'[q] = caller[q]
  BY DEF CallTo, EngineTypeOK

\* A caller that is done holds no engine and no tap.
LEMMA NoCallEmpty ==
    /\ NoCall \in Calls /\ NoCall.at = "idle" /\ NoCall.records = FALSE
    /\ NoCall.engine = 0 /\ NoCall.tap = 0
  BY DEF NoCall, Calls

\* A call may be given an engine, and a tap as well.
LEMMA WithEngine ==
    ASSUME NEW c \in Calls, NEW e \in Nat, NEW t \in Nat
    PROVE  /\ [c EXCEPT !.at = "register", !.engine = e] \in Calls
           /\ [c EXCEPT !.at = "record", !.engine = e, !.tap = t] \in Calls
  <1>1. [c EXCEPT !.at = "register", !.engine = e] \in Calls
    BY DEF Calls
  <1>2. [c EXCEPT !.at = "record", !.engine = e, !.tap = t] \in Calls
    BY DEF Calls
  <1> QED BY <1>1, <1>2

\* A call that has begun holds no engine and no tap yet.
LEMMA NextCall ==
    ASSUME NEW step \in {"create", "attach"}, NEW r \in BOOLEAN
    PROVE  LET call == [NoCall EXCEPT !.at = step, !.records = r] IN
           /\ call \in Calls /\ call.at = step /\ call.records = r
           /\ call.engine = 0 /\ call.tap = 0
  BY DEF NoCall, Calls

\* A caller that has begun: it holds no engine and no tap yet.
LEMMA Opening ==
    ASSUME EngineTypeOK, NEW p \in EngineCaller, NEW r \in BOOLEAN, PreviewOpens(p, r)
    PROVE  Opened(p)
  <1>1. CASE engine # 0 /\ (Runs(engine) \/ engineTap # 0) /\ r
    <2>1. CallTo(p, [NoCall EXCEPT !.at = "attach", !.records = TRUE])
      BY <1>1 DEF PreviewOpens
    <2> QED BY <1>1, <2>1, CallsKept, NextCall DEF PreviewOpens, Opened
  <1>2. CASE engine # 0 /\ (Runs(engine) \/ engineTap # 0) /\ ~r
    <2>1. CallTo(p, NoCall)
      BY <1>2 DEF PreviewOpens
    <2> QED BY <2>1, CallsKept, NoCallEmpty DEF PreviewOpens, Opened
  <1>3. CASE ~(engine # 0 /\ (Runs(engine) \/ engineTap # 0))
    <2>1. CallTo(p, [NoCall EXCEPT !.at = "create", !.records = r])
      BY <1>3 DEF PreviewOpens
    <2>2. /\ caller' \in [EngineCaller -> Calls]
          /\ \A q \in EngineCaller \ {p} : caller'[q] = caller[q]
          /\ caller'[p].at = "create" /\ caller'[p].records = r
          /\ caller'[p].engine = 0 /\ caller'[p].tap = 0
      BY <2>1, CallsKept, NextCall
    <2>3. ending.at # "idle" => r = FALSE
      BY DEF PreviewOpens
    <2> QED BY <2>2, <2>3 DEF PreviewOpens, Opened
  <1> QED BY <1>1, <1>2, <1>3

\* A caller that made an engine goes on to register it; one that could not is done.
LEMMA Creating ==
    ASSUME EngineTypeOK, NEW p \in EngineCaller, EngineCreated(p)
    PROVE  Created(p)
  <1>1. caller[p].at = "create" /\ caller[p] \in Calls /\ engines \in Nat
    BY DEF EngineCreated, EngineTypeOK
  <1>2. CASE CallTo(p, NoCall) /\ UNCHANGED <<engines, device, inside>>
    BY <1>1, <1>2, CallsKept, NoCallEmpty DEF Created
  <1>3. CASE /\ device = 0 /\ engines' = engines + 1 /\ device' = engines + 1 /\ inside' = 0
             /\ CallTo(p, [caller[p] EXCEPT !.at = "register", !.engine = engines + 1])
    <2> DEFINE call == [caller[p] EXCEPT !.at = "register", !.engine = engines + 1]
    <2>1. /\ call \in Calls /\ call.at = "register" /\ call.engine = engines + 1
          /\ call.tap = caller[p].tap /\ call.records = caller[p].records
      <3>1. engines + 1 \in Nat
        BY <1>1
      <3>4. call \in Calls
        BY <1>1, <3>1, WithEngine
      <3>2. call.at = "register" /\ call.engine = engines + 1 /\ call.tap = caller[p].tap
        BY <1>1 DEF Calls
      <3>3. call.records = caller[p].records
        BY <1>1 DEF Calls
      <3> QED BY <3>4, <3>2, <3>3
    <2> HIDE DEF call
    <2>2. CallTo(p, call)
      BY <1>3 DEF call
    <2> QED BY <1>1, <1>3, <2>1, <2>2, CallsKept DEF Created
  <1> QED BY <1>2, <1>3 DEF EngineCreated

\* A caller that registered its engine goes on to attach a tap if it records.
LEMMA Registering ==
    ASSUME EngineTypeOK, NEW p \in EngineCaller, EngineRegistered(p)
    PROVE  Registered(p)
  <1>1. caller[p].at = "register" /\ caller[p].records \in BOOLEAN
    BY DEF EngineRegistered, EngineTypeOK, Calls
  <1>2. CASE caller[p].records
    <2>1. CallTo(p, [NoCall EXCEPT !.at = "attach", !.records = TRUE])
      BY <1>2 DEF EngineRegistered
    <2> QED BY <1>1, <1>2, <2>1, CallsKept, NextCall DEF Registered
  <1>3. CASE ~caller[p].records
    <2>1. CallTo(p, NoCall)
      BY <1>3 DEF EngineRegistered
    <2> QED BY <1>1, <2>1, CallsKept, NoCallEmpty DEF Registered
  <1> QED BY <1>2, <1>3

\* A caller that attached a tap goes on to record with it; one that could not is done.
LEMMA EngineAttaching ==
    ASSUME EngineTypeOK, NEW p \in EngineCaller, EngineTapAttaches(p)
    PROVE  Attached(p)
  <1>1. caller[p].at = "attach" /\ caller[p] \in Calls /\ engine \in Nat /\ engineTaps \in Nat
    BY DEF EngineTapAttaches, EngineTypeOK
  <1>2. CASE engineTap # 0 \/ engine = 0
    <2>1. CallTo(p, NoCall) /\ UNCHANGED <<engineTap, engineTaps, engineHandles>>
      BY <1>2 DEF EngineTapAttaches
    <2> QED BY <1>1, <2>1, CallsKept, NoCallEmpty DEF Attached
  <1>3. CASE ~(engineTap # 0 \/ engine = 0)
    <2> DEFINE call == [caller[p] EXCEPT !.at = "record", !.engine = engine,
                                         !.tap = engineTaps + 1]
    <2>1. /\ call \in Calls /\ call.at = "record" /\ call.engine = engine
          /\ call.tap = engineTaps + 1 /\ call.records = caller[p].records
      <3>1. engineTaps + 1 \in Nat
        BY <1>1
      <3>4. call \in Calls
        BY <1>1, <3>1, WithEngine
      <3>2. call.at = "record" /\ call.engine = engine /\ call.tap = engineTaps + 1
        BY <1>1 DEF Calls
      <3>3. call.records = caller[p].records
        BY <1>1 DEF Calls
      <3> QED BY <3>4, <3>2, <3>3
    <2> HIDE DEF call
    <2>2. /\ CallTo(p, call) /\ engineTaps' = engineTaps + 1 /\ engineTap' = engineTaps + 1
          /\ engineHandles' = engineHandles + 1
      BY <1>3 DEF EngineTapAttaches, call
    <2> QED BY <1>1, <1>3, <2>1, <2>2, CallsKept DEF Attached
  <1> QED BY <1>2, <1>3

\* A caller that records is done.
LEMMA RecordingCalled ==
    ASSUME EngineTypeOK, NEW p \in EngineCaller, EngineRecords(p)
    PROVE  Recorded(p)
  <1>1. CallTo(p, NoCall) /\ caller[p].at = "record"
    BY DEF EngineRecords
  <1> QED BY <1>1, CallsKept, NoCallEmpty DEF Recorded

\* Engines, taps and calls keep their types.
LEMMA EngineTypeStep ==
    ASSUME EngineTypeOK, Made, FreshTaps, EngineHandlesCounted, [EngineNext]_engineVars
    PROVE  EngineTypeOK'
  <1> USE DEF EngineFault, Closes, TakesTap, NoEnding
  <1>1. ASSUME NEW p \in EngineCaller, EngineForControl(p) PROVE EngineTypeOK'
    <2>1. Opened(p)
      BY <1>1, Opening DEF EngineForControl
    <2> QED BY <1>1, <2>1 DEF EngineForControl, PreviewOpens, EngineTypeOK,
        EngineHandlesCounted, Opened
  <1>2. ASSUME NEW p \in EngineCaller, PreviewOpens(p, TRUE) PROVE EngineTypeOK'
    <2>1. Opened(p)
      BY <1>2, Opening
    <2> QED BY <1>2, <2>1 DEF PreviewOpens, EngineTypeOK, EngineHandlesCounted, Opened
  <1>3. ASSUME NEW p \in EngineCaller, EngineCreated(p) PROVE EngineTypeOK'
    <2>1. Created(p)
      BY <1>3, Creating
    <2> QED BY <1>3, <2>1 DEF EngineCreated, EngineTypeOK, EngineHandlesCounted, Created
  <1>4. ASSUME NEW p \in EngineCaller, EngineRegistered(p) PROVE EngineTypeOK'
    <2>1. Registered(p)
      BY <1>4, Registering
    <2> QED BY <1>4, <2>1 DEF EngineRegistered, Calls, EngineTypeOK, EngineHandlesCounted,
        Registered
  <1>5. ASSUME NEW p \in EngineCaller, EngineTapAttaches(p) PROVE EngineTypeOK'
    <2>1. Attached(p)
      BY <1>5, EngineAttaching
    <2> QED BY <1>5, <2>1 DEF EngineTapAttaches, EngineTypeOK, EngineHandlesCounted,
        Attached
  <1>6. ASSUME NEW p \in EngineCaller, EngineRecords(p) PROVE EngineTypeOK'
    <2>1. Recorded(p)
      BY <1>6, RecordingCalled
    <2>2. caller[p].tap \in Nat /\ caller[p].at = "record"
      BY <1>6 DEF EngineTypeOK, Calls, EngineRecords
    <2>3. caller[p].tap # 0
      BY <2>2 DEF FreshTaps, At
    <2>4. engineHandles' \in Nat
      BY <1>6, <2>2, <2>3 DEF EngineRecords, EngineTypeOK, EngineHandlesCounted
    <2>5. engineTap' \in Nat /\ inside' \in Nat /\ engineFaults' \in Nat
      BY <1>6, <2>2 DEF EngineRecords, EngineTypeOK
    <2> QED BY <1>6, <2>1, <2>4, <2>5 DEF EngineRecords, EngineTypeOK, Recorded
  <1>7. CASE EngineDies
    BY <1>7 DEF EngineDies, EngineTypeOK, EngineHandlesCounted
  <1>8. ASSUME NEW t \in callback, RuntimeFailure(t) PROVE EngineTypeOK'
    BY <1>8 DEF RuntimeFailure, Made, EngineTypeOK, EngineHandlesCounted
  <1>9. CASE EngineStop
    BY <1>9 DEF EngineStop, EngineTypeOK, EngineHandlesCounted
  <1>10. CASE EngineClose
    BY <1>10 DEF EngineClose, EngineTypeOK, EngineHandlesCounted
  <1>11. CASE StopRecording
    BY <1>11 DEF StopRecording, EngineTypeOK, EngineHandlesCounted
  <1>12. CASE ReleaseEngine
    BY <1>12 DEF ReleaseEngine, EngineTypeOK, EngineHandlesCounted
  <1>13. CASE UNCHANGED engineVars
    BY <1>13 DEF engineVars, EngineTypeOK, EngineHandlesCounted
  <1> QED
    BY <1>1, <1>2, <1>3, <1>4, <1>5, <1>6, <1>7, <1>8, <1>9, <1>10, <1>11, <1>12, <1>13
        DEF EngineNext

\* Engines and taps are numbered in the order they are made.
LEMMA MadeStep ==
    ASSUME EngineTypeOK, Made, [EngineNext]_engineVars
    PROVE  Made'
  <1> USE DEF EngineFault, Closes, TakesTap, NoEnding
  <1>1. ASSUME NEW p \in EngineCaller, EngineForControl(p) PROVE Made'
    <2>1. Opened(p)
      BY <1>1, Opening DEF EngineForControl
    <2> QED BY <1>1, <2>1 DEF EngineForControl, PreviewOpens, EngineTypeOK, Calls, Made,
        Opened
  <1>2. ASSUME NEW p \in EngineCaller, PreviewOpens(p, TRUE) PROVE Made'
    <2>1. Opened(p)
      BY <1>2, Opening
    <2> QED BY <1>2, <2>1 DEF PreviewOpens, EngineTypeOK, Calls, Made, Opened
  <1>3. ASSUME NEW p \in EngineCaller, EngineCreated(p) PROVE Made'
    <2>1. Created(p)
      BY <1>3, Creating
    <2> QED BY <1>3, <2>1 DEF EngineCreated, EngineTypeOK, Calls, Made, Created
  <1>4. ASSUME NEW p \in EngineCaller, EngineRegistered(p) PROVE Made'
    <2>1. Registered(p)
      BY <1>4, Registering
    <2> QED BY <1>4, <2>1 DEF EngineRegistered, EngineTypeOK, Calls, Made, Registered
  <1>5. ASSUME NEW p \in EngineCaller, EngineTapAttaches(p) PROVE Made'
    <2>1. Attached(p)
      BY <1>5, EngineAttaching
    <2> QED BY <1>5, <2>1 DEF EngineTapAttaches, EngineTypeOK, Calls, Made, Attached
  <1>6. ASSUME NEW p \in EngineCaller, EngineRecords(p) PROVE Made'
    <2>1. Recorded(p)
      BY <1>6, RecordingCalled
    <2> QED BY <1>6, <2>1 DEF EngineRecords, EngineTypeOK, Calls, Made, Recorded
  <1>7. CASE EngineDies
    BY <1>7 DEF EngineDies, EngineTypeOK, Calls, Made
  <1>8. ASSUME NEW t \in callback, RuntimeFailure(t) PROVE Made'
    BY <1>8 DEF RuntimeFailure, EngineTypeOK, Calls, Made
  <1>9. CASE EngineStop
    BY <1>9 DEF EngineStop, EngineTypeOK, Calls, Made
  <1>10. CASE EngineClose
    BY <1>10 DEF EngineClose, EngineTypeOK, Calls, Made
  <1>11. CASE StopRecording
    BY <1>11 DEF StopRecording, EngineTypeOK, Calls, Made
  <1>12. CASE ReleaseEngine
    BY <1>12 DEF ReleaseEngine, EngineTypeOK, Calls, Made
  <1>13. CASE UNCHANGED engineVars
    BY <1>13 DEF engineVars, EngineTypeOK, Calls, Made
  <1> QED
    BY <1>1, <1>2, <1>3, <1>4, <1>5, <1>6, <1>7, <1>8, <1>9, <1>10, <1>11, <1>12, <1>13
        DEF EngineNext

\* A new engine is its caller's until it is registered.
LEMMA FreshEnginesStep ==
    ASSUME EngineTypeOK, Made, FreshEngines, [EngineNext]_engineVars
    PROVE  FreshEngines'
  <1> USE DEF EngineFault, Closes, TakesTap, NoEnding
  <1>1. ASSUME NEW p \in EngineCaller, EngineForControl(p) PROVE FreshEngines'
    <2>1. Opened(p)
      BY <1>1, Opening DEF EngineForControl
    <2> QED BY <1>1, <2>1 DEF EngineForControl, PreviewOpens, EngineTypeOK, Calls, Made,
        FreshEngines, At, Opened
  <1>2. ASSUME NEW p \in EngineCaller, PreviewOpens(p, TRUE) PROVE FreshEngines'
    <2>1. Opened(p)
      BY <1>2, Opening
    <2> QED BY <1>2, <2>1 DEF PreviewOpens, EngineTypeOK, Calls, Made, FreshEngines, At,
        Opened
  <1>3. ASSUME NEW p \in EngineCaller, EngineCreated(p) PROVE FreshEngines'
    <2>1. Created(p)
      BY <1>3, Creating
    <2> QED BY <1>3, <2>1 DEF EngineCreated, EngineTypeOK, Calls, Made, FreshEngines, At,
        Created
  <1>4. ASSUME NEW p \in EngineCaller, EngineRegistered(p) PROVE FreshEngines'
    <2>1. Registered(p)
      BY <1>4, Registering
    <2> QED BY <1>4, <2>1 DEF EngineRegistered, EngineTypeOK, Calls, Made, FreshEngines,
        At, Registered
  <1>5. ASSUME NEW p \in EngineCaller, EngineTapAttaches(p) PROVE FreshEngines'
    <2>1. Attached(p)
      BY <1>5, EngineAttaching
    <2> QED BY <1>5, <2>1 DEF EngineTapAttaches, EngineTypeOK, Calls, Made, FreshEngines,
        At, Attached
  <1>6. ASSUME NEW p \in EngineCaller, EngineRecords(p) PROVE FreshEngines'
    <2>1. Recorded(p)
      BY <1>6, RecordingCalled
    <2> QED BY <1>6, <2>1 DEF EngineRecords, EngineTypeOK, Calls, Made, FreshEngines, At,
        Recorded
  <1>7. CASE EngineDies
    BY <1>7 DEF EngineDies, EngineTypeOK, Calls, Made, FreshEngines, At
  <1>8. ASSUME NEW t \in callback, RuntimeFailure(t) PROVE FreshEngines'
    BY <1>8 DEF RuntimeFailure, EngineTypeOK, Calls, Made, FreshEngines, At
  <1>9. CASE EngineStop
    BY <1>9 DEF EngineStop, EngineTypeOK, Calls, Made, FreshEngines, At
  <1>10. CASE EngineClose
    BY <1>10 DEF EngineClose, EngineTypeOK, Calls, Made, FreshEngines, At
  <1>11. CASE StopRecording
    BY <1>11 DEF StopRecording, EngineTypeOK, Calls, Made, FreshEngines, At
  <1>12. CASE ReleaseEngine
    BY <1>12 DEF ReleaseEngine, EngineTypeOK, Calls, Made, FreshEngines, At
  <1>13. CASE UNCHANGED engineVars
    BY <1>13 DEF engineVars, EngineTypeOK, Calls, Made, FreshEngines, At
  <1> QED
    BY <1>1, <1>2, <1>3, <1>4, <1>5, <1>6, <1>7, <1>8, <1>9, <1>10, <1>11, <1>12, <1>13
        DEF EngineNext

\* A new tap is its caller's until the engine records it.
LEMMA FreshTapsStep ==
    ASSUME EngineTypeOK, Made, FreshTaps, EngineRecordsIt, OneStarter, [EngineNext]_engineVars
    PROVE  FreshTaps'
  <1> USE DEF EngineFault, Closes, TakesTap, NoEnding
  <1>1. ASSUME NEW p \in EngineCaller, EngineForControl(p) PROVE FreshTaps'
    <2>1. Opened(p)
      BY <1>1, Opening DEF EngineForControl
    <2> QED BY <1>1, <2>1 DEF EngineForControl, PreviewOpens, EngineTypeOK, Calls, Made,
        FreshTaps, EngineRecordsIt, At, Runs, Opened
  <1>2. ASSUME NEW p \in EngineCaller, PreviewOpens(p, TRUE) PROVE FreshTaps'
    <2>1. Opened(p)
      BY <1>2, Opening
    <2> QED BY <1>2, <2>1 DEF PreviewOpens, EngineTypeOK, Calls, Made, FreshTaps,
        EngineRecordsIt, At, Runs, Opened
  <1>3. ASSUME NEW p \in EngineCaller, EngineCreated(p) PROVE FreshTaps'
    <2>1. Created(p)
      BY <1>3, Creating
    <2> QED BY <1>3, <2>1 DEF EngineCreated, EngineTypeOK, Calls, Made, FreshTaps,
        EngineRecordsIt, At, Runs, Created
  <1>4. ASSUME NEW p \in EngineCaller, EngineRegistered(p) PROVE FreshTaps'
    <2>1. Registered(p)
      BY <1>4, Registering
    <2> QED BY <1>4, <2>1 DEF EngineRegistered, EngineTypeOK, Calls, Made, FreshTaps,
        EngineRecordsIt, At, Runs, Registered
  <1>5. ASSUME NEW p \in EngineCaller, EngineTapAttaches(p) PROVE FreshTaps'
    <2>1. Attached(p)
      BY <1>5, EngineAttaching
    <2> QED BY <1>5, <2>1 DEF EngineTapAttaches, EngineTypeOK, Calls, Made, FreshTaps,
        EngineRecordsIt, At, Runs, Attached
  <1>6. ASSUME NEW p \in EngineCaller, EngineRecords(p) PROVE FreshTaps'
    <2>1. Recorded(p)
      BY <1>6, RecordingCalled
    <2> QED BY <1>6, <2>1 DEF EngineRecords, EngineTypeOK, Calls, Made, FreshTaps,
        EngineRecordsIt, At, Runs, Recorded
  <1>7. CASE EngineDies
    BY <1>7 DEF EngineDies, EngineTypeOK, Calls, Made, FreshTaps, EngineRecordsIt, At, Runs
  <1>8. ASSUME NEW t \in callback, RuntimeFailure(t) PROVE FreshTaps'
    BY <1>8 DEF RuntimeFailure, EngineTypeOK, Calls, Made, FreshTaps, EngineRecordsIt, At,
        Runs
  <1>9. CASE EngineStop
    BY <1>9 DEF EngineStop, OneStarter, EngineTypeOK, Calls, Made, FreshTaps,
        EngineRecordsIt, At, Runs
  <1>10. CASE EngineClose
    BY <1>10 DEF EngineClose, EngineTypeOK, Calls, Made, FreshTaps, EngineRecordsIt, At,
        Runs
  <1>11. CASE StopRecording
    BY <1>11 DEF StopRecording, EngineTypeOK, Calls, Made, FreshTaps, EngineRecordsIt, At,
        Runs
  <1>12. CASE ReleaseEngine
    BY <1>12 DEF ReleaseEngine, EngineTypeOK, Calls, Made, FreshTaps, EngineRecordsIt, At,
        Runs
  <1>13. CASE UNCHANGED engineVars
    BY <1>13 DEF engineVars, EngineTypeOK, Calls, Made, FreshTaps, EngineRecordsIt, At, Runs
  <1> QED
    BY <1>1, <1>2, <1>3, <1>4, <1>5, <1>6, <1>7, <1>8, <1>9, <1>10, <1>11, <1>12, <1>13
        DEF EngineNext

\* Only the registered engine records.
LEMMA EngineRecordsStep ==
    ASSUME EngineTypeOK, Made, FreshEngines, FreshTaps, EngineRecordsIt, OneStarter,
           [EngineNext]_engineVars
    PROVE  EngineRecordsIt'
  <1> USE DEF EngineFault, Closes, TakesTap, NoEnding
  <1>1. ASSUME NEW p \in EngineCaller, EngineForControl(p) PROVE EngineRecordsIt'
    <2>1. Opened(p)
      BY <1>1, Opening DEF EngineForControl
    <2> QED BY <1>1, <2>1 DEF EngineForControl, PreviewOpens, EngineTypeOK, Calls,
        EngineRecordsIt, At, Runs, Opened
  <1>2. ASSUME NEW p \in EngineCaller, PreviewOpens(p, TRUE) PROVE EngineRecordsIt'
    <2>1. Opened(p)
      BY <1>2, Opening
    <2> QED BY <1>2, <2>1 DEF PreviewOpens, EngineTypeOK, Calls, EngineRecordsIt, At,
        Runs, Opened
  <1>3. ASSUME NEW p \in EngineCaller, EngineCreated(p) PROVE EngineRecordsIt'
    <2>1. Created(p)
      BY <1>3, Creating
    <2> QED BY <1>3, <2>1 DEF EngineCreated, EngineTypeOK, Calls, EngineRecordsIt, At,
        Runs, Created
  <1>4. ASSUME NEW p \in EngineCaller, EngineRegistered(p) PROVE EngineRecordsIt'
    <2>1. Registered(p)
      BY <1>4, Registering
    <2> QED BY <1>4, <2>1 DEF EngineRegistered, EngineTypeOK, Calls, EngineRecordsIt, At,
        Runs, Registered
  <1>5. ASSUME NEW p \in EngineCaller, EngineTapAttaches(p) PROVE EngineRecordsIt'
    <2>1. Attached(p)
      BY <1>5, EngineAttaching
    <2> QED BY <1>5, <2>1 DEF EngineTapAttaches, EngineTypeOK, Calls, EngineRecordsIt, At,
        Runs, Attached
  <1>6. ASSUME NEW p \in EngineCaller, EngineRecords(p) PROVE EngineRecordsIt'
    <2>1. Recorded(p)
      BY <1>6, RecordingCalled
    <2> QED BY <1>6, <2>1 DEF EngineRecords, FreshTaps, OneStarter, EngineTypeOK, Calls,
        EngineRecordsIt, At, Runs, Recorded
  <1>7. CASE EngineDies
    BY <1>7 DEF EngineDies, EngineTypeOK, Calls, EngineRecordsIt, At, Runs
  <1>8. ASSUME NEW t \in callback, RuntimeFailure(t) PROVE EngineRecordsIt'
    BY <1>8 DEF RuntimeFailure, EngineTypeOK, Calls, EngineRecordsIt, At, Runs
  <1>9. CASE EngineStop
    BY <1>9 DEF EngineStop, EngineTypeOK, Calls, EngineRecordsIt, At, Runs
  <1>10. CASE EngineClose
    BY <1>10 DEF EngineClose, EngineTypeOK, Calls, EngineRecordsIt, At, Runs
  <1>11. CASE StopRecording
    BY <1>11 DEF StopRecording, EngineTypeOK, Calls, EngineRecordsIt, At, Runs
  <1>12. CASE ReleaseEngine
    BY <1>12 DEF ReleaseEngine, EngineTypeOK, Calls, EngineRecordsIt, At, Runs
  <1>13. CASE UNCHANGED engineVars
    BY <1>13 DEF engineVars, EngineTypeOK, Calls, EngineRecordsIt, At, Runs
  <1> QED
    BY <1>1, <1>2, <1>3, <1>4, <1>5, <1>6, <1>7, <1>8, <1>9, <1>10, <1>11, <1>12, <1>13
        DEF EngineNext

\* A stop waits for the start, and the start for the stop.
LEMMA OneStarterStep ==
    ASSUME EngineTypeOK, OneStarter, [EngineNext]_engineVars
    PROVE  OneStarter'
  <1> USE DEF EngineFault, Closes, TakesTap, NoEnding
  <1>1. ASSUME NEW p \in EngineCaller, EngineForControl(p) PROVE OneStarter'
    <2>1. Opened(p)
      BY <1>1, Opening DEF EngineForControl
    <2> QED BY <1>1, <2>1 DEF EngineForControl, PreviewOpens, EngineTypeOK, Calls,
        OneStarter, Opened
  <1>2. ASSUME NEW p \in EngineCaller, PreviewOpens(p, TRUE) PROVE OneStarter'
    <2>1. Opened(p)
      BY <1>2, Opening
    <2> QED BY <1>2, <2>1 DEF PreviewOpens, EngineTypeOK, Calls, OneStarter, Opened
  <1>3. ASSUME NEW p \in EngineCaller, EngineCreated(p) PROVE OneStarter'
    <2>1. Created(p)
      BY <1>3, Creating
    <2> QED BY <1>3, <2>1 DEF EngineCreated, EngineTypeOK, Calls, OneStarter, Created
  <1>4. ASSUME NEW p \in EngineCaller, EngineRegistered(p) PROVE OneStarter'
    <2>1. Registered(p)
      BY <1>4, Registering
    <2> QED BY <1>4, <2>1 DEF EngineRegistered, EngineTypeOK, Calls, OneStarter, Registered
  <1>5. ASSUME NEW p \in EngineCaller, EngineTapAttaches(p) PROVE OneStarter'
    <2>1. Attached(p)
      BY <1>5, EngineAttaching
    <2> QED BY <1>5, <2>1 DEF EngineTapAttaches, EngineTypeOK, Calls, OneStarter, Attached
  <1>6. ASSUME NEW p \in EngineCaller, EngineRecords(p) PROVE OneStarter'
    <2>1. Recorded(p)
      BY <1>6, RecordingCalled
    <2> QED BY <1>6, <2>1 DEF EngineRecords, EngineTypeOK, Calls, OneStarter, Recorded
  <1>7. CASE EngineDies
    BY <1>7 DEF EngineDies, EngineTypeOK, Calls, OneStarter
  <1>8. ASSUME NEW t \in callback, RuntimeFailure(t) PROVE OneStarter'
    BY <1>8 DEF RuntimeFailure, EngineTypeOK, Calls, OneStarter
  <1>9. CASE EngineStop
    BY <1>9 DEF EngineStop, EngineTypeOK, Calls, OneStarter
  <1>10. CASE EngineClose
    BY <1>10 DEF EngineClose, EngineTypeOK, Calls, OneStarter
  <1>11. CASE StopRecording
    BY <1>11 DEF StopRecording, EngineTypeOK, Calls, OneStarter
  <1>12. CASE ReleaseEngine
    BY <1>12 DEF ReleaseEngine, EngineTypeOK, Calls, OneStarter
  <1>13. CASE UNCHANGED engineVars
    BY <1>13 DEF engineVars, EngineTypeOK, Calls, OneStarter
  <1> QED
    BY <1>1, <1>2, <1>3, <1>4, <1>5, <1>6, <1>7, <1>8, <1>9, <1>10, <1>11, <1>12, <1>13
        DEF EngineNext

\* An engine and a tap are counted when they are set and when they are taken.
LEMMA HandlesCountedStep ==
    ASSUME EngineTypeOK, Made, FreshEngines, FreshTaps, EngineHandlesCounted,
           [EngineNext]_engineVars
    PROVE  EngineHandlesCounted'
  <1> USE DEF EngineFault, Closes, TakesTap, NoEnding
  <1>1. ASSUME NEW p \in EngineCaller, EngineForControl(p) PROVE EngineHandlesCounted'
    <2>1. Opened(p)
      BY <1>1, Opening DEF EngineForControl
    <2> QED BY <1>1, <2>1 DEF EngineForControl, PreviewOpens, EngineHandlesCounted,
        EngineTypeOK, Opened
  <1>2. ASSUME NEW p \in EngineCaller, PreviewOpens(p, TRUE) PROVE EngineHandlesCounted'
    <2>1. Opened(p)
      BY <1>2, Opening
    <2> QED BY <1>2, <2>1 DEF PreviewOpens, EngineHandlesCounted, EngineTypeOK, Opened
  <1>3. ASSUME NEW p \in EngineCaller, EngineCreated(p) PROVE EngineHandlesCounted'
    <2>1. Created(p)
      BY <1>3, Creating
    <2> QED BY <1>3, <2>1 DEF EngineCreated, EngineHandlesCounted, EngineTypeOK, Created
  <1>4. ASSUME NEW p \in EngineCaller, EngineRegistered(p) PROVE EngineHandlesCounted'
    <2>1. Registered(p)
      BY <1>4, Registering
    <2> QED BY <1>4, <2>1 DEF EngineRegistered, FreshEngines, At, EngineHandlesCounted,
        EngineTypeOK, Registered
  <1>5. ASSUME NEW p \in EngineCaller, EngineTapAttaches(p) PROVE EngineHandlesCounted'
    <2>1. Attached(p)
      BY <1>5, EngineAttaching
    <2> QED BY <1>5, <2>1 DEF EngineTapAttaches, EngineHandlesCounted, EngineTypeOK,
        Attached
  <1>6. ASSUME NEW p \in EngineCaller, EngineRecords(p) PROVE EngineHandlesCounted'
    <2>1. Recorded(p)
      BY <1>6, RecordingCalled
    <2> QED BY <1>6, <2>1 DEF EngineRecords, FreshTaps, At, EngineHandlesCounted,
        EngineTypeOK, Recorded
  <1>7. CASE EngineDies
    BY <1>7 DEF EngineDies, EngineHandlesCounted, EngineTypeOK
  <1>8. ASSUME NEW t \in callback, RuntimeFailure(t) PROVE EngineHandlesCounted'
    BY <1>8 DEF RuntimeFailure, Made, EngineHandlesCounted, EngineTypeOK
  <1>9. CASE EngineStop
    BY <1>9 DEF EngineStop, EngineHandlesCounted, EngineTypeOK
  <1>10. CASE EngineClose
    BY <1>10 DEF EngineClose, EngineHandlesCounted, EngineTypeOK
  <1>11. CASE StopRecording
    BY <1>11 DEF StopRecording, EngineHandlesCounted, EngineTypeOK
  <1>12. CASE ReleaseEngine
    BY <1>12 DEF ReleaseEngine, EngineHandlesCounted, EngineTypeOK
  <1>13. CASE UNCHANGED engineVars
    BY <1>13 DEF engineVars, EngineHandlesCounted, EngineTypeOK
  <1> QED
    BY <1>1, <1>2, <1>3, <1>4, <1>5, <1>6, <1>7, <1>8, <1>9, <1>10, <1>11, <1>12, <1>13
        DEF EngineNext

\* Whoever holds the camera is registered or about to be.
LEMMA EngineOwnedStep ==
    ASSUME EngineTypeOK, FreshEngines, EngineOwned, [EngineNext]_engineVars
    PROVE  EngineOwned'
  <1> USE DEF EngineFault, Closes, TakesTap, NoEnding
  <1>1. ASSUME NEW p \in EngineCaller, EngineForControl(p) PROVE EngineOwned'
    <2>1. Opened(p)
      BY <1>1, Opening DEF EngineForControl
    <2> QED BY <1>1, <2>1 DEF EngineForControl, PreviewOpens, EngineOwned, EngineTypeOK,
        Calls, FreshEngines, At, Runs, Opened
  <1>2. ASSUME NEW p \in EngineCaller, PreviewOpens(p, TRUE) PROVE EngineOwned'
    <2>1. Opened(p)
      BY <1>2, Opening
    <2> QED BY <1>2, <2>1 DEF PreviewOpens, EngineOwned, EngineTypeOK, Calls,
        FreshEngines, At, Runs, Opened
  <1>3. ASSUME NEW p \in EngineCaller, EngineCreated(p) PROVE EngineOwned'
    <2>1. Created(p)
      BY <1>3, Creating
    <2> QED BY <1>3, <2>1 DEF EngineCreated, EngineOwned, EngineTypeOK, Calls,
        FreshEngines, At, Runs, Created
  <1>4. ASSUME NEW p \in EngineCaller, EngineRegistered(p) PROVE EngineOwned'
    <2>1. Registered(p)
      BY <1>4, Registering
    <2> QED BY <1>4, <2>1 DEF EngineRegistered, EngineOwned, EngineTypeOK, Calls,
        FreshEngines, At, Runs, Registered
  <1>5. ASSUME NEW p \in EngineCaller, EngineTapAttaches(p) PROVE EngineOwned'
    <2>1. Attached(p)
      BY <1>5, EngineAttaching
    <2> QED BY <1>5, <2>1 DEF EngineTapAttaches, EngineOwned, EngineTypeOK, Calls,
        FreshEngines, At, Runs, Attached
  <1>6. ASSUME NEW p \in EngineCaller, EngineRecords(p) PROVE EngineOwned'
    <2>1. Recorded(p)
      BY <1>6, RecordingCalled
    <2> QED BY <1>6, <2>1 DEF EngineRecords, EngineOwned, EngineTypeOK, Calls,
        FreshEngines, At, Runs, Recorded
  <1>7. CASE EngineDies
    BY <1>7 DEF EngineDies, EngineOwned, EngineTypeOK, Calls, FreshEngines, At, Runs
  <1>8. ASSUME NEW t \in callback, RuntimeFailure(t) PROVE EngineOwned'
    BY <1>8 DEF RuntimeFailure, EngineOwned, EngineTypeOK, Calls, FreshEngines, At, Runs
  <1>9. CASE EngineStop
    BY <1>9 DEF EngineStop, EngineOwned, EngineTypeOK, Calls, FreshEngines, At, Runs
  <1>10. CASE EngineClose
    BY <1>10 DEF EngineClose, EngineOwned, EngineTypeOK, Calls, FreshEngines, At, Runs
  <1>11. CASE StopRecording
    BY <1>11 DEF StopRecording, EngineOwned, EngineTypeOK, Calls, FreshEngines, At, Runs
  <1>12. CASE ReleaseEngine
    BY <1>12 DEF ReleaseEngine, EngineOwned, EngineTypeOK, Calls, FreshEngines, At, Runs
  <1>13. CASE UNCHANGED engineVars
    BY <1>13 DEF engineVars, EngineOwned, EngineTypeOK, Calls, FreshEngines, At, Runs
  <1> QED
    BY <1>1, <1>2, <1>3, <1>4, <1>5, <1>6, <1>7, <1>8, <1>9, <1>10, <1>11, <1>12, <1>13
        DEF EngineNext

\* The engine and the sources agree on what is recorded.
LEMMA TapAgreesStep ==
    ASSUME EngineTypeOK, Made, FreshTaps, EngineRecordsIt, OneStarter, TapAgrees,
           [EngineNext]_engineVars
    PROVE  TapAgrees'
  <1> USE DEF EngineFault, Closes, TakesTap, NoEnding
  <1>1. ASSUME NEW p \in EngineCaller, EngineForControl(p) PROVE TapAgrees'
    <2>1. Opened(p)
      BY <1>1, Opening DEF EngineForControl
    <2> QED BY <1>1, <2>1 DEF EngineForControl, PreviewOpens, TapAgrees, EngineTypeOK,
        Made, FreshTaps, EngineRecordsIt, OneStarter, At, Runs, Opened
  <1>2. ASSUME NEW p \in EngineCaller, PreviewOpens(p, TRUE) PROVE TapAgrees'
    <2>1. Opened(p)
      BY <1>2, Opening
    <2> QED BY <1>2, <2>1 DEF PreviewOpens, TapAgrees, EngineTypeOK, Made, FreshTaps,
        EngineRecordsIt, OneStarter, At, Runs, Opened
  <1>3. ASSUME NEW p \in EngineCaller, EngineCreated(p) PROVE TapAgrees'
    <2>1. Created(p)
      BY <1>3, Creating
    <2> QED BY <1>3, <2>1 DEF EngineCreated, TapAgrees, EngineTypeOK, Made, FreshTaps,
        EngineRecordsIt, OneStarter, At, Runs, Created
  <1>4. ASSUME NEW p \in EngineCaller, EngineRegistered(p) PROVE TapAgrees'
    <2>1. Registered(p)
      BY <1>4, Registering
    <2> QED BY <1>4, <2>1 DEF EngineRegistered, TapAgrees, EngineTypeOK, Made, FreshTaps,
        EngineRecordsIt, OneStarter, At, Runs, Registered
  <1>5. ASSUME NEW p \in EngineCaller, EngineTapAttaches(p) PROVE TapAgrees'
    <2>1. Attached(p)
      BY <1>5, EngineAttaching
    <2> QED BY <1>5, <2>1 DEF EngineTapAttaches, TapAgrees, EngineTypeOK, Made, FreshTaps,
        EngineRecordsIt, OneStarter, At, Runs, Attached
  <1>6. ASSUME NEW p \in EngineCaller, EngineRecords(p) PROVE TapAgrees'
    <2>1. Recorded(p)
      BY <1>6, RecordingCalled
    <2> QED BY <1>6, <2>1 DEF EngineRecords, TapAgrees, EngineTypeOK, Made, FreshTaps,
        EngineRecordsIt, OneStarter, At, Runs, Recorded
  <1>7. CASE EngineDies
    BY <1>7 DEF EngineDies, TapAgrees, EngineTypeOK, Made, FreshTaps, EngineRecordsIt,
        OneStarter, At, Runs
  <1>8. ASSUME NEW t \in callback, RuntimeFailure(t) PROVE TapAgrees'
    BY <1>8 DEF RuntimeFailure, TapAgrees, EngineTypeOK, Made, FreshTaps, EngineRecordsIt,
        OneStarter, At, Runs
  <1>9. CASE EngineStop
    BY <1>9 DEF EngineStop, TapAgrees, EngineTypeOK, Made, FreshTaps, EngineRecordsIt,
        OneStarter, At, Runs
  <1>10. CASE EngineClose
    BY <1>10 DEF EngineClose, TapAgrees, EngineTypeOK, Made, FreshTaps, EngineRecordsIt,
        OneStarter, At, Runs
  <1>11. CASE StopRecording
    BY <1>11 DEF StopRecording, TapAgrees, EngineTypeOK, Made, FreshTaps, EngineRecordsIt,
        OneStarter, At, Runs
  <1>12. CASE ReleaseEngine
    BY <1>12 DEF ReleaseEngine, TapAgrees, EngineTypeOK, Made, FreshTaps, EngineRecordsIt,
        OneStarter, At, Runs
  <1>13. CASE UNCHANGED engineVars
    BY <1>13 DEF engineVars, TapAgrees, EngineTypeOK, Made, FreshTaps, EngineRecordsIt,
        OneStarter, At, Runs
  <1> QED
    BY <1>1, <1>2, <1>3, <1>4, <1>5, <1>6, <1>7, <1>8, <1>9, <1>10, <1>11, <1>12, <1>13
        DEF EngineNext

\* The invariant that EngineSafe rests on.
LEMMA EngineInvHolds == EngineSpec => []EngineInv
  <1>1. EngineInit => EngineInv
    BY DEF EngineInit, EngineInv, EngineTypeOK, Calls, NoCall, NoEnding, Made, FreshEngines, At,
          FreshTaps, EngineRecordsIt, OneStarter, EngineHandlesCounted, EngineOwned, TapAgrees
  <1>2. EngineInv /\ [EngineNext]_engineVars => EngineInv'
    BY EngineTypeStep, MadeStep, FreshEnginesStep, FreshTapsStep, EngineRecordsStep,
       OneStarterStep, HandlesCountedStep, EngineOwnedStep, TapAgreesStep
    DEF EngineInv
  <1> QED BY <1>1, <1>2, PTL DEF EngineSpec

\* The handle count, the engine and the tap of the sources are what the engines hold, however
\* starts, stops, closes and deaths interleave.
THEOREM EngineCorrect == EngineSpec => []EngineSafe
  <1>1. EngineInv => EngineSafe
    BY DEF EngineInv, EngineSafe
  <1> QED BY <1>1, EngineInvHolds, PTL
=============================================================================
