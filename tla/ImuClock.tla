------------------------------- MODULE ImuClock -------------------------------
(***************************************************************************)
(* imu/collector.py, uvc_xu.py and time_sync.py, and the native collector  *)
(* (native/src/imu.rs), which does the same: the collector polls the       *)
(* sensor until a packet it has not seen appears, unwraps the packet's     *)
(* 24-bit frame counter, and fits the device's clock to the host's.  Times *)
(* are in the host clock's ticks; a packet is the counter as the device    *)
(* sends it and the content of its two sample slots.  The fit is exact     *)
(* here; the code computes it in 64-bit floating point.                    *)
(***************************************************************************)
EXTENDS Integers, Sequences, FiniteSets

CONSTANTS
    Modulus,           \* of the counter (2^24)
    Contents,          \* what the sample slots may hold
    MinimumPoints, WindowPoints, GoodResidual,
    Timeout,           \* of one read
    MaxDelay,          \* of one query
    MaxJump,           \* frames the device may advance between two queries
    MaxFrame, MaxNow   \* bounds for TLC

ASSUME ImuBounds ==
    /\ Modulus \in Nat /\ Modulus > 2
    /\ MinimumPoints \in Nat /\ MinimumPoints >= 2
    /\ WindowPoints \in Nat /\ WindowPoints >= MinimumPoints
    /\ GoodResidual \in Nat /\ Timeout \in Nat \ {0}
    /\ MaxDelay \in Nat /\ MaxJump \in Nat \ {0} /\ MaxFrame \in Nat /\ MaxNow \in Nat

VARIABLES
    now,               \* CLOCK_MONOTONIC
    frame,             \* the frames the device has counted, never wrapped
    handed,            \* the frame of the packet the device hands out
    content,           \* of its sample slots
    collector,         \* State: descriptor, last payload, unwrapper, synchronizer
    reading,           \* the deadline of the read under way, 0 when there is none
    sample,            \* the last observation
    lap                \* the device once ran a whole lap ahead between two observations

imuVars == <<now, frame, handed, content, collector, reading, sample, lap>>

NoPayload == <<>>
NoRaw == -1
NoSample == [sequence |-> 0, ticks |-> 0, at |-> 0, origin |-> 0, anchored |-> FALSE,
             quality |-> "none"]

\* the device has been counting for a while; its counter is about to wrap
ImuInit ==
    /\ now = 1
    /\ frame = Modulus - 1 /\ handed = frame
    /\ content \in Contents
    /\ collector = [open |-> TRUE, lastPayload |-> NoPayload, raw |-> NoRaw, ticks |-> 0,
              points |-> <<>>, lastHost |-> 0, sequence |-> 0]
    /\ reading = 0 /\ sample = NoSample /\ lap = FALSE

Payload == <<handed % Modulus, content>>

(***************************************************************************)
(* TimestampUnwrapper                                                      *)
(***************************************************************************)
Delta(raw) == (raw + Modulus - collector.raw) % Modulus

Regressed_Never(raw) == FALSE

(* More than half a lap forward is taken for a step back. *)
Regressed(raw) == collector.raw # NoRaw /\ Delta(raw) > Modulus \div 2

Unwrapped(raw) == IF collector.raw = NoRaw THEN raw ELSE collector.ticks + Delta(raw)

(***************************************************************************)
(* TimeSynchronizer                                                        *)
(***************************************************************************)
Midpoint(start, end) == start + (end - start) \div 2

LastTicks ==
    IF collector.points = <<>> THEN -1 ELSE collector.points[Len(collector.points)].ticks

NonMonotonic(ticks, host) ==
    collector.points # <<>> /\ (ticks < LastTicks \/ host <= collector.lastHost)

\* without a new frame there is no independent anchor in device time
Anchored(ticks) == ticks # LastTicks

Push(point) ==
    Append(IF Len(collector.points) = WindowPoints
           THEN Tail(collector.points) ELSE collector.points, point)

SumOver(f) ==
    LET upTo[i \in 0..Len(f)] == IF i = 0 THEN 0 ELSE upTo[i - 1] + f[i] IN upTo[Len(f)]

Over(points, F(_)) == SumOver([i \in DOMAIN points |-> F(points[i])])

\* least squares, multiplied by the count to stay among the integers
Denominator(points) ==
    Len(points) * Over(points, LAMBDA p : p.ticks * p.ticks)
        - Over(points, LAMBDA p : p.ticks) * Over(points, LAMBDA p : p.ticks)

Slope(points) ==
    Len(points) * Over(points, LAMBDA p : p.ticks * p.host)
        - Over(points, LAMBDA p : p.ticks) * Over(points, LAMBDA p : p.host)

Magnitude(n) == IF n < 0 THEN -n ELSE n

CeilDiv(n, d) == (n + d - 1) \div d

FitResidual(points, p) ==
    LET n == Len(points)
        d == Denominator(points)
        meanX == Over(points, LAMBDA q : q.ticks)
        meanY == Over(points, LAMBDA q : q.host)
    IN  CeilDiv(Magnitude(n * d * p.host - d * meanY - Slope(points) * (n * p.ticks - meanX)),
                n * d)

Residual(points) ==
    LET worst(S) == CHOOSE x \in S : \A y \in S : y <= x
    IN  worst({FitResidual(points, points[i]) : i \in DOMAIN points})
          + worst({points[i].uncertainty : i \in DOMAIN points})

Estimate(points) ==
    IF Len(points) < MinimumPoints \/ Denominator(points) = 0 THEN "insufficient"
    ELSE IF Slope(points) <= 0 THEN "invalid_clock_fit"
    ELSE IF Residual(points) > GoodResidual THEN "degraded" ELSE "good"

(***************************************************************************)
(* Collector                                                               *)
(***************************************************************************)
BeginRead ==
    /\ collector.open /\ reading = 0
    /\ reading' = now + Timeout
    /\ UNCHANGED <<now, frame, handed, content, collector, sample, lap>>

\* any error closes the descriptor; every later read finds it closed
Failed(end) ==
    /\ now' = end /\ reading' = 0
    /\ collector' = [collector EXCEPT !.open = FALSE, !.lastPayload = Payload]
    /\ UNCHANGED <<frame, handed, content, sample, lap>>

StalePacket(end) ==
    /\ collector.lastPayload = Payload
    /\ IF end >= reading
       THEN collector' = [collector EXCEPT !.open = FALSE] /\ reading' = 0
       ELSE UNCHANGED <<collector, reading>>
    /\ now' = end
    /\ UNCHANGED <<frame, handed, content, sample, lap>>

Rejected(end) ==
    LET raw == Payload[1]
        ticks == Unwrapped(raw)
        host == Midpoint(now, end)
    IN  /\ collector.lastPayload # Payload
        /\ \/ Regressed(raw)
           \/ NonMonotonic(ticks, host)
           \/ /\ Anchored(ticks)
              /\ Estimate(Push([ticks |-> ticks, host |-> host,
                                uncertainty |-> (end - now) \div 2])) = "invalid_clock_fit"
        /\ Failed(end)

(* observe_packet *)
Observed(end) ==
    LET raw == Payload[1]
        ticks == Unwrapped(raw)
        host == Midpoint(now, end)
        points == IF Anchored(ticks)
                  THEN Push([ticks |-> ticks, host |-> host,
                             uncertainty |-> (end - now) \div 2])
                  ELSE collector.points
        quality == IF Anchored(ticks) THEN Estimate(points) ELSE "insufficient"
    IN  /\ collector.lastPayload # Payload
        /\ ~Regressed(raw) /\ ~NonMonotonic(ticks, host) /\ quality # "invalid_clock_fit"
        /\ collector' = [collector EXCEPT !.lastPayload = Payload, !.raw = raw, !.ticks = ticks,
                              !.points = points, !.lastHost = host, !.sequence = @ + 1]
        /\ sample' = [sequence |-> collector.sequence + 1, ticks |-> ticks, at |-> handed,
                      origin |-> IF sample = NoSample THEN handed - raw ELSE sample.origin,
                      anchored |-> Anchored(ticks), quality |-> quality]
        /\ lap' = (lap \/ (sample # NoSample /\ handed >= sample.at + Modulus))
        /\ now' = end /\ reading' = 0
        /\ UNCHANGED <<frame, handed, content>>

(* One GET_CUR, which may take time; the packet is the one of its start. *)
Query ==
    /\ collector.open /\ reading # 0
    /\ \E end \in {now, now + MaxDelay} :
          /\ end <= MaxNow
          /\ StalePacket(end) \/ Rejected(end) \/ Observed(end)

\* the ioctl fails: the camera is gone
Disconnected ==
    /\ collector.open /\ reading # 0
    /\ collector' = [collector EXCEPT !.open = FALSE]
    /\ reading' = 0
    /\ UNCHANGED <<now, frame, handed, content, sample, lap>>

Close ==
    /\ collector.open /\ reading = 0
    /\ collector' = [collector EXCEPT !.open = FALSE]
    /\ UNCHANGED <<now, frame, handed, content, reading, sample, lap>>

(* The device: counts on, fills its slots again within a frame, or hands   *)
(* out the number of the frame before.                                     *)
DeviceSamples ==
    /\ collector.open /\ now < MaxNow /\ now' = now + 1
    /\ \E f \in frame..(frame + MaxJump) : f <= MaxFrame /\ frame' = f
    /\ handed' \in {frame', frame' - 1} \cap Nat
    /\ content' \in Contents
    /\ UNCHANGED <<collector, reading, sample, lap>>

ImuNext == BeginRead \/ Query \/ Disconnected \/ Close \/ DeviceSamples

ImuSpec == ImuInit /\ [][ImuNext]_imuVars

-----------------------------------------------------------------------------
ImuTypeOK ==
    /\ now \in 1..MaxNow /\ frame \in 0..MaxFrame /\ handed \in 0..MaxFrame
    /\ content \in Contents
    /\ collector.open \in BOOLEAN /\ collector.raw \in {NoRaw} \cup 0..(Modulus - 1)
    /\ collector.ticks \in Nat /\ Len(collector.points) <= WindowPoints
    /\ reading \in 0..(MaxNow + Timeout) /\ lap \in BOOLEAN

(* TimestampUnwrapper::update: the ticks of an observation are the frames  *)
(* the device has counted since the first one, over any number of wraps,   *)
(* unless the device ran a whole lap ahead between two observations.       *)
TicksCountFrames ==
    sample # NoSample => \/ lap
                         \/ sample.ticks = sample.at - sample.origin

(* Even after a lost lap the ticks are those of the frame up to whole laps *)
(* and never ahead of the device.                                          *)
TicksNeverAhead ==
    sample # NoSample => /\ sample.ticks <= sample.at - sample.origin
                         /\ (sample.at - sample.ticks) % Modulus = 0

(* TimeSynchronizer::add admits only anchors that advance in both clocks,  *)
(* so that the slope in estimate is positive and its error path is dead.   *)
FitIsValid ==
    /\ \A i \in 1..(Len(collector.points) - 1) :
          /\ collector.points[i].ticks < collector.points[i + 1].ticks
          /\ collector.points[i].host < collector.points[i + 1].host
    /\ Estimate(collector.points) # "invalid_clock_fit"

(* A packet without a new frame is never given an offset of its own.       *)
UnanchoredHasNoFit == ~sample.anchored => sample.quality \in {"none", "insufficient"}

(* The collector's device time is the device's, and its fit stands on      *)
(* anchors that advance (native/src/imu.rs observe_packet).                *)
ImuSafe == TicksCountFrames /\ TicksNeverAhead /\ FitIsValid /\ UnanchoredHasNoFit
=============================================================================
