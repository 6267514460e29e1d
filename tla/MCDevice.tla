------------------------------- MODULE MCDevice -------------------------------
(***************************************************************************)
(* Parts of the device that share no state with one another: the state     *)
(* writer with a receipt cache of one, the two event streams, the HTTP     *)
(* edge, the native take and its audio, the push button and its LED, and   *)
(* the IMU's clock.  A behaviour of the whole projects to a behaviour of   *)
(* each part, so a behaviour here moves one part only.                     *)
(***************************************************************************)
EXTENDS StateWriter, EventStreams, NetworkStream, HttpEdge, NativeTake, AudioCapture,
        RecordingButton, ImuClock, TLC

VARIABLE part          \* the part that moves

deviceVars == <<part, vars, streamVars, netStreamVars, edgeVars, takeVars, audioVars,
                panelVars, imuVars>>

Parts == {"writer", "events", "networkEvents", "edge", "take", "audio", "button",
          "indicator", "imu"}

DeviceInit ==
    /\ part \in Parts
    /\ Init /\ StreamInit /\ NetStreamInit /\ EdgeInit /\ TakeInit /\ AudioInit
    /\ PanelInit /\ (part = "indicator" \/ priorLed = Found("none"))
    /\ ImuInit /\ (part = "imu" \/ content = 0)

\* the variables of the part that moves are the only ones that change
Moves(p, step) == part = p /\ UNCHANGED part /\ step

DeviceNext ==
    /\ \/ Moves("writer", Next)
       \/ Moves("events", StreamNext)
       \/ Moves("networkEvents", NetStreamNext)
       \/ Moves("edge", EdgeNext)
       \/ Moves("take", TakeNext)
       \/ Moves("audio", AudioNext)
       \/ Moves("button", ButtonNext)
       \/ Moves("indicator", IndicatorNext)
       \/ Moves("imu", ImuNext)
       \/ part # "writer" /\ UNCHANGED deviceVars   \* only the writer may not stop
    /\ part \notin {"writer"} => UNCHANGED vars
    /\ part \notin {"events"} => UNCHANGED streamVars
    /\ part \notin {"networkEvents"} => UNCHANGED netStreamVars
    /\ part \notin {"edge"} => UNCHANGED edgeVars
    /\ part \notin {"take"} => UNCHANGED takeVars
    /\ part \notin {"audio"} => UNCHANGED audioVars
    /\ part \notin {"button", "indicator"} => UNCHANGED panelVars
    /\ part \notin {"imu"} => UNCHANGED imuVars

DeviceSpec == DeviceInit /\ [][DeviceNext]_deviceVars

OneEach == [sse |-> 1, preview |-> 1]

\* connections and followers are the same model values as the keys
Symmetry == Permutations(Keys) \cup Permutations(Writers)

\* the sequence number and the delivery identities are bounded for TLC only
DeviceBound == seq <= 5 /\ StreamBound /\ NetStreamBound
=============================================================================
