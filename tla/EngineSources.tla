---------------------------- MODULE EngineSources ----------------------------
(***************************************************************************)
(* NativeContinuousCaptureSources (recording/sources.py): the daemon's     *)
(* view of the native capture engine, which owns the camera, the preview   *)
(* and the fan-out of a recording.  Callers open the preview, start and    *)
(* stop a recording and close the sources; an engine may die at any time   *)
(* and calls back for the recording it had.  One engine at a time can hold *)
(* the camera.  The engine itself is native (NativeTake).                  *)
(***************************************************************************)
EXTENDS Naturals

CONSTANTS
    EngineCaller,     \* threads that open the preview or start a recording
    MaxEngines, MaxEngineTaps, MaxEngineFaults   \* bounds

ASSUME EngineAssumption ==
    MaxEngines \in Nat /\ MaxEngineTaps \in Nat /\ MaxEngineFaults \in Nat

VARIABLES
    engine,            \* _engine
    engineTap,         \* _recording
    engineHandles,     \* _open_handles
    device,            \* the engine that runs, and so holds the camera, or 0
    inside,            \* the tap the running engine records, or 0
    callback,          \* taps whose failure the engine has yet to call back
    engines, engineTaps,
    caller,            \* a start_preview() or start() under way
    ending,            \* a stop() or close() under way
    engineTold,        \* history: taps whose on_failure was called
    engineFaults

engineVars == <<engine, engineTap, engineHandles, device, inside, callback, engines, engineTaps,
                caller, ending, engineTold, engineFaults>>

NoCall == [at |-> "idle", records |-> FALSE, engine |-> 0, tap |-> 0]
NoEnding == [at |-> "idle", engine |-> 0]

EngineInit ==
    /\ engine = 0 /\ engineTap = 0 /\ engineHandles = 0
    /\ device = 0 /\ inside = 0 /\ callback = {} /\ engines = 0 /\ engineTaps = 0
    /\ caller = [p \in EngineCaller |-> NoCall] /\ ending = NoEnding
    /\ engineTold = {} /\ engineFaults = 0

EngineFault == engineFaults < MaxEngineFaults /\ engineFaults' = engineFaults + 1
Runs(e) == e # 0 /\ device = e
\* close() of an engine; the recording it had ends with it, without a call back
Closes(e) ==
    IF Runs(e) THEN device' = 0 /\ inside' = 0 ELSE UNCHANGED <<device, inside>>
CallTo(p, call) == caller' = [caller EXCEPT ![p] = call]

-----------------------------------------------------------------------------
(* start_preview() *)

\* An engine that runs, or has a recording, is left; one that died is replaced.
PreviewOpens(p, records) ==
    /\ caller[p].at = "idle" /\ (records => ending.at = "idle")
    /\ IF engine # 0 /\ (Runs(engine) \/ engineTap # 0)
       THEN CallTo(p, IF records THEN [NoCall EXCEPT !.at = "attach", !.records = TRUE]
                                 ELSE NoCall)
            /\ UNCHANGED <<engine, engineHandles>>
       ELSE /\ CallTo(p, [NoCall EXCEPT !.at = "create", !.records = records])
            /\ engine' = 0
            /\ engineHandles' = IF engine = 0 THEN engineHandles ELSE engineHandles - 1
    /\ UNCHANGED <<engineTap, device, inside, callback, engines, engineTaps, ending, engineTold,
                   engineFaults>>

\* reading or setting the focus first sees to the preview
EngineForControl(p) == PreviewOpens(p, FALSE)

\* the new engine takes the camera, or its start raises and it is closed
EngineCreated(p) ==
    /\ caller[p].at = "create"
    /\ \/ /\ device = 0 /\ engines < MaxEngines
          /\ engines' = engines + 1 /\ device' = engines + 1 /\ inside' = 0
          /\ CallTo(p, [caller[p] EXCEPT !.at = "register", !.engine = engines + 1])
       \/ CallTo(p, NoCall) /\ UNCHANGED <<engines, device, inside>>
    /\ UNCHANGED <<engine, engineTap, engineHandles, callback, engineTaps, ending, engineTold,
                   engineFaults>>

\* whoever comes second closes its own engine
EngineRegistered_LeavesEngine(p) ==
    /\ caller[p].at = "register"
    /\ IF engine # 0 THEN UNCHANGED <<engine, engineHandles>>
       ELSE engine' = caller[p].engine /\ engineHandles' = engineHandles + 1
    /\ CallTo(p, IF caller[p].records THEN [NoCall EXCEPT !.at = "attach", !.records = TRUE]
                                      ELSE NoCall)
    /\ UNCHANGED <<engineTap, device, inside, callback, engines, engineTaps, ending, engineTold,
                   engineFaults>>

EngineRegistered(p) ==
    LET e == caller[p].engine IN
    /\ caller[p].at = "register"
    /\ IF engine # 0
       THEN Closes(e) /\ UNCHANGED <<engine, engineHandles>>
       ELSE engine' = e /\ engineHandles' = engineHandles + 1 /\ UNCHANGED <<device, inside>>
    /\ CallTo(p, IF caller[p].records THEN [NoCall EXCEPT !.at = "attach", !.records = TRUE]
                                      ELSE NoCall)
    /\ UNCHANGED <<engineTap, callback, engines, engineTaps, ending, engineTold, engineFaults>>

-----------------------------------------------------------------------------
(* start() after it *)

EngineTapAttaches(p) ==
    /\ caller[p].at = "attach"
    /\ IF engineTap # 0 \/ engine = 0
       THEN CallTo(p, NoCall) /\ UNCHANGED <<engineTap, engineTaps, engineHandles>>
       ELSE /\ engineTaps < MaxEngineTaps /\ engineTaps' = engineTaps + 1
            /\ engineTap' = engineTaps + 1 /\ engineHandles' = engineHandles + 1
            /\ CallTo(p, [caller[p] EXCEPT !.at = "record", !.engine = engine,
                                           !.tap = engineTaps + 1])
    /\ UNCHANGED <<engine, device, inside, callback, engines, ending, engineTold, engineFaults>>

\* start_recording() raises when the engine has died or is closed: the tap is taken back
EngineRecords(p) ==
    LET e == caller[p].engine IN
    /\ caller[p].at = "record"
    /\ \/ Runs(e) /\ inside = 0 /\ inside' = caller[p].tap /\ CallTo(p, NoCall)
          /\ UNCHANGED <<engineTap, engineHandles, engineFaults>>
       \/ /\ (~Runs(e) /\ UNCHANGED engineFaults) \/ EngineFault
          /\ IF engineTap = caller[p].tap
             THEN engineTap' = 0 /\ engineHandles' = engineHandles - 1
             ELSE UNCHANGED <<engineTap, engineHandles>>
          /\ inside' = IF Runs(e) THEN 0 ELSE inside
          /\ CallTo(p, NoCall)
    /\ UNCHANGED <<engine, device, callback, engines, engineTaps, ending, engineTold>>

-----------------------------------------------------------------------------
(* An engine that dies, and _runtime_failure *)

EngineDies ==
    /\ device # 0 /\ EngineFault /\ device' = 0 /\ inside' = 0
    /\ callback' = callback \cup ({inside} \ {0})
    /\ UNCHANGED <<engine, engineTap, engineHandles, engines, engineTaps, caller, ending,
                   engineTold>>

RuntimeFailure_Any(t) ==
    /\ t \in callback /\ callback' = callback \ {t}
    /\ engineTap' = 0 /\ engineHandles' = IF engineTap = 0 THEN engineHandles ELSE engineHandles - 1
    /\ engineTold' = engineTold \cup {t}
    /\ UNCHANGED <<engine, device, inside, engines, engineTaps, caller, ending, engineFaults>>

RuntimeFailure(t) ==
    /\ t \in callback /\ callback' = callback \ {t}
    /\ IF engineTap = t
       THEN engineTap' = 0 /\ engineHandles' = engineHandles - 1
       ELSE UNCHANGED <<engineTap, engineHandles>>
    /\ engineTold' = engineTold \cup {t}
    /\ UNCHANGED <<engine, device, inside, engines, engineTaps, caller, ending, engineFaults>>

-----------------------------------------------------------------------------
(* stop() and close(): the coordinator stops what it has started *)

TakesTap_Uncounted == engineTap' = 0 /\ UNCHANGED engineHandles

TakesTap ==
    /\ engineTap' = 0
    /\ engineHandles' = IF engineTap = 0 THEN engineHandles ELSE engineHandles - 1

EngineStop ==
    /\ ending.at = "idle" /\ \A p \in EngineCaller : ~caller[p].records
    /\ TakesTap /\ ending' = [at |-> "stop", engine |-> engine]
    /\ UNCHANGED <<engine, device, inside, callback, engines, engineTaps, caller, engineTold,
                   engineFaults>>

EngineClose ==
    /\ ending.at = "idle" /\ TakesTap /\ ending' = [at |-> "close", engine |-> engine]
    /\ UNCHANGED <<engine, device, inside, callback, engines, engineTaps, caller, engineTold,
                   engineFaults>>

\* stop_recording() drains, or raises once it has waited long enough; close() goes on anyway
StopRecording ==
    /\ ending.at \in {"stop", "close"}
    /\ inside' = IF Runs(ending.engine) THEN 0 ELSE inside
    /\ ending' = IF ending.at = "close" THEN [NoEnding EXCEPT !.at = "release"] ELSE NoEnding
    /\ UNCHANGED <<engine, engineTap, engineHandles, device, callback, engines, engineTaps,
                   caller, engineTold, engineFaults>>

ReleaseEngine ==
    /\ ending.at = "release" /\ ending' = NoEnding
    /\ engine' = 0 /\ engineHandles' = IF engine = 0 THEN engineHandles ELSE engineHandles - 1
    /\ Closes(engine)
    /\ UNCHANGED <<engineTap, callback, engines, engineTaps, caller, engineTold, engineFaults>>

EngineNext ==
    \/ \E p \in EngineCaller :
          \/ EngineForControl(p) \/ PreviewOpens(p, TRUE) \/ EngineCreated(p)
          \/ EngineRegistered(p) \/ EngineTapAttaches(p) \/ EngineRecords(p)
    \/ EngineDies \/ \E t \in callback : RuntimeFailure(t)
    \/ EngineStop \/ EngineClose \/ StopRecording \/ ReleaseEngine

EngineSpec == EngineInit /\ [][EngineNext]_engineVars

-----------------------------------------------------------------------------
(* Properties *)

Calls == [at : {"idle", "create", "register", "attach", "record"}, records : BOOLEAN,
          engine : Nat, tap : Nat]

EngineTypeOK ==
    /\ engine \in Nat /\ engineTap \in Nat /\ engineHandles \in Nat /\ device \in Nat
    /\ inside \in Nat /\ engines \in Nat /\ engineTaps \in Nat /\ engineFaults \in Nat
    /\ callback \subseteq Nat /\ engineTold \subseteq Nat
    /\ caller \in [EngineCaller -> Calls]
    /\ ending \in [at : {"idle", "stop", "close", "release"}, engine : Nat]

\* _open_handles is what the sources hold: an engine and a recording, each counted once in
\* whatever order they fail, are replaced, stopped or closed (open_handle_count).
EngineHandlesCounted ==
    engineHandles = (IF engine = 0 THEN 0 ELSE 1) + (IF engineTap = 0 THEN 0 ELSE 1)

\* Two callers may both find no engine: the camera is never left with one that nobody holds
\* any more (start_preview, close).
EngineOwned ==
    device # 0 => \/ engine = device
                  \/ \E p \in EngineCaller : caller[p].at = "register" /\ caller[p].engine = device

\* A recording that fails late never takes the next one's handle or tap with it: what the
\* engine records is the tap the sources know, unless it is being stopped (_runtime_failure).
TapAgrees ==
    inside # 0 => \/ engineTap = inside
                  \/ ending.at \in {"stop", "close", "release"}

\* What the sources know is what the engines hold (NativeContinuousCaptureSources).
EngineSafe == EngineHandlesCounted /\ EngineOwned /\ TapAgrees
=============================================================================
