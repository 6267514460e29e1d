-------------------------------- MODULE MCTake --------------------------------
(***************************************************************************)
(* A take from its sources to its directory: the camera and the IMU, or    *)
(* the native engine, the recorder's queue, writer and encoder helper, and *)
(* the directory across crashes.  The coordinator stands between them      *)
(* (CaptureCoordinator); here they share no state, so a behaviour of the   *)
(* whole projects to a behaviour of each, and a behaviour here moves one.  *)
(***************************************************************************)
EXTENDS SessionPublication, QueuedRecorder, CaptureSources, EngineSources

VARIABLE part          \* the part that moves

takeVars == <<part, vars, recVars, sourceVars, engineVars>>

TakeInit ==
    /\ part \in {"directory", "recorder", "sources", "engine"}
    /\ Init /\ RecInit /\ SourcesInit /\ EngineInit

\* the variables of the part that moves are the only ones that change
Moves(p, step) == part = p /\ UNCHANGED part /\ step

TakeNext ==
    /\ \/ Moves("directory", Next)
       \/ Moves("recorder", RecNext)
       \/ Moves("sources", SourcesNext)
       \/ Moves("engine", EngineNext)
       \/ part # "directory" /\ UNCHANGED takeVars   \* only the directory may not stop
    /\ part # "directory" => UNCHANGED vars
    /\ part # "recorder" => UNCHANGED recVars
    /\ part # "sources" => UNCHANGED sourceVars
    /\ part # "engine" => UNCHANGED engineVars

TakeSpec == TakeInit /\ [][TakeNext]_takeVars
=============================================================================
