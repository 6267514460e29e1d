------------------------------ MODULE MCLiveness ------------------------------
(***************************************************************************)
(* What must come to an end: the coordinator's workers and its shutdown,   *)
(* and a recorder's stop or failure.  They share no state here, and a      *)
(* behaviour moves one; whoever does not move has no step that fairness    *)
(* would ask for.                                                          *)
(***************************************************************************)
EXTENDS CaptureCoordinator, QueuedRecorder

VARIABLE part          \* the part that moves

allVars == <<part, vars, recVars>>

LiveInit == part \in {"coordinator", "recorder"} /\ Init /\ RecInit

LiveNext ==
    /\ UNCHANGED part
    /\ \/ part = "coordinator" /\ Next /\ UNCHANGED recVars
       \/ part = "recorder" /\ RecNext /\ UNCHANGED vars

LiveSpec == LiveInit /\ [][LiveNext]_allVars /\ Fairness /\ RecFairness
=============================================================================
