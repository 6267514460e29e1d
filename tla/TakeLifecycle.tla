---------------------------- MODULE TakeLifecycle ----------------------------
(***************************************************************************)
(* What the device promises about one take, whatever fails or is killed:   *)
(* it is published at most once, either complete or as an interrupted      *)
(* prefix, a publication is never withdrawn or replaced, and a reported    *)
(* failure stays reported.                                                 *)
(***************************************************************************)
VARIABLES
    outcome,      \* how far the take has come, on disk
    reported      \* the take is listed among the unsuccessful ones

Init == outcome = "none" /\ reported = FALSE

Begin == outcome = "none" /\ outcome' = "recording" /\ UNCHANGED reported

Publish == /\ outcome = "recording"
           /\ outcome' \in {"complete", "interrupted"}
           /\ UNCHANGED reported

Report == reported' = TRUE /\ UNCHANGED outcome

Next == Begin \/ Publish \/ Report

Spec == Init /\ [][Next]_<<outcome, reported>>
=============================================================================
