------------------------ MODULE MCCaptureCoordinator ------------------------
(* Small instances of CaptureCoordinator for TLC. *)
EXTENDS CaptureCoordinator, TLC

Symmetry == Permutations(Takes)
=============================================================================
