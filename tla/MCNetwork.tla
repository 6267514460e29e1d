------------------------------ MODULE MCNetwork ------------------------------
(* The network controller, its command line and a recording on one device. *)
EXTENDS NetworkControl, TLC

CONSTANT MaxTrouble    \* bound: faults, lost links, crashes and commands together

Symmetry == Permutations(Key)
Trouble == faults + drops + crashes + clis
\* bound: a command together with another trouble meets one transaction
TroubleBound == Trouble <= MaxTrouble /\ (clis = 1 => Trouble + Cardinality(used) <= 3)
=============================================================================
