---------------------------- MODULE MCMaintenance ----------------------------
EXTENDS FirmwareControl, TLC

\* commits and request keys are interchangeable
Symmetry == Permutations(Release) \cup Permutations(Key)

\* bound: of a publication, a failing step and a crash, two in one behaviour
EventBound == published + faults + crashes <= 2
=============================================================================
