---------------------- MODULE CaptureCoordinatorProofs ----------------------
(***************************************************************************)
(* Proofs about CaptureCoordinator, for any sets of takes and stop keys:   *)
(* who may end a take (the ownership of the finalization, and the          *)
(* exclusion, lease and wakeup properties that follow from it), and what   *)
(* becomes of a take and of a stop that was answered (outcomes, source     *)
(* failures, receipts and the safe swap).                                  *)
(***************************************************************************)
EXTENDS CaptureCoordinator, TLAPS

-----------------------------------------------------------------------------
(* Types *)

\* Every lock block of the coordinator keeps the variables in their types.
LEMMA TypeStep ==
    ASSUME TypeOK, [Next]_vars
    PROVE  TypeOK'
  <1> USE ConstantsAssumption
      DEF TypeOK, MaybeTake, Receipt, NoReceipt, Agents, Monitors, Threads, Owners, Failers,
          PCs, OwnerSteps, FailSteps, CloseSteps, Goto, GotoNotify, Wake,
          takeVars, stopVars, failVars, swapVars, readVars, cmdVars, flagVars, pcVars
  <1>1. ASSUME NEW t \in Takes, Start(t) PROVE TypeOK'
    <2>1. TypePc' /\ TypeTake' BY <1>1 DEF Start, TypePc, TypeTake
    <2>2. CASE StartTake(t)
      <3>1. TypeFlags' BY <1>1, <2>2 DEF Start, StartTake, TypeFlags
      <3>2. TypeRecords' BY <1>1, <2>2 DEF Start, StartTake, TypeRecords
      <3> QED BY <2>1, <3>1, <3>2
    <2>3. CASE StartFailed(t)
      <3>1. TypeFlags' BY <1>1, <2>3 DEF Start, StartFailed, TypeFlags
      <3>2. TypeRecords' BY <1>1, <2>3 DEF Start, StartFailed, TypeRecords
      <3> QED BY <2>1, <3>1, <3>2
    <2>4. CASE StartEscapes(t)
      <3>1. TypeFlags' BY <1>1, <2>4 DEF Start, StartEscapes, TypeFlags
      <3>2. TypeRecords' BY <1>1, <2>4 DEF Start, StartEscapes, TypeRecords
      <3> QED BY <2>1, <3>1, <3>2
    <2> QED BY <1>1, <2>2, <2>3, <2>4 DEF Start
  <1>2. CASE SourceFailure
    <2>1. TypePc' BY <1>2 DEF SourceFailure, TypePc
    <2>2. TypeTake' /\ TypeRecords' BY <1>2 DEF SourceFailure, TypeTake, TypeFlags, TypeRecords
    <2>3. TypeFlags' BY <1>2 DEF SourceFailure, TypeTake, TypeFlags
    <2> QED BY <2>1, <2>2, <2>3
  <1>3. CASE Checkpoint
    <2>1. TypePc' /\ TypeTake' BY <1>3 DEF Checkpoint, TypePc, TypeTake
    <2>2. TypeFlags' /\ TypeRecords' BY <1>3 DEF Checkpoint, TypeFlags, TypeRecords
    <2> QED BY <2>1, <2>2
  <1>4. ASSUME NEW k \in Keys, RetryCompletedStop(k) PROVE TypeOK'
    <2>1. TypePc' BY <1>4 DEF RetryCompletedStop, TypePc
    <2>2. TypeTake' /\ TypeRecords' BY <1>4 DEF RetryCompletedStop, TypeTake, TypeFlags, TypeRecords
    <2>3. TypeFlags' BY <1>4 DEF RetryCompletedStop, TypeTake, TypeFlags
    <2> QED BY <2>1, <2>2, <2>3
  <1>5. ASSUME NEW k \in Keys, NEW ok \in BOOLEAN, CommitStopReplay(k, ok) PROVE TypeOK'
    <2>1. TypePc' BY <1>5 DEF CommitStopReplay, Persist, TypePc
    <2>2. TypeTake' /\ TypeRecords' BY <1>5 DEF CommitStopReplay, Persist, TypeTake, TypeFlags, TypeRecords
    <2>3. TypeFlags' BY <1>5 DEF CommitStopReplay, Persist, TypeTake, TypeFlags
    <2> QED BY <2>1, <2>2, <2>3
  <1>6. ASSUME NEW k \in Keys, RequestStop(k) PROVE TypeOK'
    <2>1. TypePc' BY <1>6 DEF RequestStop, Accepting, SpawnWorker, TypePc
    <2>2. TypeTake' /\ TypeRecords' BY <1>6 DEF RequestStop, Accepting, SpawnWorker, TypeTake, TypeFlags, TypeRecords
    <2>3. TypeFlags' BY <1>6 DEF RequestStop, Accepting, SpawnWorker, TypeTake, TypeFlags
    <2> QED BY <2>1, <2>2, <2>3
  <1>7. ASSUME NEW k \in Keys, RequestReceipt(k) PROVE TypeOK'
    <2>1. TypePc' BY <1>7 DEF RequestReceipt, Accepting, TypePc
    <2>2. TypeTake' /\ TypeRecords' BY <1>7 DEF RequestReceipt, Accepting, TypeTake, TypeFlags, TypeRecords
    <2>3. TypeFlags' BY <1>7 DEF RequestReceipt, Accepting, TypeTake, TypeFlags
    <2> QED BY <2>1, <2>2, <2>3
  <1>8. ASSUME NEW k \in Keys, RequestHandoff(k) PROVE TypeOK'
    <2>1. TypePc' BY <1>8 DEF RequestHandoff, Accepting, SpawnWorker, TypePc
    <2>2. TypeTake' /\ TypeRecords' BY <1>8 DEF RequestHandoff, Accepting, SpawnWorker, TypeTake, TypeFlags, TypeRecords
    <2>3. TypeFlags' BY <1>8 DEF RequestHandoff, Accepting, SpawnWorker, TypeTake, TypeFlags
    <2> QED BY <2>1, <2>2, <2>3
  <1>9. ASSUME NEW k \in Keys, AcceptOk(k) PROVE TypeOK'
    <2>1. TypePc' BY <1>9 DEF AcceptOk, Persist, TypePc
    <2>2. TypeTake' /\ TypeRecords' BY <1>9 DEF AcceptOk, Persist, TypeTake, TypeFlags, TypeRecords
    <2>3. TypeFlags' BY <1>9 DEF AcceptOk, Persist, TypeTake, TypeFlags
    <2> QED BY <2>1, <2>2, <2>3
  <1>10. ASSUME NEW k \in Keys, AcceptRollback(k) PROVE TypeOK'
    <2>1. TypePc' BY <1>10 DEF AcceptRollback, TypePc
    <2>2. TypeTake' /\ TypeRecords' BY <1>10 DEF AcceptRollback, TypeTake, TypeFlags, TypeRecords
    <2>3. TypeFlags' BY <1>10 DEF AcceptRollback, TypeTake, TypeFlags
    <2> QED BY <2>1, <2>2, <2>3
  <1>11. ASSUME NEW k \in Keys, AcceptRecover(k) PROVE TypeOK'
    <2>1. TypePc' BY <1>11 DEF AcceptRecover, TypePc
    <2>2. TypeTake' /\ TypeRecords' BY <1>11 DEF AcceptRecover, TypeTake, TypeFlags, TypeRecords
    <2>3. TypeFlags' BY <1>11 DEF AcceptRecover, TypeTake, TypeFlags
    <2> QED BY <2>1, <2>2, <2>3
  <1>12. ASSUME NEW k \in Keys, AcceptRelease(k) PROVE TypeOK'
    <2>1. TypePc' BY <1>12 DEF AcceptRelease, TypePc
    <2>2. TypeTake' /\ TypeRecords' BY <1>12 DEF AcceptRelease, TypeTake, TypeFlags, TypeRecords
    <2>3. TypeFlags' BY <1>12 DEF AcceptRelease, TypeTake, TypeFlags
    <2> QED BY <2>1, <2>2, <2>3
  <1>13. ASSUME NEW o \in Owners, StopSources(o) PROVE TypeOK'
    <2>1. TypePc' BY <1>13 DEF StopSources, Claim, TypePc
    <2>2. TypeTake' /\ TypeRecords' BY <1>13 DEF StopSources, Claim, TypeTake, TypeFlags, TypeRecords
    <2>3. TypeFlags' BY <1>13 DEF StopSources, Claim, TypeTake, TypeFlags
    <2> QED BY <2>1, <2>2, <2>3
  <1>14. ASSUME NEW o \in Owners, StopRecorder(o) PROVE TypeOK'
    <2>1. TypePc' BY <1>14 DEF StopRecorder, Claim, TypePc
    <2>2. TypeTake' /\ TypeRecords' BY <1>14 DEF StopRecorder, Claim, TypeTake, TypeFlags, TypeRecords
    <2>3. TypeFlags' BY <1>14 DEF StopRecorder, Claim, TypeTake, TypeFlags
    <2> QED BY <2>1, <2>2, <2>3
  <1>15. ASSUME NEW o \in Owners, Seal(o) PROVE TypeOK'
    <2>1. TypePc' BY <1>15 DEF Seal, Claim, TypePc
    <2>2. TypeTake' /\ TypeRecords' BY <1>15 DEF Seal, Claim, TypeTake, TypeFlags, TypeRecords
    <2>3. TypeFlags' BY <1>15, ZenonT(40) DEF Seal, Claim, TypeTake, TypeFlags
    <2> QED BY <2>1, <2>2, <2>3
  <1>16. ASSUME NEW o \in Owners, Catalog(o) PROVE TypeOK'
    <2>1. TypePc' BY <1>16 DEF Catalog, Claim, TypePc
    <2>2. TypeTake' /\ TypeRecords' BY <1>16 DEF Catalog, Claim, TypeTake, TypeFlags, TypeRecords
    <2>3. TypeFlags' BY <1>16, ZenonT(40) DEF Catalog, Claim, TypeTake, TypeFlags
    <2> QED BY <2>1, <2>2, <2>3
  <1>17. ASSUME NEW o \in Owners, ClearActive(o) PROVE TypeOK'
    <2>1. TypePc' BY <1>17 DEF ClearActive, Claim, EndRefused, IsSwap, Scope, TypePc
    <2>2. TypeTake' /\ TypeRecords' BY <1>17 DEF ClearActive, Claim, EndRefused, IsSwap, Scope, TypeTake, TypeFlags, TypeRecords
    <2>3. TypeFlags' BY <1>17 DEF ClearActive, Claim, EndRefused, IsSwap, Scope, TypeTake, TypeFlags
    <2> QED BY <2>1, <2>2, <2>3
  <1>18. ASSUME NEW o \in Owners, NEW ok \in BOOLEAN, CommitStop(o, ok) PROVE TypeOK'
    <2>1. TypePc' BY <1>18 DEF CommitStop, Persist, TypePc
    <2>2. TypeTake' /\ TypeRecords' BY <1>18 DEF CommitStop, Persist, TypeTake, TypeFlags, TypeRecords
    <2>3. TypeFlags' BY <1>18 DEF CommitStop, Persist, TypeTake, TypeFlags
    <2> QED BY <2>1, <2>2, <2>3
  <1>19. ASSUME NEW o \in Owners, StopFinally(o) PROVE TypeOK'
    <2>1. TypePc' BY <1>19 DEF StopFinally, LeaseAfterStop, Scope, TypePc
    <2>2. TypeTake' /\ TypeRecords' BY <1>19 DEF StopFinally, LeaseAfterStop, Scope, TypeTake, TypeFlags, TypeRecords
    <2>3. TypeFlags' BY <1>19 DEF StopFinally, LeaseAfterStop, Scope, TypeTake, TypeFlags
    <2> QED BY <2>1, <2>2, <2>3
  <1>20. ASSUME NEW ok \in BOOLEAN, PersistIntent(ok) PROVE TypeOK'
    <2>1. TypePc' BY <1>20 DEF PersistIntent, Persist, TypePc
    <2>2. TypeTake' /\ TypeRecords' BY <1>20 DEF PersistIntent, Persist, TypeTake, TypeFlags, TypeRecords
    <2>3. TypeFlags' BY <1>20 DEF PersistIntent, Persist, TypeTake, TypeFlags
    <2> QED BY <2>1, <2>2, <2>3
  <1>21. CASE CheckSwap
    <2>1. TypePc' BY <1>21 DEF CheckSwap, SwapRaised, Handoff, TypePc
    <2>2. TypeTake' /\ TypeRecords' BY <1>21 DEF CheckSwap, SwapRaised, Handoff, TypeTake, TypeFlags, TypeRecords
    <2>3. TypeFlags' BY <1>21 DEF CheckSwap, SwapRaised, Handoff, TypeTake, TypeFlags
    <2> QED BY <2>1, <2>2, <2>3
  <1>22. ASSUME NEW ok \in BOOLEAN, PersistReceipt(ok) PROVE TypeOK'
    <2>1. TypePc' BY <1>22 DEF PersistReceipt, Persist, SwapRaised, Handoff, TypePc
    <2>2. TypeTake' /\ TypeRecords' BY <1>22 DEF PersistReceipt, Persist, SwapRaised, Handoff, TypeTake, TypeFlags, TypeRecords
    <2>3. TypeFlags' BY <1>22 DEF PersistReceipt, Persist, SwapRaised, Handoff, TypeTake, TypeFlags
    <2> QED BY <2>1, <2>2, <2>3
  <1>23. CASE PublishSwap
    <2>1. TypePc' BY <1>23 DEF PublishSwap, Handoff, TypePc
    <2>2. TypeTake' /\ TypeRecords' BY <1>23 DEF PublishSwap, Handoff, TypeTake, TypeFlags, TypeRecords
    <2>3. TypeFlags' BY <1>23 DEF PublishSwap, Handoff, TypeTake, TypeFlags
    <2> QED BY <2>1, <2>2, <2>3
  <1>24. ASSUME NEW ok \in BOOLEAN, HandoffFailed(ok) PROVE TypeOK'
    <2>1. TypePc' BY <1>24 DEF HandoffFailed, Persist, TypePc
    <2>2. TypeTake' /\ TypeRecords' BY <1>24 DEF HandoffFailed, Persist, TypeTake, TypeFlags, TypeRecords
    <2>3. TypeFlags' BY <1>24 DEF HandoffFailed, Persist, TypeTake, TypeFlags
    <2> QED BY <2>1, <2>2, <2>3
  <1>25. CASE HandoffFinally
    <2>1. TypePc' BY <1>25 DEF HandoffFinally, TypePc
    <2>2. TypeTake' /\ TypeRecords' BY <1>25 DEF HandoffFinally, TypeTake, TypeFlags, TypeRecords
    <2>3. TypeFlags' BY <1>25 DEF HandoffFinally, TypeTake, TypeFlags
    <2> QED BY <2>1, <2>2, <2>3
  <1>26. ASSUME NEW ok \in BOOLEAN, WorkerExcept(ok) PROVE TypeOK'
    <2>1. TypePc' BY <1>26 DEF WorkerExcept, Claim, Persist, TypePc
    <2>2. TypeTake' /\ TypeRecords' BY <1>26 DEF WorkerExcept, Claim, Persist, TypeTake, TypeFlags, TypeRecords
    <2>3. TypeFlags' BY <1>26 DEF WorkerExcept, Claim, Persist, TypeTake, TypeFlags
    <2> QED BY <2>1, <2>2, <2>3
  <1>27. CASE WorkerDone
    <2>1. TypePc' BY <1>27 DEF WorkerDone, TypePc
    <2>2. TypeTake' /\ TypeRecords' BY <1>27 DEF WorkerDone, TypeTake, TypeFlags, TypeRecords
    <2>3. TypeFlags' BY <1>27 DEF WorkerDone, TypeTake, TypeFlags
    <2> QED BY <2>1, <2>2, <2>3
  <1>28. ASSUME NEW a \in Failers, FailRecorder(a) PROVE TypeOK'
    <2>1. TypePc' BY <1>28 DEF FailRecorder, TypePc
    <2>2. TypeTake' /\ TypeRecords' BY <1>28 DEF FailRecorder, TypeTake, TypeFlags, TypeRecords
    <2>3. TypeFlags' BY <1>28 DEF FailRecorder, TypeTake, TypeFlags
    <2> QED BY <2>1, <2>2, <2>3
  <1>29. ASSUME NEW a \in Failers, RetainFailure(a) PROVE TypeOK'
    <2>1. TypePc' BY <1>29 DEF RetainFailure, TypePc
    <2>2. TypeTake' /\ TypeRecords' BY <1>29 DEF RetainFailure, TypeTake, TypeFlags, TypeRecords
    <2>3. TypeFlags' BY <1>29 DEF RetainFailure, TypeTake, TypeFlags
    <2> QED BY <2>1, <2>2, <2>3
  <1>30. ASSUME NEW a \in Failers, NEW ok \in BOOLEAN, PersistFailure(a, ok) PROVE TypeOK'
    <2>1. TypePc' BY <1>30 DEF PersistFailure, Persist, TypePc
    <2>2. TypeTake' /\ TypeRecords' BY <1>30 DEF PersistFailure, Persist, TypeTake, TypeFlags, TypeRecords
    <2>3. TypeFlags' BY <1>30 DEF PersistFailure, Persist, TypeTake, TypeFlags
    <2> QED BY <2>1, <2>2, <2>3
  <1>31. ASSUME NEW a \in Failers, CommitFailure(a) PROVE TypeOK'
    <2>1. TypePc' BY <1>31 DEF CommitFailure, TypePc
    <2>2. TypeTake' /\ TypeRecords' BY <1>31 DEF CommitFailure, TypeTake, TypeFlags, TypeRecords
    <2>3. TypeFlags' BY <1>31 DEF CommitFailure, TypeTake, TypeFlags
    <2> QED BY <2>1, <2>2, <2>3
  <1>32. ASSUME NEW a \in Failers, FailFinally(a) PROVE TypeOK'
    <2>1. TypePc' BY <1>32 DEF FailFinally, Scope, TypePc
    <2>2. TypeTake' /\ TypeRecords' BY <1>32 DEF FailFinally, Scope, TypeTake, TypeFlags, TypeRecords
    <2>3. TypeFlags' BY <1>32 DEF FailFinally, Scope, TypeTake, TypeFlags
    <2> QED BY <2>1, <2>2, <2>3
  <1>33. ASSUME NEW m \in Monitors, MonitorFire(m) PROVE TypeOK'
    <2>1. TypePc' BY <1>33 DEF MonitorFire, TypePc
    <2>2. TypeTake' /\ TypeRecords' BY <1>33 DEF MonitorFire, TypeTake, TypeFlags, TypeRecords
    <2>3. TypeFlags' BY <1>33 DEF MonitorFire, TypeTake, TypeFlags
    <2> QED BY <2>1, <2>2, <2>3
  <1>34. ASSUME NEW m \in Monitors, MonitorLoop(m) PROVE TypeOK'
    <2>1. TypePc' BY <1>34 DEF MonitorLoop, TypePc
    <2>2. TypeTake' /\ TypeRecords' BY <1>34 DEF MonitorLoop, TypeTake, TypeFlags, TypeRecords
    <2>3. TypeFlags' BY <1>34 DEF MonitorLoop, TypeTake, TypeFlags
    <2> QED BY <2>1, <2>2, <2>3
  <1>35. CASE CloseBegin
    <2>1. TypePc' BY <1>35 DEF CloseBegin, TypePc
    <2>2. TypeTake' /\ TypeRecords' BY <1>35 DEF CloseBegin, TypeTake, TypeFlags, TypeRecords
    <2>3. TypeFlags' BY <1>35 DEF CloseBegin, TypeTake, TypeFlags
    <2> QED BY <2>1, <2>2, <2>3
  <1>36. CASE CloseSources
    <2>1. TypePc' BY <1>36 DEF CloseSources, TypePc
    <2>2. TypeTake' /\ TypeRecords' BY <1>36 DEF CloseSources, TypeTake, TypeFlags, TypeRecords
    <2>3. TypeFlags' BY <1>36 DEF CloseSources, TypeTake, TypeFlags
    <2> QED BY <2>1, <2>2, <2>3
  <1>37. CASE CloseLoop
    <2>1. TypePc' BY <1>37 DEF CloseLoop, TypePc
    <2>2. TypeTake' /\ TypeRecords' BY <1>37 DEF CloseLoop, TypeTake, TypeFlags, TypeRecords
    <2>3. TypeFlags' BY <1>37 DEF CloseLoop, TypeTake, TypeFlags
    <2> QED BY <2>1, <2>2, <2>3
  <1>38. CASE CloseAbort
    <2>1. TypePc' BY <1>38 DEF CloseAbort, TypePc
    <2>2. TypeTake' /\ TypeRecords' BY <1>38 DEF CloseAbort, TypeTake, TypeFlags, TypeRecords
    <2>3. TypeFlags' BY <1>38 DEF CloseAbort, TypeTake, TypeFlags
    <2> QED BY <2>1, <2>2, <2>3
  <1>39. ASSUME NEW ok \in BOOLEAN, CloseRetain(ok) PROVE TypeOK'
    <2>1. TypePc' BY <1>39 DEF CloseRetain, TypePc
    <2>2. TypeTake' /\ TypeRecords' BY <1>39 DEF CloseRetain, TypeTake, TypeFlags, TypeRecords
    <2>3. TypeFlags'
      <3>1. active' \in MaybeTake /\ retained' \subseteq MaybeTake
        BY <1>39 DEF CloseRetain, TypeFlags
      <3>2. stopCommit' \in Keys \cup Monitors \cup {None}
        BY <1>39 DEF CloseRetain, TypeFlags
      <3>3. failPending' \in MaybeTake /\ failProj' \in BOOLEAN
        BY <1>39 DEF CloseRetain, TypeFlags
      <3> QED BY <1>39, <3>1, <3>2, <3>3 DEF CloseRetain, TypeFlags
    <2> QED BY <2>1, <2>2, <2>3
  <1>40. CASE CloseFinally
    <2>1. TypePc' BY <1>40 DEF CloseFinally, TypePc
    <2>2. TypeTake' /\ TypeRecords' BY <1>40 DEF CloseFinally, TypeTake, TypeFlags, TypeRecords
    <2>3. TypeFlags' BY <1>40 DEF CloseFinally, TypeTake, TypeFlags
    <2> QED BY <2>1, <2>2, <2>3
  <1>41. CASE OpenRepresentation
    <2>1. TypePc' /\ TypeTake' BY <1>41 DEF OpenRepresentation, TypePc, TypeTake
    <2>2. TypeFlags' /\ TypeRecords' BY <1>41 DEF OpenRepresentation, TypeFlags, TypeRecords
    <2> QED BY <2>1, <2>2
  <1>42. CASE CloseRepresentation
    <2>1. TypePc' /\ TypeTake' BY <1>42 DEF CloseRepresentation, TypePc, TypeTake
    <2>2. TypeFlags' /\ TypeRecords' BY <1>42 DEF CloseRepresentation, TypeFlags, TypeRecords
    <2> QED BY <2>1, <2>2
  <1>43. CASE VerifyBegin
    <2>1. TypePc' /\ TypeTake' BY <1>43 DEF VerifyBegin, TypePc, TypeTake
    <2>2. TypeFlags' /\ TypeRecords' BY <1>43 DEF VerifyBegin, TypeFlags, TypeRecords
    <2> QED BY <2>1, <2>2
  <1>44. CASE VerifyEnd
    <2>1. TypePc' BY <1>44 DEF VerifyEnd, TypePc
    <2>2. TypeTake' /\ TypeRecords' BY <1>44 DEF VerifyEnd, TypeTake, TypeFlags, TypeRecords
    <2>3. TypeFlags' BY <1>44 DEF VerifyEnd, TypeTake, TypeFlags
    <2> QED BY <2>1, <2>2, <2>3
  <1>45. CASE UNCHANGED vars
    BY <1>45 DEF vars, TypeFlags, TypeRecords, TypePc, TypeTake
  <1> QED
    BY <1>1, <1>2, <1>3, <1>4, <1>5, <1>6, <1>7, <1>8, <1>9, <1>10, <1>11, <1>12, <1>13,
       <1>14, <1>15, <1>16, <1>17, <1>18, <1>19, <1>20, <1>21, <1>22, <1>23, <1>24, <1>25,
       <1>26, <1>27, <1>28, <1>29, <1>30, <1>31, <1>32, <1>33, <1>34, <1>35, <1>36, <1>37,
       <1>38, <1>39, <1>40, <1>41, <1>42, <1>43, <1>44, <1>45
       DEF Next, Environment, KeyStep, OwnerStep, FailStep, WorkerStep, CloseStep, Terminated

\* The coordinator's variables keep their types, for any takes and keys.
THEOREM TypeCorrect == Spec => []TypeOK
  <1>1. Init => TypeOK
    <2> SUFFICES ASSUME Init PROVE TypeOK
      OBVIOUS
    <2>1. TypeFlags
      <3>1. handles \in 0 .. MaxHandles
        BY ConstantsAssumption DEF Init
      <3>2. {failProj, pendSrc, lease, closing, swapFail, released, verifying} \subseteq BOOLEAN
        BY DEF Init
      <3> QED BY <3>1, <3>2 DEF Init, TypeFlags, MaybeTake
    <2>2. TypeRecords BY DEF Init, TypeRecords, NoReceipt, Receipt
    <2>3. TypePc BY DEF Init, TypePc, PCs
    <2>4. TypeTake BY DEF Init, TypeTake, MaybeTake
    <2> QED BY <2>1, <2>2, <2>3, <2>4 DEF TypeOK
  <1>2. TypeOK /\ [Next]_vars => TypeOK'
    BY TypeStep
  <1> QED BY <1>1, <1>2, PTL DEF Spec

-----------------------------------------------------------------------------
(* Ownership *)

\* What a rolled back acceptance does to each thread.
RolledBack(k) ==
    /\ pc[k] = "accept" /\ pc'[k] = "recover" /\ commands' = saved
    /\ \A a \in Agents \ {k, "worker"} : pc'[a] = pc[a]
    /\ \A a \in Agents \ {"worker"} : take'[a] = take[a]
    /\ UNCHANGED <<active, rec, retained, stopAccept, stopCommit, failInflight, failProj,
                   failPending, pendSrc, pendingSwap, swapFail, released, handles,
                   verifying, persisted, saved, closing>>
    /\ \/ /\ wkey = k /\ pc["worker"] = "gated"
          /\ wkey' = None /\ stopInflight' = None
          /\ pc'["worker"] = "idle" /\ take'["worker"] = None
          /\ lease' = IF take["worker"] = None THEN FALSE ELSE lease
       \/ /\ ~(wkey = k /\ pc["worker"] = "gated")
          /\ pc'["worker"] = pc["worker"] /\ take'["worker"] = take["worker"]
          /\ UNCHANGED <<wkey, stopInflight, lease>>

\* The rollback of _finish_stop_acceptance, thread by thread.
LEMMA RollbackEffect ==
    ASSUME TypeOK, NEW k \in Keys, AcceptRollback(k)
    PROVE  k \notin Monitors \cup Threads /\ RolledBack(k)
  <1> USE ConstantsAssumption
      DEF RolledBack, TypeOK, TypePc, TypeTake, Agents, Monitors, Threads, Goto
  <1>1. k \notin Monitors \cup Threads
    OBVIOUS
  <1>2. /\ pc[k] = "accept" /\ commands' = saved
        /\ UNCHANGED <<active, rec, retained, stopAccept, stopCommit, failInflight, failProj,
                       failPending, pendSrc, pendingSwap, swapFail, released, handles,
                       verifying, persisted, saved, closing>>
    BY DEF AcceptRollback, takeVars, failVars, swapVars, readVars
  <1>3. CASE wkey = k /\ pc["worker"] = "gated"
    <2>1. /\ wkey' = None /\ stopInflight' = None
          /\ pc' = [pc EXCEPT ![k] = "recover", !["worker"] = "idle"]
          /\ take' = [take EXCEPT !["worker"] = None]
          /\ lease' = IF take["worker"] = None THEN FALSE ELSE lease
      BY <1>3 DEF AcceptRollback
    <2> QED BY <1>1, <1>2, <1>3, <2>1
  <1>4. CASE ~(wkey = k /\ pc["worker"] = "gated")
    <2>1. pc' = [pc EXCEPT ![k] = "recover"] /\ UNCHANGED <<wkey, stopInflight, lease, take>>
      BY <1>4 DEF AcceptRollback
    <2> QED BY <1>1, <1>2, <1>4, <2>1
  <1> QED BY <1>1, <1>3, <1>4

\* Every lock block keeps the ownership of the finalization consistent.
LEMMA OwnershipStep ==
    ASSUME TypeOK, Ownership, [Next]_vars
    PROVE  Ownership'
  <1> USE ConstantsAssumption
      DEF TypeOK, TypePc, TypeTake, Agents, Monitors, Threads, Owners, Failers, OwnerSteps,
         FailSteps, CloseSteps, Holding, Goto, GotoNotify, Wake, takeVars, stopVars, failVars,
         swapVars, readVars, cmdVars, flagVars, pcVars, Ownership, TypeFlags, TypeRecords,
         AcceptanceHeld, WorkerHeld, MonitorHeld, ReplayHeld, CloseHeld, ClosureHeld,
         NoTakeHeld
  <1>1. ASSUME NEW t \in Takes, Start(t) PROVE Ownership'
    BY <1>1 DEF Start, StartTake, StartFailed, StartEscapes, StartAdmitted
  <1>2. CASE SourceFailure
    BY <1>2 DEF SourceFailure
  <1>3. CASE Checkpoint
    BY <1>3 DEF Checkpoint
  <1>4. ASSUME NEW k \in Keys, RetryCompletedStop(k) PROVE Ownership'
    BY <1>4 DEF RetryCompletedStop, Finalizing
  <1>5. ASSUME NEW k \in Keys, NEW ok \in BOOLEAN, CommitStopReplay(k, ok) PROVE Ownership'
    BY <1>5 DEF CommitStopReplay, Persist
  <1>6. ASSUME NEW k \in Keys, RequestStop(k) PROVE Ownership'
    BY <1>6 DEF RequestStop, Accepting, SpawnWorker, PrepareAdmitted, Rearmed
  <1>7. ASSUME NEW k \in Keys, RequestReceipt(k) PROVE Ownership'
    BY <1>7 DEF RequestReceipt, Accepting, PrepareAdmitted
  <1>8. ASSUME NEW k \in Keys, RequestHandoff(k) PROVE Ownership'
    BY <1>8 DEF RequestHandoff, Accepting, SpawnWorker, PrepareAdmitted, Rearmed
  <1>9. ASSUME NEW k \in Keys, AcceptOk(k) PROVE Ownership'
    BY <1>9 DEF AcceptOk, Persist
  <1>10. ASSUME NEW k \in Keys, AcceptRollback(k) PROVE Ownership'
    <2>1. k \notin Monitors \cup Threads /\ RolledBack(k) BY <1>10, RollbackEffect
    <2>2. AcceptanceHeld' BY <2>1 DEF RolledBack
    <2>3. WorkerHeld' BY <2>1 DEF RolledBack
    <2>4. MonitorHeld' BY <2>1, ZenonT(40) DEF RolledBack
    <2>5. ReplayHeld' BY <2>1, ZenonT(40) DEF RolledBack
    <2>6. CloseHeld' BY <2>1 DEF RolledBack
    <2>7. ClosureHeld' BY <2>1, ZenonT(40) DEF RolledBack
    <2>8. NoTakeHeld' BY <2>1 DEF RolledBack
    <2> QED BY <2>2, <2>3, <2>4, <2>5, <2>6, <2>7, <2>8
  <1>11. ASSUME NEW k \in Keys, AcceptRecover(k) PROVE Ownership'
    BY <1>11 DEF AcceptRecover
  <1>12. ASSUME NEW k \in Keys, AcceptRelease(k) PROVE Ownership'
    BY <1>12 DEF AcceptRelease
  <1>13. ASSUME NEW o \in Owners, StopSources(o) PROVE Ownership'
    BY <1>13 DEF StopSources, Claim
  <1>14. ASSUME NEW o \in Owners, StopRecorder(o) PROVE Ownership'
    BY <1>14 DEF StopRecorder, Claim
  <1>15. ASSUME NEW o \in Owners, Seal(o) PROVE Ownership'
    BY <1>15 DEF Seal, Claim
  <1>16. ASSUME NEW o \in Owners, Catalog(o) PROVE Ownership'
    BY <1>16 DEF Catalog, Claim
  <1>17. ASSUME NEW o \in Owners, ClearActive(o) PROVE Ownership'
    BY <1>17 DEF ClearActive, Claim, EndRefused, IsSwap, Scope
  <1>18. ASSUME NEW o \in Owners, NEW ok \in BOOLEAN, CommitStop(o, ok) PROVE Ownership'
    BY <1>18 DEF CommitStop, Persist
  <1>19. ASSUME NEW o \in Owners, StopFinally(o) PROVE Ownership'
    BY <1>19 DEF StopFinally, LeaseAfterStop, Scope
  <1>20. ASSUME NEW ok \in BOOLEAN, PersistIntent(ok) PROVE Ownership'
    BY <1>20 DEF PersistIntent, Persist
  <1>21. CASE CheckSwap
    BY <1>21 DEF CheckSwap, SwapRaised, Handoff
  <1>22. ASSUME NEW ok \in BOOLEAN, PersistReceipt(ok) PROVE Ownership'
    BY <1>22 DEF PersistReceipt, Persist, SwapRaised, Handoff
  <1>23. CASE PublishSwap
    BY <1>23 DEF PublishSwap, Handoff
  <1>24. ASSUME NEW ok \in BOOLEAN, HandoffFailed(ok) PROVE Ownership'
    BY <1>24 DEF HandoffFailed, Persist
  <1>25. CASE HandoffFinally
    BY <1>25 DEF HandoffFinally
  <1>26. ASSUME NEW ok \in BOOLEAN, WorkerExcept(ok) PROVE Ownership'
    BY <1>26 DEF WorkerExcept, Claim, Persist
  <1>27. CASE WorkerDone
    BY <1>27 DEF WorkerDone
  <1>28. ASSUME NEW a \in Failers, FailRecorder(a) PROVE Ownership'
    BY <1>28 DEF FailRecorder
  <1>29. ASSUME NEW a \in Failers, RetainFailure(a) PROVE Ownership'
    BY <1>29 DEF RetainFailure
  <1>30. ASSUME NEW a \in Failers, NEW ok \in BOOLEAN, PersistFailure(a, ok) PROVE Ownership'
    BY <1>30 DEF PersistFailure, Persist
  <1>31. ASSUME NEW a \in Failers, CommitFailure(a) PROVE Ownership'
    BY <1>31 DEF CommitFailure
  <1>32. ASSUME NEW a \in Failers, FailFinally(a) PROVE Ownership'
    BY <1>32 DEF FailFinally, Scope
  <1>33. ASSUME NEW m \in Monitors, MonitorFire(m) PROVE Ownership'
    BY <1>33 DEF MonitorFire
  <1>34. ASSUME NEW m \in Monitors, MonitorLoop(m) PROVE Ownership'
    BY <1>34 DEF MonitorLoop, Finalizing
  <1>35. CASE CloseBegin
    BY <1>35 DEF CloseBegin
  <1>36. CASE CloseSources
    BY <1>36 DEF CloseSources
  <1>37. CASE CloseLoop
    BY <1>37 DEF CloseLoop, Finalizing
  <1>38. CASE CloseAbort
    BY <1>38 DEF CloseAbort
  <1>39. ASSUME NEW ok \in BOOLEAN, CloseRetain(ok) PROVE Ownership'
    BY <1>39 DEF CloseRetain
  <1>40. CASE CloseFinally
    BY <1>40 DEF CloseFinally
  <1>41. CASE OpenRepresentation
    BY <1>41 DEF OpenRepresentation, VolumeReadable
  <1>42. CASE CloseRepresentation
    BY <1>42 DEF CloseRepresentation
  <1>43. CASE VerifyBegin
    BY <1>43 DEF VerifyBegin, VolumeReadable
  <1>44. CASE VerifyEnd
    BY <1>44 DEF VerifyEnd
  <1>45. CASE UNCHANGED vars
    BY <1>45 DEF vars
  <1> HIDE DEF Ownership, TypeFlags, TypeRecords, AcceptanceHeld, WorkerHeld, MonitorHeld,
     ReplayHeld, CloseHeld, ClosureHeld, NoTakeHeld
  <1> QED
    BY <1>1, <1>2, <1>3, <1>4, <1>5, <1>6, <1>7, <1>8, <1>9, <1>10, <1>11, <1>12, <1>13,
       <1>14, <1>15, <1>16, <1>17, <1>18, <1>19, <1>20, <1>21, <1>22, <1>23, <1>24, <1>25,
       <1>26, <1>27, <1>28, <1>29, <1>30, <1>31, <1>32, <1>33, <1>34, <1>35, <1>36, <1>37,
       <1>38, <1>39, <1>40, <1>41, <1>42, <1>43, <1>44, <1>45
       DEF Next, Environment, KeyStep, OwnerStep, FailStep, WorkerStep, CloseStep, Terminated

\* Every lock block keeps the thread labels, the claim of the failure path and
\* what each owner has established.
LEMMA ControlStep ==
    ASSUME TypeOK, Ownership, Control, [Next]_vars
    PROVE  Control'
  <1> USE ConstantsAssumption
      DEF TypeOK, TypePc, TypeTake, Agents, Monitors, Threads, Owners, Failers, OwnerSteps,
         FailSteps, CloseSteps, Holding, Goto, GotoNotify, Wake, takeVars, stopVars, failVars,
         swapVars, readVars, cmdVars, flagVars, pcVars, Control, Ownership, TypeFlags,
         TypeRecords, AcceptanceHeld, WorkerHeld, MonitorHeld, ReplayHeld, CloseHeld,
         ClosureHeld, NoTakeHeld, LabelsHeld, FailureHeld, OwnerHoldsItsTake, CommitAssertion,
         ProgressHeld
  <1>1. ASSUME NEW t \in Takes, Start(t) PROVE Control'
    BY <1>1 DEF Start, StartTake, StartFailed, StartEscapes, StartAdmitted
  <1>2. CASE SourceFailure
    BY <1>2 DEF SourceFailure
  <1>3. CASE Checkpoint
    BY <1>3 DEF Checkpoint
  <1>4. ASSUME NEW k \in Keys, RetryCompletedStop(k) PROVE Control'
    BY <1>4 DEF RetryCompletedStop, Finalizing
  <1>5. ASSUME NEW k \in Keys, NEW ok \in BOOLEAN, CommitStopReplay(k, ok) PROVE Control'
    BY <1>5 DEF CommitStopReplay, Persist
  <1>6. ASSUME NEW k \in Keys, RequestStop(k) PROVE Control'
    BY <1>6 DEF RequestStop, Accepting, SpawnWorker, PrepareAdmitted, Rearmed
  <1>7. ASSUME NEW k \in Keys, RequestReceipt(k) PROVE Control'
    BY <1>7 DEF RequestReceipt, Accepting, PrepareAdmitted
  <1>8. ASSUME NEW k \in Keys, RequestHandoff(k) PROVE Control'
    BY <1>8 DEF RequestHandoff, Accepting, SpawnWorker, PrepareAdmitted, Rearmed
  <1>9. ASSUME NEW k \in Keys, AcceptOk(k) PROVE Control'
    BY <1>9, SMTT(30) DEF AcceptOk, Persist
  <1>10. ASSUME NEW k \in Keys, AcceptRollback(k) PROVE Control'
    <2>1. CASE wkey = k /\ pc["worker"] = "gated"
      <3>1. /\ pc' = [pc EXCEPT ![k] = "recover", !["worker"] = "idle"]
            /\ take' = [take EXCEPT !["worker"] = None]
            /\ wkey' = None /\ stopInflight' = None
            /\ lease' = (IF take["worker"] = None THEN FALSE ELSE lease)
            /\ UNCHANGED <<active, rec, retained, failVars, pendingSwap>>
        BY <1>10, <2>1 DEF AcceptRollback
      <3>2. k \notin Monitors \cup Threads
        OBVIOUS
      <3>3. /\ pc'["worker"] = "idle" /\ pc'["failure"] = pc["failure"]
            /\ pc'["close"] = pc["close"] /\ pc'[k] = "recover"
            /\ \A a \in Agents \ {k, "worker"} : pc'[a] = pc[a] /\ take'[a] = take[a]
        BY <3>1, <3>2
      <3>4. LabelsHeld' BY <1>10, <2>1, <3>1, <3>2, <3>3
      <3>5. FailureHeld' BY <1>10, <2>1, <3>1, <3>2, <3>3
      <3>6. OwnerHoldsItsTake' BY <1>10, <2>1, <3>1, <3>2, <3>3
      <3>7. CommitAssertion' BY <1>10, <2>1, <3>1, <3>2, <3>3
      <3>8. ProgressHeld' BY <1>10, <2>1, <3>1, <3>2, <3>3
      <3> QED BY <3>4, <3>5, <3>6, <3>7, <3>8
    <2>2. CASE ~(wkey = k /\ pc["worker"] = "gated")
      <3>1. /\ pc' = [pc EXCEPT ![k] = "recover"]
            /\ UNCHANGED <<take, wkey, stopInflight, lease, active, rec, retained, failVars, pendingSwap>>
        BY <1>10, <2>2 DEF AcceptRollback
      <3>2. k \notin Monitors \cup Threads
        OBVIOUS
      <3>3. /\ pc'["worker"] = pc["worker"] /\ pc'["failure"] = pc["failure"]
            /\ pc'["close"] = pc["close"] /\ pc'[k] = "recover"
            /\ \A a \in Agents \ {k} : pc'[a] = pc[a]
        BY <3>1, <3>2
      <3>4. LabelsHeld' BY <1>10, <2>2, <3>1, <3>2, <3>3
      <3>5. FailureHeld' BY <1>10, <2>2, <3>1, <3>2, <3>3
      <3>6. OwnerHoldsItsTake' BY <1>10, <2>2, <3>1, <3>2, <3>3
      <3>7. CommitAssertion' BY <1>10, <2>2, <3>1, <3>2, <3>3
      <3>8. ProgressHeld' BY <1>10, <2>2, <3>1, <3>2, <3>3
      <3> QED BY <3>4, <3>5, <3>6, <3>7, <3>8
    <2> QED BY <2>1, <2>2
  <1>11. ASSUME NEW k \in Keys, AcceptRecover(k) PROVE Control'
    BY <1>11 DEF AcceptRecover
  <1>12. ASSUME NEW k \in Keys, AcceptRelease(k) PROVE Control'
    BY <1>12 DEF AcceptRelease
  <1>13. ASSUME NEW o \in Owners, StopSources(o) PROVE Control'
    BY <1>13 DEF StopSources, Claim
  <1>14. ASSUME NEW o \in Owners, StopRecorder(o) PROVE Control'
    BY <1>14 DEF StopRecorder, Claim
  <1>15. ASSUME NEW o \in Owners, Seal(o) PROVE Control'
    <2>1. LabelsHeld' BY <1>15 DEF Seal, Claim
    <2>2. FailureHeld' BY <1>15 DEF Seal, Claim
    <2>3. OwnerHoldsItsTake' BY <1>15 DEF Seal, Claim
    <2>4. CommitAssertion' BY <1>15 DEF Seal, Claim
    <2>5. ProgressHeld'
      <3>1. take[o] \in Takes
        BY <1>15 DEF Seal, MaybeTake
      <3>2. ASSUME NEW p \in Owners, pc'[p] \in {"cat", "clear"} PROVE rec'[take'[p]] = "sealed"
        <4>1. p = o
          BY <1>15, <3>2 DEF Seal, Claim
        <4> QED BY <1>15, <3>1, <3>2, <4>1 DEF Seal, Claim
      <3>3. ASSUME NEW a \in Failers, pc'[a] \in {"fpersist", "rpersist"}
            PROVE  failPending' = take'[a]
        BY <1>15, <3>3 DEF Seal, Claim
      <3> QED BY <1>15, <3>2, <3>3 DEF Seal, Claim
    <2> QED BY <2>1, <2>2, <2>3, <2>4, <2>5
  <1>16. ASSUME NEW o \in Owners, Catalog(o) PROVE Control'
    BY <1>16 DEF Catalog, Claim
  <1>17. ASSUME NEW o \in Owners, ClearActive(o) PROVE Control'
    BY <1>17 DEF ClearActive, Claim, EndRefused, IsSwap, Scope
  <1>18. ASSUME NEW o \in Owners, NEW ok \in BOOLEAN, CommitStop(o, ok) PROVE Control'
    BY <1>18 DEF CommitStop, Persist
  <1>19. ASSUME NEW o \in Owners, StopFinally(o) PROVE Control'
    BY <1>19 DEF StopFinally, LeaseAfterStop, Scope
  <1>20. ASSUME NEW ok \in BOOLEAN, PersistIntent(ok) PROVE Control'
    BY <1>20 DEF PersistIntent, Persist
  <1>21. CASE CheckSwap
    BY <1>21 DEF CheckSwap, SwapRaised, Handoff
  <1>22. ASSUME NEW ok \in BOOLEAN, PersistReceipt(ok) PROVE Control'
    BY <1>22 DEF PersistReceipt, Persist, SwapRaised, Handoff
  <1>23. CASE PublishSwap
    BY <1>23 DEF PublishSwap, Handoff
  <1>24. ASSUME NEW ok \in BOOLEAN, HandoffFailed(ok) PROVE Control'
    BY <1>24 DEF HandoffFailed, Persist
  <1>25. CASE HandoffFinally
    BY <1>25 DEF HandoffFinally
  <1>26. ASSUME NEW ok \in BOOLEAN, WorkerExcept(ok) PROVE Control'
    BY <1>26 DEF WorkerExcept, Claim, Persist
  <1>27. CASE WorkerDone
    BY <1>27 DEF WorkerDone
  <1>28. ASSUME NEW a \in Failers, FailRecorder(a) PROVE Control'
    BY <1>28 DEF FailRecorder
  <1>29. ASSUME NEW a \in Failers, RetainFailure(a) PROVE Control'
    BY <1>29 DEF RetainFailure
  <1>30. ASSUME NEW a \in Failers, NEW ok \in BOOLEAN, PersistFailure(a, ok) PROVE Control'
    BY <1>30 DEF PersistFailure, Persist
  <1>31. ASSUME NEW a \in Failers, CommitFailure(a) PROVE Control'
    BY <1>31 DEF CommitFailure
  <1>32. ASSUME NEW a \in Failers, FailFinally(a) PROVE Control'
    BY <1>32 DEF FailFinally, Scope
  <1>33. ASSUME NEW m \in Monitors, MonitorFire(m) PROVE Control'
    BY <1>33 DEF MonitorFire
  <1>34. ASSUME NEW m \in Monitors, MonitorLoop(m) PROVE Control'
    BY <1>34 DEF MonitorLoop, Finalizing
  <1>35. CASE CloseBegin
    BY <1>35 DEF CloseBegin
  <1>36. CASE CloseSources
    BY <1>36 DEF CloseSources
  <1>37. CASE CloseLoop
    BY <1>37 DEF CloseLoop, Finalizing
  <1>38. CASE CloseAbort
    BY <1>38 DEF CloseAbort
  <1>39. ASSUME NEW ok \in BOOLEAN, CloseRetain(ok) PROVE Control'
    BY <1>39 DEF CloseRetain
  <1>40. CASE CloseFinally
    BY <1>40 DEF CloseFinally
  <1>41. CASE OpenRepresentation
    BY <1>41 DEF OpenRepresentation, VolumeReadable
  <1>42. CASE CloseRepresentation
    BY <1>42 DEF CloseRepresentation
  <1>43. CASE VerifyBegin
    BY <1>43 DEF VerifyBegin, VolumeReadable
  <1>44. CASE VerifyEnd
    BY <1>44 DEF VerifyEnd
  <1>45. CASE UNCHANGED vars
    BY <1>45 DEF vars
  <1> HIDE DEF Control, Ownership, TypeFlags, TypeRecords, AcceptanceHeld, WorkerHeld,
     MonitorHeld, ReplayHeld, CloseHeld, ClosureHeld, NoTakeHeld, LabelsHeld, FailureHeld,
     OwnerHoldsItsTake, CommitAssertion, ProgressHeld
  <1> QED
    BY <1>1, <1>2, <1>3, <1>4, <1>5, <1>6, <1>7, <1>8, <1>9, <1>10, <1>11, <1>12, <1>13,
       <1>14, <1>15, <1>16, <1>17, <1>18, <1>19, <1>20, <1>21, <1>22, <1>23, <1>24, <1>25,
       <1>26, <1>27, <1>28, <1>29, <1>30, <1>31, <1>32, <1>33, <1>34, <1>35, <1>36, <1>37,
       <1>38, <1>39, <1>40, <1>41, <1>42, <1>43, <1>44, <1>45
       DEF Next, Environment, KeyStep, OwnerStep, FailStep, WorkerStep, CloseStep, Terminated

\* Lease and waiters, which rest on the ownership alone.
Guarded == LeaseCoversTake /\ NoLostWakeup

\* No lock block drops the lease of an active take or forgets a waiter.
LEMMA GuardedStep ==
    ASSUME TypeOK, Ownership, Guarded, [Next]_vars
    PROVE  Guarded'
  <1> USE ConstantsAssumption
      DEF TypeOK, TypePc, TypeTake, Agents, Monitors, Threads, Owners, Failers, OwnerSteps,
         FailSteps, CloseSteps, Holding, Goto, GotoNotify, Wake, takeVars, stopVars, failVars,
         swapVars, readVars, cmdVars, flagVars, pcVars, Guarded, Ownership, TypeFlags,
         TypeRecords, AcceptanceHeld, WorkerHeld, MonitorHeld, ReplayHeld, CloseHeld,
         ClosureHeld, NoTakeHeld, Finalizing, LeaseCoversTake, NoLostWakeup
  <1>1. ASSUME NEW t \in Takes, Start(t) PROVE Guarded'
    BY <1>1 DEF Start, StartTake, StartFailed, StartEscapes, StartAdmitted
  <1>2. CASE SourceFailure
    BY <1>2 DEF SourceFailure
  <1>3. CASE Checkpoint
    BY <1>3 DEF Checkpoint
  <1>4. ASSUME NEW k \in Keys, RetryCompletedStop(k) PROVE Guarded'
    BY <1>4 DEF RetryCompletedStop, Finalizing
  <1>5. ASSUME NEW k \in Keys, NEW ok \in BOOLEAN, CommitStopReplay(k, ok) PROVE Guarded'
    BY <1>5 DEF CommitStopReplay, Persist
  <1>6. ASSUME NEW k \in Keys, RequestStop(k) PROVE Guarded'
    BY <1>6 DEF RequestStop, Accepting, SpawnWorker, PrepareAdmitted, Rearmed
  <1>7. ASSUME NEW k \in Keys, RequestReceipt(k) PROVE Guarded'
    BY <1>7 DEF RequestReceipt, Accepting, PrepareAdmitted
  <1>8. ASSUME NEW k \in Keys, RequestHandoff(k) PROVE Guarded'
    BY <1>8 DEF RequestHandoff, Accepting, SpawnWorker, PrepareAdmitted, Rearmed
  <1>9. ASSUME NEW k \in Keys, AcceptOk(k) PROVE Guarded'
    BY <1>9 DEF AcceptOk, Persist
  <1>10. ASSUME NEW k \in Keys, AcceptRollback(k) PROVE Guarded'
    <2>1. k \notin Monitors \cup Threads /\ RolledBack(k) BY <1>10, RollbackEffect
    <2>2. LeaseCoversTake'
      <3>1. active' = active /\ pc'["close"] = pc["close"] BY <2>1 DEF RolledBack
      <3>2. active = None \/ lease' = lease BY <2>1 DEF RolledBack
      <3> QED BY <3>1, <3>2
    <2>3. NoLostWakeup' BY <2>1 DEF RolledBack
    <2> QED BY <2>2, <2>3
  <1>11. ASSUME NEW k \in Keys, AcceptRecover(k) PROVE Guarded'
    BY <1>11 DEF AcceptRecover
  <1>12. ASSUME NEW k \in Keys, AcceptRelease(k) PROVE Guarded'
    BY <1>12 DEF AcceptRelease
  <1>13. ASSUME NEW o \in Owners, StopSources(o) PROVE Guarded'
    BY <1>13 DEF StopSources, Claim
  <1>14. ASSUME NEW o \in Owners, StopRecorder(o) PROVE Guarded'
    BY <1>14 DEF StopRecorder, Claim
  <1>15. ASSUME NEW o \in Owners, Seal(o) PROVE Guarded'
    BY <1>15 DEF Seal, Claim
  <1>16. ASSUME NEW o \in Owners, Catalog(o) PROVE Guarded'
    BY <1>16 DEF Catalog, Claim
  <1>17. ASSUME NEW o \in Owners, ClearActive(o) PROVE Guarded'
    BY <1>17 DEF ClearActive, Claim, EndRefused, IsSwap, Scope
  <1>18. ASSUME NEW o \in Owners, NEW ok \in BOOLEAN, CommitStop(o, ok) PROVE Guarded'
    BY <1>18 DEF CommitStop, Persist
  <1>19. ASSUME NEW o \in Owners, StopFinally(o) PROVE Guarded'
    BY <1>19 DEF StopFinally, LeaseAfterStop, Scope
  <1>20. ASSUME NEW ok \in BOOLEAN, PersistIntent(ok) PROVE Guarded'
    BY <1>20 DEF PersistIntent, Persist
  <1>21. CASE CheckSwap
    BY <1>21 DEF CheckSwap, SwapRaised, Handoff
  <1>22. ASSUME NEW ok \in BOOLEAN, PersistReceipt(ok) PROVE Guarded'
    BY <1>22 DEF PersistReceipt, Persist, SwapRaised, Handoff
  <1>23. CASE PublishSwap
    BY <1>23 DEF PublishSwap, Handoff
  <1>24. ASSUME NEW ok \in BOOLEAN, HandoffFailed(ok) PROVE Guarded'
    BY <1>24 DEF HandoffFailed, Persist
  <1>25. CASE HandoffFinally
    BY <1>25 DEF HandoffFinally
  <1>26. ASSUME NEW ok \in BOOLEAN, WorkerExcept(ok) PROVE Guarded'
    BY <1>26 DEF WorkerExcept, Claim, Persist
  <1>27. CASE WorkerDone
    BY <1>27 DEF WorkerDone
  <1>28. ASSUME NEW a \in Failers, FailRecorder(a) PROVE Guarded'
    BY <1>28 DEF FailRecorder
  <1>29. ASSUME NEW a \in Failers, RetainFailure(a) PROVE Guarded'
    BY <1>29 DEF RetainFailure
  <1>30. ASSUME NEW a \in Failers, NEW ok \in BOOLEAN, PersistFailure(a, ok) PROVE Guarded'
    BY <1>30 DEF PersistFailure, Persist
  <1>31. ASSUME NEW a \in Failers, CommitFailure(a) PROVE Guarded'
    BY <1>31 DEF CommitFailure
  <1>32. ASSUME NEW a \in Failers, FailFinally(a) PROVE Guarded'
    BY <1>32 DEF FailFinally, Scope
  <1>33. ASSUME NEW m \in Monitors, MonitorFire(m) PROVE Guarded'
    BY <1>33 DEF MonitorFire
  <1>34. ASSUME NEW m \in Monitors, MonitorLoop(m) PROVE Guarded'
    BY <1>34 DEF MonitorLoop, Finalizing
  <1>35. CASE CloseBegin
    BY <1>35 DEF CloseBegin
  <1>36. CASE CloseSources
    BY <1>36 DEF CloseSources
  <1>37. CASE CloseLoop
    BY <1>37 DEF CloseLoop, Finalizing
  <1>38. CASE CloseAbort
    BY <1>38 DEF CloseAbort
  <1>39. ASSUME NEW ok \in BOOLEAN, CloseRetain(ok) PROVE Guarded'
    BY <1>39 DEF CloseRetain
  <1>40. CASE CloseFinally
    BY <1>40 DEF CloseFinally
  <1>41. CASE OpenRepresentation
    BY <1>41 DEF OpenRepresentation, VolumeReadable
  <1>42. CASE CloseRepresentation
    BY <1>42 DEF CloseRepresentation
  <1>43. CASE VerifyBegin
    BY <1>43 DEF VerifyBegin, VolumeReadable
  <1>44. CASE VerifyEnd
    BY <1>44 DEF VerifyEnd
  <1>45. CASE UNCHANGED vars
    BY <1>45 DEF vars
  <1> HIDE DEF Guarded, Ownership, TypeFlags, TypeRecords, AcceptanceHeld, WorkerHeld,
     MonitorHeld, ReplayHeld, CloseHeld, ClosureHeld, NoTakeHeld, Finalizing, LeaseCoversTake,
     NoLostWakeup
  <1> QED
    BY <1>1, <1>2, <1>3, <1>4, <1>5, <1>6, <1>7, <1>8, <1>9, <1>10, <1>11, <1>12, <1>13,
       <1>14, <1>15, <1>16, <1>17, <1>18, <1>19, <1>20, <1>21, <1>22, <1>23, <1>24, <1>25,
       <1>26, <1>27, <1>28, <1>29, <1>30, <1>31, <1>32, <1>33, <1>34, <1>35, <1>36, <1>37,
       <1>38, <1>39, <1>40, <1>41, <1>42, <1>43, <1>44, <1>45
       DEF Next, Environment, KeyStep, OwnerStep, FailStep, WorkerStep, CloseStep, Terminated

\* Ownership of the finalization is consistent in every reachable state.
THEOREM OwnershipCorrect == Spec => []Ownership
  <1>1. Init => Ownership
    BY ConstantsAssumption
       DEF Init, Ownership, AcceptanceHeld, WorkerHeld, MonitorHeld, ReplayHeld, CloseHeld,
           ClosureHeld, NoTakeHeld, Holding, OwnerSteps, FailSteps, CloseSteps, Owners,
           Agents, Monitors, Threads
  <1>2. TypeOK /\ Ownership /\ [Next]_vars => Ownership'
    BY OwnershipStep
  <1> QED BY <1>1, <1>2, TypeCorrect, PTL DEF Spec

\* Labels, claims and progress of every thread are consistent.
THEOREM ControlCorrect == Spec => []Control
  <1>1. Init => Control
    BY ConstantsAssumption
       DEF Init, Control, LabelsHeld, FailureHeld, OwnerHoldsItsTake, CommitAssertion,
           ProgressHeld, Holding, OwnerSteps, FailSteps, CloseSteps, Owners, Failers, Agents,
           Monitors, Threads
  <1>2. TypeOK /\ Ownership /\ Control /\ [Next]_vars => Control'
    BY ControlStep
  <1> QED BY <1>1, <1>2, TypeCorrect, OwnershipCorrect, PTL DEF Spec

\* An active take is covered by the network lease until the process closes, and
\* nobody waits on _stop_condition for something that has already ended.
THEOREM GuardedCorrect == Spec => [](LeaseCoversTake /\ NoLostWakeup)
  <1>1. Init => Guarded
    BY DEF Init, Guarded, LeaseCoversTake, NoLostWakeup, Agents, Monitors, Threads
  <1>2. TypeOK /\ Ownership /\ Guarded /\ [Next]_vars => Guarded'
    BY GuardedStep
  <1>3. Guarded => LeaseCoversTake /\ NoLostWakeup
    BY DEF Guarded
  <1> QED BY <1>1, <1>2, <1>3, TypeCorrect, OwnershipCorrect, PTL DEF Spec

\* At most one thread finalizes: worker, monitors, recovery and close() exclude
\* one another.
THEOREM SingleFinalizerCorrect == Spec => []SingleFinalizer
  <1>1. TypeOK /\ Ownership /\ Control => SingleFinalizer
    <2> SUFFICES ASSUME TypeOK, Ownership, Control, NEW a \in InCharge, NEW b \in InCharge
                 PROVE  a = b
      BY DEF SingleFinalizer
    <2> USE ConstantsAssumption DEF TypeOK, Ownership, Control, InCharge, Agents, Monitors,
            Threads, Owners, Failers, Holding, OwnerSteps, FailSteps, CloseSteps, LabelsHeld,
            FailureHeld, WorkerHeld, MonitorHeld, CloseHeld, TypeFlags
    <2>1. a \in Monitors \cup Threads /\ b \in Monitors \cup Threads
      OBVIOUS
    <2>2. CASE a \in Monitors
      BY <2>1, <2>2
    <2>3. CASE a = "worker"
      BY <2>1, <2>3
    <2>4. CASE a = "failure"
      BY <2>1, <2>4
    <2>5. CASE a = "close"
      BY <2>1, <2>5
    <2> QED BY <2>1, <2>2, <2>3, <2>4, <2>5
  <1> QED BY <1>1, TypeCorrect, OwnershipCorrect, ControlCorrect, PTL

\* An owner only ever ends the take it was started for, and the assert of
\* _commit_active_failure holds.
THEOREM OwnerCorrect == Spec => [](OwnerHoldsItsTake /\ CommitAssertion)
  <1>1. Control => OwnerHoldsItsTake /\ CommitAssertion
    BY DEF Control
  <1> QED BY <1>1, ControlCorrect, PTL

\* The lease never outlives the take and the finalization it protects.
THEOREM LeaseReturned == Spec => []LeaseNotLeaked
  <1>1. Control => LeaseNotLeaked
    BY DEF Control, ProgressHeld, LeaseNotLeaked
  <1> QED BY <1>1, ControlCorrect, PTL

\* The lease is taken before the take it covers is active and given back once nobody
\* is left to end one, however the take ends.
THEOREM LeaseCorrect == Spec => []LeaseFollowsTake
  <1>1. LeaseCoversTake /\ NoLostWakeup /\ LeaseNotLeaked => LeaseFollowsTake
    BY DEF LeaseFollowsTake
  <1> QED BY <1>1, GuardedCorrect, LeaseReturned, PTL

-----------------------------------------------------------------------------
(* What becomes of takes and of stops *)


\* No lock block lets go of a take that is neither sealed nor reported.
LEMMA OutcomeStep ==
    ASSUME TypeOK, Ownership, Control, TakeOutcome, [Next]_vars
    PROVE  TakeOutcome'
  <1> USE ConstantsAssumption
      DEF TypeOK, TypePc, TypeTake, Agents, Monitors, Threads, Owners, Failers, OwnerSteps,
         FailSteps, CloseSteps, Holding, Goto, GotoNotify, Wake, takeVars, stopVars, failVars,
         swapVars, readVars, cmdVars, flagVars, pcVars, Ownership, TypeFlags, TypeRecords,
         AcceptanceHeld, WorkerHeld, MonitorHeld, ReplayHeld, CloseHeld, ClosureHeld,
         NoTakeHeld, LabelsHeld, FailureHeld, OwnerHoldsItsTake, CommitAssertion,
         ProgressHeld, Control, MaybeTake, TakeOutcome
  <1>1. ASSUME NEW t \in Takes, Start(t) PROVE TakeOutcome'
    BY <1>1 DEF Start, StartTake, StartFailed, StartEscapes, StartAdmitted
  <1>2. CASE SourceFailure
    BY <1>2 DEF SourceFailure
  <1>3. CASE Checkpoint
    BY <1>3 DEF Checkpoint
  <1>4. ASSUME NEW k \in Keys, RetryCompletedStop(k) PROVE TakeOutcome'
    BY <1>4 DEF RetryCompletedStop, Finalizing
  <1>5. ASSUME NEW k \in Keys, NEW ok \in BOOLEAN, CommitStopReplay(k, ok) PROVE TakeOutcome'
    BY <1>5 DEF CommitStopReplay, Persist
  <1>6. ASSUME NEW k \in Keys, RequestStop(k) PROVE TakeOutcome'
    BY <1>6 DEF RequestStop, Accepting, SpawnWorker, PrepareAdmitted, Rearmed
  <1>7. ASSUME NEW k \in Keys, RequestReceipt(k) PROVE TakeOutcome'
    BY <1>7 DEF RequestReceipt, Accepting, PrepareAdmitted
  <1>8. ASSUME NEW k \in Keys, RequestHandoff(k) PROVE TakeOutcome'
    BY <1>8 DEF RequestHandoff, Accepting, SpawnWorker, PrepareAdmitted, Rearmed
  <1>9. ASSUME NEW k \in Keys, AcceptOk(k) PROVE TakeOutcome'
    BY <1>9 DEF AcceptOk, Persist
  <1>10. ASSUME NEW k \in Keys, AcceptRollback(k) PROVE TakeOutcome'
    <2>1. k \notin Monitors \cup Threads /\ RolledBack(k) BY <1>10, RollbackEffect
    <2> QED BY <2>1 DEF RolledBack
  <1>11. ASSUME NEW k \in Keys, AcceptRecover(k) PROVE TakeOutcome'
    BY <1>11 DEF AcceptRecover
  <1>12. ASSUME NEW k \in Keys, AcceptRelease(k) PROVE TakeOutcome'
    BY <1>12 DEF AcceptRelease
  <1>13. ASSUME NEW o \in Owners, StopSources(o) PROVE TakeOutcome'
    BY <1>13 DEF StopSources, Claim
  <1>14. ASSUME NEW o \in Owners, StopRecorder(o) PROVE TakeOutcome'
    BY <1>14 DEF StopRecorder, Claim
  <1>15. ASSUME NEW o \in Owners, Seal(o) PROVE TakeOutcome'
    BY <1>15 DEF Seal, Claim
  <1>16. ASSUME NEW o \in Owners, Catalog(o) PROVE TakeOutcome'
    BY <1>16 DEF Catalog, Claim
  <1>17. ASSUME NEW o \in Owners, ClearActive(o) PROVE TakeOutcome'
    BY <1>17 DEF ClearActive, Claim, EndRefused, IsSwap, Scope
  <1>18. ASSUME NEW o \in Owners, NEW ok \in BOOLEAN, CommitStop(o, ok) PROVE TakeOutcome'
    BY <1>18 DEF CommitStop, Persist
  <1>19. ASSUME NEW o \in Owners, StopFinally(o) PROVE TakeOutcome'
    BY <1>19 DEF StopFinally, LeaseAfterStop, Scope
  <1>20. ASSUME NEW ok \in BOOLEAN, PersistIntent(ok) PROVE TakeOutcome'
    BY <1>20 DEF PersistIntent, Persist
  <1>21. CASE CheckSwap
    BY <1>21 DEF CheckSwap, SwapRaised, Handoff
  <1>22. ASSUME NEW ok \in BOOLEAN, PersistReceipt(ok) PROVE TakeOutcome'
    BY <1>22 DEF PersistReceipt, Persist, SwapRaised, Handoff
  <1>23. CASE PublishSwap
    BY <1>23 DEF PublishSwap, Handoff
  <1>24. ASSUME NEW ok \in BOOLEAN, HandoffFailed(ok) PROVE TakeOutcome'
    BY <1>24 DEF HandoffFailed, Persist
  <1>25. CASE HandoffFinally
    BY <1>25 DEF HandoffFinally
  <1>26. ASSUME NEW ok \in BOOLEAN, WorkerExcept(ok) PROVE TakeOutcome'
    BY <1>26 DEF WorkerExcept, Claim, Persist
  <1>27. CASE WorkerDone
    BY <1>27 DEF WorkerDone
  <1>28. ASSUME NEW a \in Failers, FailRecorder(a) PROVE TakeOutcome'
    BY <1>28 DEF FailRecorder
  <1>29. ASSUME NEW a \in Failers, RetainFailure(a) PROVE TakeOutcome'
    BY <1>29 DEF RetainFailure
  <1>30. ASSUME NEW a \in Failers, NEW ok \in BOOLEAN, PersistFailure(a, ok) PROVE TakeOutcome'
    BY <1>30 DEF PersistFailure, Persist
  <1>31. ASSUME NEW a \in Failers, CommitFailure(a) PROVE TakeOutcome'
    BY <1>31 DEF CommitFailure
  <1>32. ASSUME NEW a \in Failers, FailFinally(a) PROVE TakeOutcome'
    BY <1>32 DEF FailFinally, Scope
  <1>33. ASSUME NEW m \in Monitors, MonitorFire(m) PROVE TakeOutcome'
    BY <1>33 DEF MonitorFire
  <1>34. ASSUME NEW m \in Monitors, MonitorLoop(m) PROVE TakeOutcome'
    BY <1>34 DEF MonitorLoop, Finalizing
  <1>35. CASE CloseBegin
    BY <1>35 DEF CloseBegin
  <1>36. CASE CloseSources
    BY <1>36 DEF CloseSources
  <1>37. CASE CloseLoop
    BY <1>37 DEF CloseLoop, Finalizing
  <1>38. CASE CloseAbort
    BY <1>38 DEF CloseAbort
  <1>39. ASSUME NEW ok \in BOOLEAN, CloseRetain(ok) PROVE TakeOutcome'
    BY <1>39 DEF CloseRetain
  <1>40. CASE CloseFinally
    BY <1>40 DEF CloseFinally
  <1>41. CASE OpenRepresentation
    BY <1>41 DEF OpenRepresentation, VolumeReadable
  <1>42. CASE CloseRepresentation
    BY <1>42 DEF CloseRepresentation
  <1>43. CASE VerifyBegin
    BY <1>43 DEF VerifyBegin, VolumeReadable
  <1>44. CASE VerifyEnd
    BY <1>44 DEF VerifyEnd
  <1>45. CASE UNCHANGED vars
    BY <1>45 DEF vars
  <1> HIDE DEF Ownership, TypeFlags, TypeRecords, AcceptanceHeld, WorkerHeld, MonitorHeld,
     ReplayHeld, CloseHeld, ClosureHeld, NoTakeHeld, LabelsHeld, FailureHeld,
     OwnerHoldsItsTake, CommitAssertion, ProgressHeld, Control, MaybeTake, TakeOutcome
  <1> QED
    BY <1>1, <1>2, <1>3, <1>4, <1>5, <1>6, <1>7, <1>8, <1>9, <1>10, <1>11, <1>12, <1>13,
       <1>14, <1>15, <1>16, <1>17, <1>18, <1>19, <1>20, <1>21, <1>22, <1>23, <1>24, <1>25,
       <1>26, <1>27, <1>28, <1>29, <1>30, <1>31, <1>32, <1>33, <1>34, <1>35, <1>36, <1>37,
       <1>38, <1>39, <1>40, <1>41, <1>42, <1>43, <1>44, <1>45
       DEF Next, Environment, KeyStep, OwnerStep, FailStep, WorkerStep, CloseStep, Terminated

\* A take that began and is over is sealed or reported as unsuccessful.
THEOREM TakeOutcomeCorrect == Spec => []TakeOutcome
  <1>1. Init => TakeOutcome
    BY DEF Init, TakeOutcome
  <1>2. TypeOK /\ Ownership /\ Control /\ TakeOutcome /\ [Next]_vars => TakeOutcome'
    BY OutcomeStep
  <1> QED BY <1>1, <1>2, TypeCorrect, OwnershipCorrect, ControlCorrect, PTL DEF Spec

\* The three lock blocks that end a take.
LEMMA TakeEnds ==
    ASSUME active # None, active' = None, [Next]_vars
    PROVE  \/ \E o \in Owners : ClearActive(o)
           \/ \E a \in Failers : CommitFailure(a)
           \/ \E ok \in BOOLEAN : CloseRetain(ok)
  <1> USE DEF takeVars
  <1> QED BY ConstantsAssumption DEF Next, Environment, KeyStep, OwnerStep, FailStep,
     WorkerStep, CloseStep, Terminated, vars, StartTake, StartFailed, StartEscapes, Start,
     SourceFailure, Checkpoint, RetryCompletedStop, CommitStopReplay, RequestStop,
     RequestReceipt, RequestHandoff, AcceptOk, AcceptRollback, AcceptRecover, AcceptRelease, StopSources,
     StopRecorder, Seal, Catalog, CommitStop, StopFinally, PersistIntent, CheckSwap,
     PersistReceipt, PublishSwap, HandoffFailed, HandoffFinally, WorkerExcept, WorkerDone,
     FailRecorder, RetainFailure, PersistFailure, FailFinally, MonitorFire, MonitorLoop,
     CloseBegin, CloseSources, CloseLoop, CloseAbort, CloseFinally, OpenRepresentation,
     CloseRepresentation, VerifyBegin, VerifyEnd

\* A source failure reported during a stop is never swallowed.
THEOREM SourceFailureCorrect == Spec => SourceFailureKept
  <1>1. ASSUME TypeOK, Control, [Next]_vars, pendSrc, active # None, active' = None
        PROVE  active \in retained'
    <2>1. ASSUME NEW o \in Owners, ClearActive(o) PROVE FALSE
      BY <1>1, <2>1 DEF ClearActive, EndRefused
    <2>2. ASSUME NEW a \in Failers, CommitFailure(a) PROVE active \in retained'
      BY <1>1, <2>2 DEF CommitFailure, Control, CommitAssertion, ProgressHeld, Failers, Owners,
                        Agents, Threads
    <2>3. ASSUME NEW ok \in BOOLEAN, CloseRetain(ok) PROVE active \in retained'
      BY <1>1, <2>3 DEF CloseRetain
    <2> QED BY <1>1, <2>1, <2>2, <2>3, TakeEnds
  <1>2. TypeOK /\ Control /\ [Next]_vars =>
          [pendSrc /\ active # None /\ active' = None => active \in retained']_vars
    BY <1>1
  <1> QED BY <1>2, TypeCorrect, ControlCorrect, PTL DEF Spec, SourceFailureKept

\* Receipts: what is cached outside an acceptance is durable.
Receipts == ReceiptsHeld /\ ReceiptsDurable

\* No lock block leaves a cached receipt that a restart would forget.
LEMMA ReceiptsStep ==
    ASSUME TypeOK, Ownership, Receipts, [Next]_vars
    PROVE  Receipts'
  <1> USE ConstantsAssumption
      DEF TypeOK, TypePc, TypeTake, Agents, Monitors, Threads, Owners, Failers, OwnerSteps,
         FailSteps, CloseSteps, Holding, Goto, GotoNotify, Wake, takeVars, stopVars, failVars,
         swapVars, readVars, cmdVars, flagVars, pcVars, Receipts, Ownership, TypeFlags,
         TypeRecords, AcceptanceHeld, NoReceipt, ReceiptsHeld, ReceiptsDurable
  <1>1. ASSUME NEW t \in Takes, Start(t) PROVE Receipts'
    BY <1>1 DEF Start, StartTake, StartFailed, StartEscapes, StartAdmitted
  <1>2. CASE SourceFailure
    BY <1>2 DEF SourceFailure
  <1>3. CASE Checkpoint
    BY <1>3 DEF Checkpoint
  <1>4. ASSUME NEW k \in Keys, RetryCompletedStop(k) PROVE Receipts'
    BY <1>4 DEF RetryCompletedStop, Finalizing
  <1>5. ASSUME NEW k \in Keys, NEW ok \in BOOLEAN, CommitStopReplay(k, ok) PROVE Receipts'
    BY <1>5 DEF CommitStopReplay, Persist
  <1>6. ASSUME NEW k \in Keys, RequestStop(k) PROVE Receipts'
    BY <1>6 DEF RequestStop, Accepting, SpawnWorker, PrepareAdmitted, Rearmed
  <1>7. ASSUME NEW k \in Keys, RequestReceipt(k) PROVE Receipts'
    BY <1>7 DEF RequestReceipt, Accepting, PrepareAdmitted
  <1>8. ASSUME NEW k \in Keys, RequestHandoff(k) PROVE Receipts'
    BY <1>8 DEF RequestHandoff, Accepting, SpawnWorker, PrepareAdmitted, Rearmed
  <1>9. ASSUME NEW k \in Keys, AcceptOk(k) PROVE Receipts'
    BY <1>9 DEF AcceptOk, Persist
  <1>10. ASSUME NEW k \in Keys, AcceptRollback(k) PROVE Receipts'
    <2>1. k \notin Monitors \cup Threads /\ RolledBack(k) BY <1>10, RollbackEffect
    <2>2. ReceiptsHeld' BY <2>1 DEF RolledBack
    <2>3. ReceiptsDurable' BY <2>1 DEF RolledBack
    <2> QED BY <2>2, <2>3
  <1>11. ASSUME NEW k \in Keys, AcceptRecover(k) PROVE Receipts'
    BY <1>11 DEF AcceptRecover
  <1>12. ASSUME NEW k \in Keys, AcceptRelease(k) PROVE Receipts'
    BY <1>12 DEF AcceptRelease
  <1>13. ASSUME NEW o \in Owners, StopSources(o) PROVE Receipts'
    BY <1>13 DEF StopSources, Claim
  <1>14. ASSUME NEW o \in Owners, StopRecorder(o) PROVE Receipts'
    BY <1>14 DEF StopRecorder, Claim
  <1>15. ASSUME NEW o \in Owners, Seal(o) PROVE Receipts'
    BY <1>15 DEF Seal, Claim
  <1>16. ASSUME NEW o \in Owners, Catalog(o) PROVE Receipts'
    BY <1>16 DEF Catalog, Claim
  <1>17. ASSUME NEW o \in Owners, ClearActive(o) PROVE Receipts'
    BY <1>17 DEF ClearActive, Claim, EndRefused, IsSwap, Scope
  <1>18. ASSUME NEW o \in Owners, NEW ok \in BOOLEAN, CommitStop(o, ok) PROVE Receipts'
    BY <1>18 DEF CommitStop, Persist
  <1>19. ASSUME NEW o \in Owners, StopFinally(o) PROVE Receipts'
    BY <1>19 DEF StopFinally, LeaseAfterStop, Scope
  <1>20. ASSUME NEW ok \in BOOLEAN, PersistIntent(ok) PROVE Receipts'
    BY <1>20 DEF PersistIntent, Persist
  <1>21. CASE CheckSwap
    BY <1>21 DEF CheckSwap, SwapRaised, Handoff
  <1>22. ASSUME NEW ok \in BOOLEAN, PersistReceipt(ok) PROVE Receipts'
    BY <1>22 DEF PersistReceipt, Persist, SwapRaised, Handoff
  <1>23. CASE PublishSwap
    BY <1>23 DEF PublishSwap, Handoff
  <1>24. ASSUME NEW ok \in BOOLEAN, HandoffFailed(ok) PROVE Receipts'
    BY <1>24 DEF HandoffFailed, Persist
  <1>25. CASE HandoffFinally
    BY <1>25 DEF HandoffFinally
  <1>26. ASSUME NEW ok \in BOOLEAN, WorkerExcept(ok) PROVE Receipts'
    BY <1>26 DEF WorkerExcept, Claim, Persist
  <1>27. CASE WorkerDone
    BY <1>27 DEF WorkerDone
  <1>28. ASSUME NEW a \in Failers, FailRecorder(a) PROVE Receipts'
    BY <1>28 DEF FailRecorder
  <1>29. ASSUME NEW a \in Failers, RetainFailure(a) PROVE Receipts'
    BY <1>29 DEF RetainFailure
  <1>30. ASSUME NEW a \in Failers, NEW ok \in BOOLEAN, PersistFailure(a, ok) PROVE Receipts'
    BY <1>30 DEF PersistFailure, Persist
  <1>31. ASSUME NEW a \in Failers, CommitFailure(a) PROVE Receipts'
    BY <1>31 DEF CommitFailure
  <1>32. ASSUME NEW a \in Failers, FailFinally(a) PROVE Receipts'
    BY <1>32 DEF FailFinally, Scope
  <1>33. ASSUME NEW m \in Monitors, MonitorFire(m) PROVE Receipts'
    BY <1>33 DEF MonitorFire
  <1>34. ASSUME NEW m \in Monitors, MonitorLoop(m) PROVE Receipts'
    BY <1>34 DEF MonitorLoop, Finalizing
  <1>35. CASE CloseBegin
    BY <1>35 DEF CloseBegin
  <1>36. CASE CloseSources
    BY <1>36 DEF CloseSources
  <1>37. CASE CloseLoop
    BY <1>37 DEF CloseLoop, Finalizing
  <1>38. CASE CloseAbort
    BY <1>38 DEF CloseAbort
  <1>39. ASSUME NEW ok \in BOOLEAN, CloseRetain(ok) PROVE Receipts'
    BY <1>39 DEF CloseRetain
  <1>40. CASE CloseFinally
    BY <1>40 DEF CloseFinally
  <1>41. CASE OpenRepresentation
    BY <1>41 DEF OpenRepresentation, VolumeReadable
  <1>42. CASE CloseRepresentation
    BY <1>42 DEF CloseRepresentation
  <1>43. CASE VerifyBegin
    BY <1>43 DEF VerifyBegin, VolumeReadable
  <1>44. CASE VerifyEnd
    BY <1>44 DEF VerifyEnd
  <1>45. CASE UNCHANGED vars
    BY <1>45 DEF vars
  <1> HIDE DEF Receipts, Ownership, TypeFlags, TypeRecords, AcceptanceHeld, NoReceipt,
     ReceiptsHeld, ReceiptsDurable
  <1> QED
    BY <1>1, <1>2, <1>3, <1>4, <1>5, <1>6, <1>7, <1>8, <1>9, <1>10, <1>11, <1>12, <1>13,
       <1>14, <1>15, <1>16, <1>17, <1>18, <1>19, <1>20, <1>21, <1>22, <1>23, <1>24, <1>25,
       <1>26, <1>27, <1>28, <1>29, <1>30, <1>31, <1>32, <1>33, <1>34, <1>35, <1>36, <1>37,
       <1>38, <1>39, <1>40, <1>41, <1>42, <1>43, <1>44, <1>45
       DEF Next, Environment, KeyStep, OwnerStep, FailStep, WorkerStep, CloseStep, Terminated

\* Receipts are durable outside their own acceptance.
THEOREM ReceiptsCorrect == Spec => [](ReceiptsHeld /\ ReceiptsDurable)
  <1>1. Init => Receipts
    BY ConstantsAssumption
       DEF Init, Receipts, ReceiptsHeld, ReceiptsDurable, NoReceipt, Agents
  <1>2. TypeOK /\ Ownership /\ Receipts /\ [Next]_vars => Receipts'
    BY ReceiptsStep
  <1>3. Receipts => ReceiptsHeld /\ ReceiptsDurable
    BY DEF Receipts
  <1> QED BY <1>1, <1>2, <1>3, TypeCorrect, OwnershipCorrect, PTL DEF Spec

\* The worker stays behind the gate of its own acceptance.
LEMMA GateStep ==
    ASSUME TypeOK, Ownership, Control, ReceiptsHeld, GateHeld, [Next]_vars
    PROVE  GateHeld'
  <1> USE ConstantsAssumption
      DEF TypeOK, TypePc, TypeTake, Agents, Monitors, Threads, Owners, Failers, OwnerSteps,
         FailSteps, CloseSteps, Holding, Goto, GotoNotify, Wake, takeVars, stopVars, failVars,
         swapVars, readVars, cmdVars, flagVars, pcVars, Ownership, TypeFlags, TypeRecords,
         AcceptanceHeld, WorkerHeld, MonitorHeld, ReplayHeld, CloseHeld, ClosureHeld,
         NoTakeHeld, LabelsHeld, FailureHeld, OwnerHoldsItsTake, CommitAssertion,
         ProgressHeld, Control, ReceiptsHeld, Receipt, GateHeld
  <1>1. ASSUME NEW t \in Takes, Start(t) PROVE GateHeld'
    BY <1>1 DEF Start, StartTake, StartFailed, StartEscapes, StartAdmitted
  <1>2. CASE SourceFailure
    BY <1>2 DEF SourceFailure
  <1>3. CASE Checkpoint
    BY <1>3 DEF Checkpoint
  <1>4. ASSUME NEW k \in Keys, RetryCompletedStop(k) PROVE GateHeld'
    BY <1>4 DEF RetryCompletedStop, Finalizing
  <1>5. ASSUME NEW k \in Keys, NEW ok \in BOOLEAN, CommitStopReplay(k, ok) PROVE GateHeld'
    BY <1>5 DEF CommitStopReplay, Persist
  <1>6. ASSUME NEW k \in Keys, RequestStop(k) PROVE GateHeld'
    BY <1>6 DEF RequestStop, Accepting, SpawnWorker, PrepareAdmitted, Rearmed
  <1>7. ASSUME NEW k \in Keys, RequestReceipt(k) PROVE GateHeld'
    BY <1>7 DEF RequestReceipt, Accepting, PrepareAdmitted
  <1>8. ASSUME NEW k \in Keys, RequestHandoff(k) PROVE GateHeld'
    BY <1>8 DEF RequestHandoff, Accepting, SpawnWorker, PrepareAdmitted, Rearmed
  <1>9. ASSUME NEW k \in Keys, AcceptOk(k) PROVE GateHeld'
    BY <1>9 DEF AcceptOk, Persist
  <1>10. ASSUME NEW k \in Keys, AcceptRollback(k) PROVE GateHeld'
    <2>1. k \notin Monitors \cup Threads /\ RolledBack(k) BY <1>10, RollbackEffect
    <2>2. stopAccept = k
      BY <2>1 DEF RolledBack
    <2>3. \A j \in Keys \ {k} : commands'[j] = commands[j]
      BY <2>1, <2>2 DEF RolledBack
    <2>4. wkey' # None => wkey' = wkey /\ wkey' # k
      <3>1. wkey = k => pc["worker"] = "gated"
        <4>1. pc[k] = "accept"
          BY <2>1 DEF RolledBack
        <4> QED BY <4>1
      <3>2. wkey' = None \/ (wkey' = wkey /\ ~(wkey = k /\ pc["worker"] = "gated"))
        BY <2>1 DEF RolledBack
      <3> QED BY <3>1, <3>2
    <2>5. (wkey # None => commands[wkey] # None)'
      BY <2>3, <2>4
    <2>6. (\A j \in Keys : pc[j] \in {"accept", "acceptNP"} /\ wkey = j => pc["worker"] = "gated")'
      BY <2>1 DEF RolledBack
    <2> QED BY <2>1, <2>5, <2>6 DEF RolledBack
  <1>11. ASSUME NEW k \in Keys, AcceptRecover(k) PROVE GateHeld'
    BY <1>11 DEF AcceptRecover
  <1>12. ASSUME NEW k \in Keys, AcceptRelease(k) PROVE GateHeld'
    BY <1>12 DEF AcceptRelease
  <1>13. ASSUME NEW o \in Owners, StopSources(o) PROVE GateHeld'
    BY <1>13 DEF StopSources, Claim
  <1>14. ASSUME NEW o \in Owners, StopRecorder(o) PROVE GateHeld'
    BY <1>14 DEF StopRecorder, Claim
  <1>15. ASSUME NEW o \in Owners, Seal(o) PROVE GateHeld'
    BY <1>15 DEF Seal, Claim
  <1>16. ASSUME NEW o \in Owners, Catalog(o) PROVE GateHeld'
    BY <1>16 DEF Catalog, Claim
  <1>17. ASSUME NEW o \in Owners, ClearActive(o) PROVE GateHeld'
    BY <1>17 DEF ClearActive, Claim, EndRefused, IsSwap, Scope
  <1>18. ASSUME NEW o \in Owners, NEW ok \in BOOLEAN, CommitStop(o, ok) PROVE GateHeld'
    BY <1>18 DEF CommitStop, Persist
  <1>19. ASSUME NEW o \in Owners, StopFinally(o) PROVE GateHeld'
    BY <1>19 DEF StopFinally, LeaseAfterStop, Scope
  <1>20. ASSUME NEW ok \in BOOLEAN, PersistIntent(ok) PROVE GateHeld'
    BY <1>20 DEF PersistIntent, Persist
  <1>21. CASE CheckSwap
    BY <1>21 DEF CheckSwap, SwapRaised, Handoff
  <1>22. ASSUME NEW ok \in BOOLEAN, PersistReceipt(ok) PROVE GateHeld'
    BY <1>22 DEF PersistReceipt, Persist, SwapRaised, Handoff
  <1>23. CASE PublishSwap
    BY <1>23 DEF PublishSwap, Handoff
  <1>24. ASSUME NEW ok \in BOOLEAN, HandoffFailed(ok) PROVE GateHeld'
    BY <1>24 DEF HandoffFailed, Persist
  <1>25. CASE HandoffFinally
    BY <1>25 DEF HandoffFinally
  <1>26. ASSUME NEW ok \in BOOLEAN, WorkerExcept(ok) PROVE GateHeld'
    BY <1>26 DEF WorkerExcept, Claim, Persist
  <1>27. CASE WorkerDone
    BY <1>27 DEF WorkerDone
  <1>28. ASSUME NEW a \in Failers, FailRecorder(a) PROVE GateHeld'
    BY <1>28 DEF FailRecorder
  <1>29. ASSUME NEW a \in Failers, RetainFailure(a) PROVE GateHeld'
    BY <1>29 DEF RetainFailure
  <1>30. ASSUME NEW a \in Failers, NEW ok \in BOOLEAN, PersistFailure(a, ok) PROVE GateHeld'
    BY <1>30 DEF PersistFailure, Persist
  <1>31. ASSUME NEW a \in Failers, CommitFailure(a) PROVE GateHeld'
    BY <1>31 DEF CommitFailure
  <1>32. ASSUME NEW a \in Failers, FailFinally(a) PROVE GateHeld'
    BY <1>32 DEF FailFinally, Scope
  <1>33. ASSUME NEW m \in Monitors, MonitorFire(m) PROVE GateHeld'
    BY <1>33 DEF MonitorFire
  <1>34. ASSUME NEW m \in Monitors, MonitorLoop(m) PROVE GateHeld'
    BY <1>34 DEF MonitorLoop, Finalizing
  <1>35. CASE CloseBegin
    BY <1>35 DEF CloseBegin
  <1>36. CASE CloseSources
    BY <1>36 DEF CloseSources
  <1>37. CASE CloseLoop
    BY <1>37 DEF CloseLoop, Finalizing
  <1>38. CASE CloseAbort
    BY <1>38 DEF CloseAbort
  <1>39. ASSUME NEW ok \in BOOLEAN, CloseRetain(ok) PROVE GateHeld'
    BY <1>39 DEF CloseRetain
  <1>40. CASE CloseFinally
    BY <1>40 DEF CloseFinally
  <1>41. CASE OpenRepresentation
    BY <1>41 DEF OpenRepresentation, VolumeReadable
  <1>42. CASE CloseRepresentation
    BY <1>42 DEF CloseRepresentation
  <1>43. CASE VerifyBegin
    BY <1>43 DEF VerifyBegin, VolumeReadable
  <1>44. CASE VerifyEnd
    BY <1>44 DEF VerifyEnd
  <1>45. CASE UNCHANGED vars
    BY <1>45 DEF vars
  <1> HIDE DEF Ownership, TypeFlags, TypeRecords, AcceptanceHeld, WorkerHeld, MonitorHeld,
     ReplayHeld, CloseHeld, ClosureHeld, NoTakeHeld, LabelsHeld, FailureHeld,
     OwnerHoldsItsTake, CommitAssertion, ProgressHeld, Control, ReceiptsHeld, Receipt,
     GateHeld
  <1> QED
    BY <1>1, <1>2, <1>3, <1>4, <1>5, <1>6, <1>7, <1>8, <1>9, <1>10, <1>11, <1>12, <1>13,
       <1>14, <1>15, <1>16, <1>17, <1>18, <1>19, <1>20, <1>21, <1>22, <1>23, <1>24, <1>25,
       <1>26, <1>27, <1>28, <1>29, <1>30, <1>31, <1>32, <1>33, <1>34, <1>35, <1>36, <1>37,
       <1>38, <1>39, <1>40, <1>41, <1>42, <1>43, <1>44, <1>45
       DEF Next, Environment, KeyStep, OwnerStep, FailStep, WorkerStep, CloseStep, Terminated

\* The worker runs only for a cached receipt whose durability is settled.
THEOREM GateCorrect == Spec => []GateHeld
  <1>1. Init => GateHeld
    BY ConstantsAssumption
       DEF Init, GateHeld, Holding, OwnerSteps, FailSteps, Agents, Threads
  <1>2. TypeOK /\ Ownership /\ Control /\ ReceiptsHeld /\ GateHeld /\ [Next]_vars => GateHeld'
    BY GateStep
  <1> QED BY <1>1, <1>2, TypeCorrect, OwnershipCorrect, ControlCorrect, ReceiptsCorrect, PTL
          DEF Spec

\* The safe swap.
Swap == SwapHeld /\ ReleasedMeansQuiet /\ SwapFailureVisible

\* No lock block opens a released volume or hides a failed handoff.
LEMMA SwapStep ==
    ASSUME TypeOK, Ownership, Control, GateHeld, Swap, [Next]_vars
    PROVE  Swap'
  <1> USE ConstantsAssumption
      DEF TypeOK, TypePc, TypeTake, Agents, Monitors, Threads, Owners, Failers, OwnerSteps,
         FailSteps, CloseSteps, Holding, Goto, GotoNotify, Wake, takeVars, stopVars, failVars,
         swapVars, readVars, cmdVars, flagVars, pcVars, Swap, Ownership, TypeFlags,
         TypeRecords, AcceptanceHeld, WorkerHeld, MonitorHeld, ReplayHeld, CloseHeld,
         ClosureHeld, NoTakeHeld, LabelsHeld, FailureHeld, OwnerHoldsItsTake, CommitAssertion,
         ProgressHeld, Control, GateHeld, SwapHeld, ReleasedMeansQuiet, SwapFailureVisible
  <1>1. ASSUME NEW t \in Takes, Start(t) PROVE Swap'
    BY <1>1 DEF Start, StartTake, StartFailed, StartEscapes, StartAdmitted
  <1>2. CASE SourceFailure
    BY <1>2 DEF SourceFailure
  <1>3. CASE Checkpoint
    BY <1>3 DEF Checkpoint
  <1>4. ASSUME NEW k \in Keys, RetryCompletedStop(k) PROVE Swap'
    BY <1>4 DEF RetryCompletedStop, Finalizing
  <1>5. ASSUME NEW k \in Keys, NEW ok \in BOOLEAN, CommitStopReplay(k, ok) PROVE Swap'
    BY <1>5 DEF CommitStopReplay, Persist
  <1>6. ASSUME NEW k \in Keys, RequestStop(k) PROVE Swap'
    BY <1>6 DEF RequestStop, Accepting, SpawnWorker, PrepareAdmitted, Rearmed
  <1>7. ASSUME NEW k \in Keys, RequestReceipt(k) PROVE Swap'
    BY <1>7 DEF RequestReceipt, Accepting, PrepareAdmitted
  <1>8. ASSUME NEW k \in Keys, RequestHandoff(k) PROVE Swap'
    BY <1>8 DEF RequestHandoff, Accepting, SpawnWorker, PrepareAdmitted, Rearmed
  <1>9. ASSUME NEW k \in Keys, AcceptOk(k) PROVE Swap'
    BY <1>9 DEF AcceptOk, Persist
  <1>10. ASSUME NEW k \in Keys, AcceptRollback(k) PROVE Swap'
    <2>1. k \notin Monitors \cup Threads /\ RolledBack(k) BY <1>10, RollbackEffect
    <2>2. SwapHeld' BY <2>1 DEF RolledBack
    <2>3. ReleasedMeansQuiet' BY <2>1 DEF RolledBack
    <2>4. SwapFailureVisible' BY <2>1 DEF RolledBack
    <2> QED BY <2>2, <2>3, <2>4
  <1>11. ASSUME NEW k \in Keys, AcceptRecover(k) PROVE Swap'
    BY <1>11 DEF AcceptRecover
  <1>12. ASSUME NEW k \in Keys, AcceptRelease(k) PROVE Swap'
    BY <1>12 DEF AcceptRelease
  <1>13. ASSUME NEW o \in Owners, StopSources(o) PROVE Swap'
    BY <1>13 DEF StopSources, Claim
  <1>14. ASSUME NEW o \in Owners, StopRecorder(o) PROVE Swap'
    BY <1>14 DEF StopRecorder, Claim
  <1>15. ASSUME NEW o \in Owners, Seal(o) PROVE Swap'
    BY <1>15 DEF Seal, Claim
  <1>16. ASSUME NEW o \in Owners, Catalog(o) PROVE Swap'
    BY <1>16 DEF Catalog, Claim
  <1>17. ASSUME NEW o \in Owners, ClearActive(o) PROVE Swap'
    BY <1>17 DEF ClearActive, Claim, EndRefused, IsSwap, Scope
  <1>18. ASSUME NEW o \in Owners, NEW ok \in BOOLEAN, CommitStop(o, ok) PROVE Swap'
    BY <1>18 DEF CommitStop, Persist
  <1>19. ASSUME NEW o \in Owners, StopFinally(o) PROVE Swap'
    BY <1>19 DEF StopFinally, LeaseAfterStop, Scope
  <1>20. ASSUME NEW ok \in BOOLEAN, PersistIntent(ok) PROVE Swap'
    BY <1>20 DEF PersistIntent, Persist
  <1>21. CASE CheckSwap
    BY <1>21 DEF CheckSwap, SwapRaised, Handoff
  <1>22. ASSUME NEW ok \in BOOLEAN, PersistReceipt(ok) PROVE Swap'
    BY <1>22 DEF PersistReceipt, Persist, SwapRaised, Handoff
  <1>23. CASE PublishSwap
    BY <1>23 DEF PublishSwap, Handoff
  <1>24. ASSUME NEW ok \in BOOLEAN, HandoffFailed(ok) PROVE Swap'
    BY <1>24 DEF HandoffFailed, Persist
  <1>25. CASE HandoffFinally
    BY <1>25 DEF HandoffFinally
  <1>26. ASSUME NEW ok \in BOOLEAN, WorkerExcept(ok) PROVE Swap'
    BY <1>26 DEF WorkerExcept, Claim, Persist
  <1>27. CASE WorkerDone
    BY <1>27 DEF WorkerDone
  <1>28. ASSUME NEW a \in Failers, FailRecorder(a) PROVE Swap'
    BY <1>28 DEF FailRecorder
  <1>29. ASSUME NEW a \in Failers, RetainFailure(a) PROVE Swap'
    BY <1>29 DEF RetainFailure
  <1>30. ASSUME NEW a \in Failers, NEW ok \in BOOLEAN, PersistFailure(a, ok) PROVE Swap'
    BY <1>30 DEF PersistFailure, Persist
  <1>31. ASSUME NEW a \in Failers, CommitFailure(a) PROVE Swap'
    BY <1>31 DEF CommitFailure
  <1>32. ASSUME NEW a \in Failers, FailFinally(a) PROVE Swap'
    BY <1>32 DEF FailFinally, Scope
  <1>33. ASSUME NEW m \in Monitors, MonitorFire(m) PROVE Swap'
    BY <1>33 DEF MonitorFire
  <1>34. ASSUME NEW m \in Monitors, MonitorLoop(m) PROVE Swap'
    BY <1>34 DEF MonitorLoop, Finalizing
  <1>35. CASE CloseBegin
    BY <1>35 DEF CloseBegin
  <1>36. CASE CloseSources
    BY <1>36 DEF CloseSources
  <1>37. CASE CloseLoop
    BY <1>37 DEF CloseLoop, Finalizing
  <1>38. CASE CloseAbort
    BY <1>38 DEF CloseAbort
  <1>39. ASSUME NEW ok \in BOOLEAN, CloseRetain(ok) PROVE Swap'
    BY <1>39 DEF CloseRetain
  <1>40. CASE CloseFinally
    BY <1>40 DEF CloseFinally
  <1>41. CASE OpenRepresentation
    BY <1>41 DEF OpenRepresentation, VolumeReadable
  <1>42. CASE CloseRepresentation
    BY <1>42 DEF CloseRepresentation
  <1>43. CASE VerifyBegin
    BY <1>43 DEF VerifyBegin, VolumeReadable
  <1>44. CASE VerifyEnd
    BY <1>44 DEF VerifyEnd
  <1>45. CASE UNCHANGED vars
    BY <1>45 DEF vars
  <1> HIDE DEF Swap, Ownership, TypeFlags, TypeRecords, AcceptanceHeld, WorkerHeld,
     MonitorHeld, ReplayHeld, CloseHeld, ClosureHeld, NoTakeHeld, LabelsHeld, FailureHeld,
     OwnerHoldsItsTake, CommitAssertion, ProgressHeld, Control, GateHeld, SwapHeld,
     ReleasedMeansQuiet, SwapFailureVisible
  <1> QED
    BY <1>1, <1>2, <1>3, <1>4, <1>5, <1>6, <1>7, <1>8, <1>9, <1>10, <1>11, <1>12, <1>13,
       <1>14, <1>15, <1>16, <1>17, <1>18, <1>19, <1>20, <1>21, <1>22, <1>23, <1>24, <1>25,
       <1>26, <1>27, <1>28, <1>29, <1>30, <1>31, <1>32, <1>33, <1>34, <1>35, <1>36, <1>37,
       <1>38, <1>39, <1>40, <1>41, <1>42, <1>43, <1>44, <1>45
       DEF Next, Environment, KeyStep, OwnerStep, FailStep, WorkerStep, CloseStep, Terminated

\* Nothing reads a released volume, and a handoff that stopped shows why.
THEOREM SwapCorrect == Spec => []SafeRelease
  <1>1. Init => Swap
    BY ConstantsAssumption
       DEF Init, Swap, SwapHeld, ReleasedMeansQuiet, SwapFailureVisible, Agents, Threads
  <1>2. TypeOK /\ Ownership /\ Control /\ GateHeld /\ Swap /\ [Next]_vars => Swap'
    BY SwapStep
  <1>3. Swap => SafeRelease
    BY DEF Swap, SafeRelease
  <1> QED BY <1>1, <1>2, <1>3, TypeCorrect, OwnershipCorrect, ControlCorrect, GateCorrect, PTL
          DEF Spec

\* Receipts never name a take that has not begun.
LEMMA BegunStep ==
    ASSUME TypeOK, Ownership, Control, BegunHeld, [Next]_vars
    PROVE  BegunHeld'
  <1> USE ConstantsAssumption
      DEF TypeOK, TypePc, TypeTake, Agents, Monitors, Threads, Owners, Failers, OwnerSteps,
         FailSteps, CloseSteps, Holding, Goto, GotoNotify, Wake, takeVars, stopVars, failVars,
         swapVars, readVars, cmdVars, flagVars, pcVars, Ownership, TypeFlags, TypeRecords,
         AcceptanceHeld, WorkerHeld, MonitorHeld, ReplayHeld, CloseHeld, ClosureHeld,
         NoTakeHeld, LabelsHeld, FailureHeld, OwnerHoldsItsTake, CommitAssertion,
         ProgressHeld, Control, MaybeTake, Receipt, NoReceipt, BegunHeld
  <1>1. ASSUME NEW t \in Takes, Start(t) PROVE BegunHeld'
    BY <1>1 DEF Start, StartTake, StartFailed, StartEscapes, StartAdmitted
  <1>2. CASE SourceFailure
    BY <1>2 DEF SourceFailure
  <1>3. CASE Checkpoint
    BY <1>3 DEF Checkpoint
  <1>4. ASSUME NEW k \in Keys, RetryCompletedStop(k) PROVE BegunHeld'
    BY <1>4 DEF RetryCompletedStop, Finalizing
  <1>5. ASSUME NEW k \in Keys, NEW ok \in BOOLEAN, CommitStopReplay(k, ok) PROVE BegunHeld'
    BY <1>5 DEF CommitStopReplay, Persist
  <1>6. ASSUME NEW k \in Keys, RequestStop(k) PROVE BegunHeld'
    BY <1>6 DEF RequestStop, Accepting, SpawnWorker, PrepareAdmitted, Rearmed
  <1>7. ASSUME NEW k \in Keys, RequestReceipt(k) PROVE BegunHeld'
    BY <1>7 DEF RequestReceipt, Accepting, PrepareAdmitted
  <1>8. ASSUME NEW k \in Keys, RequestHandoff(k) PROVE BegunHeld'
    BY <1>8 DEF RequestHandoff, Accepting, SpawnWorker, PrepareAdmitted, Rearmed
  <1>9. ASSUME NEW k \in Keys, AcceptOk(k) PROVE BegunHeld'
    BY <1>9 DEF AcceptOk, Persist
  <1>10. ASSUME NEW k \in Keys, AcceptRollback(k) PROVE BegunHeld'
    <2>1. k \notin Monitors \cup Threads /\ RolledBack(k) BY <1>10, RollbackEffect
    <2> QED BY <2>1 DEF RolledBack
  <1>11. ASSUME NEW k \in Keys, AcceptRecover(k) PROVE BegunHeld'
    BY <1>11 DEF AcceptRecover
  <1>12. ASSUME NEW k \in Keys, AcceptRelease(k) PROVE BegunHeld'
    BY <1>12 DEF AcceptRelease
  <1>13. ASSUME NEW o \in Owners, StopSources(o) PROVE BegunHeld'
    BY <1>13 DEF StopSources, Claim
  <1>14. ASSUME NEW o \in Owners, StopRecorder(o) PROVE BegunHeld'
    BY <1>14 DEF StopRecorder, Claim
  <1>15. ASSUME NEW o \in Owners, Seal(o) PROVE BegunHeld'
    BY <1>15 DEF Seal, Claim
  <1>16. ASSUME NEW o \in Owners, Catalog(o) PROVE BegunHeld'
    BY <1>16 DEF Catalog, Claim
  <1>17. ASSUME NEW o \in Owners, ClearActive(o) PROVE BegunHeld'
    BY <1>17 DEF ClearActive, Claim, EndRefused, IsSwap, Scope
  <1>18. ASSUME NEW o \in Owners, NEW ok \in BOOLEAN, CommitStop(o, ok) PROVE BegunHeld'
    BY <1>18 DEF CommitStop, Persist
  <1>19. ASSUME NEW o \in Owners, StopFinally(o) PROVE BegunHeld'
    BY <1>19 DEF StopFinally, LeaseAfterStop, Scope
  <1>20. ASSUME NEW ok \in BOOLEAN, PersistIntent(ok) PROVE BegunHeld'
    BY <1>20 DEF PersistIntent, Persist
  <1>21. CASE CheckSwap
    BY <1>21 DEF CheckSwap, SwapRaised, Handoff
  <1>22. ASSUME NEW ok \in BOOLEAN, PersistReceipt(ok) PROVE BegunHeld'
    BY <1>22 DEF PersistReceipt, Persist, SwapRaised, Handoff
  <1>23. CASE PublishSwap
    BY <1>23 DEF PublishSwap, Handoff
  <1>24. ASSUME NEW ok \in BOOLEAN, HandoffFailed(ok) PROVE BegunHeld'
    BY <1>24 DEF HandoffFailed, Persist
  <1>25. CASE HandoffFinally
    BY <1>25 DEF HandoffFinally
  <1>26. ASSUME NEW ok \in BOOLEAN, WorkerExcept(ok) PROVE BegunHeld'
    BY <1>26 DEF WorkerExcept, Claim, Persist
  <1>27. CASE WorkerDone
    BY <1>27 DEF WorkerDone
  <1>28. ASSUME NEW a \in Failers, FailRecorder(a) PROVE BegunHeld'
    BY <1>28 DEF FailRecorder
  <1>29. ASSUME NEW a \in Failers, RetainFailure(a) PROVE BegunHeld'
    BY <1>29 DEF RetainFailure
  <1>30. ASSUME NEW a \in Failers, NEW ok \in BOOLEAN, PersistFailure(a, ok) PROVE BegunHeld'
    BY <1>30 DEF PersistFailure, Persist
  <1>31. ASSUME NEW a \in Failers, CommitFailure(a) PROVE BegunHeld'
    BY <1>31 DEF CommitFailure
  <1>32. ASSUME NEW a \in Failers, FailFinally(a) PROVE BegunHeld'
    BY <1>32 DEF FailFinally, Scope
  <1>33. ASSUME NEW m \in Monitors, MonitorFire(m) PROVE BegunHeld'
    BY <1>33 DEF MonitorFire
  <1>34. ASSUME NEW m \in Monitors, MonitorLoop(m) PROVE BegunHeld'
    BY <1>34 DEF MonitorLoop, Finalizing
  <1>35. CASE CloseBegin
    BY <1>35 DEF CloseBegin
  <1>36. CASE CloseSources
    BY <1>36 DEF CloseSources
  <1>37. CASE CloseLoop
    BY <1>37 DEF CloseLoop, Finalizing
  <1>38. CASE CloseAbort
    BY <1>38 DEF CloseAbort
  <1>39. ASSUME NEW ok \in BOOLEAN, CloseRetain(ok) PROVE BegunHeld'
    BY <1>39 DEF CloseRetain
  <1>40. CASE CloseFinally
    BY <1>40 DEF CloseFinally
  <1>41. CASE OpenRepresentation
    BY <1>41 DEF OpenRepresentation, VolumeReadable
  <1>42. CASE CloseRepresentation
    BY <1>42 DEF CloseRepresentation
  <1>43. CASE VerifyBegin
    BY <1>43 DEF VerifyBegin, VolumeReadable
  <1>44. CASE VerifyEnd
    BY <1>44 DEF VerifyEnd
  <1>45. CASE UNCHANGED vars
    BY <1>45 DEF vars
  <1> HIDE DEF Ownership, TypeFlags, TypeRecords, AcceptanceHeld, WorkerHeld, MonitorHeld,
     ReplayHeld, CloseHeld, ClosureHeld, NoTakeHeld, LabelsHeld, FailureHeld,
     OwnerHoldsItsTake, CommitAssertion, ProgressHeld, Control, MaybeTake, Receipt, NoReceipt,
     BegunHeld
  <1> QED
    BY <1>1, <1>2, <1>3, <1>4, <1>5, <1>6, <1>7, <1>8, <1>9, <1>10, <1>11, <1>12, <1>13,
       <1>14, <1>15, <1>16, <1>17, <1>18, <1>19, <1>20, <1>21, <1>22, <1>23, <1>24, <1>25,
       <1>26, <1>27, <1>28, <1>29, <1>30, <1>31, <1>32, <1>33, <1>34, <1>35, <1>36, <1>37,
       <1>38, <1>39, <1>40, <1>41, <1>42, <1>43, <1>44, <1>45
       DEF Next, Environment, KeyStep, OwnerStep, FailStep, WorkerStep, CloseStep, Terminated

\* Whoever lets go of an active take leaves a failed commit behind.
LEMMA LetGoStep ==
    ASSUME TypeOK, Ownership, Control, LetGoHeld, [Next]_vars
    PROVE  LetGoHeld'
  <1> USE ConstantsAssumption
      DEF TypeOK, TypePc, TypeTake, Agents, Monitors, Threads, Owners, Failers, OwnerSteps,
         FailSteps, CloseSteps, Holding, Goto, GotoNotify, Wake, takeVars, stopVars, failVars,
         swapVars, readVars, cmdVars, flagVars, pcVars, Ownership, TypeFlags, TypeRecords,
         AcceptanceHeld, WorkerHeld, MonitorHeld, ReplayHeld, CloseHeld, ClosureHeld,
         NoTakeHeld, LabelsHeld, FailureHeld, OwnerHoldsItsTake, CommitAssertion,
         ProgressHeld, Control, LetGoHeld
  <1>1. ASSUME NEW t \in Takes, Start(t) PROVE LetGoHeld'
    BY <1>1 DEF Start, StartTake, StartFailed, StartEscapes, StartAdmitted
  <1>2. CASE SourceFailure
    BY <1>2 DEF SourceFailure
  <1>3. CASE Checkpoint
    BY <1>3 DEF Checkpoint
  <1>4. ASSUME NEW k \in Keys, RetryCompletedStop(k) PROVE LetGoHeld'
    BY <1>4 DEF RetryCompletedStop, Finalizing
  <1>5. ASSUME NEW k \in Keys, NEW ok \in BOOLEAN, CommitStopReplay(k, ok) PROVE LetGoHeld'
    BY <1>5 DEF CommitStopReplay, Persist
  <1>6. ASSUME NEW k \in Keys, RequestStop(k) PROVE LetGoHeld'
    BY <1>6 DEF RequestStop, Accepting, SpawnWorker, PrepareAdmitted, Rearmed
  <1>7. ASSUME NEW k \in Keys, RequestReceipt(k) PROVE LetGoHeld'
    BY <1>7 DEF RequestReceipt, Accepting, PrepareAdmitted
  <1>8. ASSUME NEW k \in Keys, RequestHandoff(k) PROVE LetGoHeld'
    BY <1>8 DEF RequestHandoff, Accepting, SpawnWorker, PrepareAdmitted, Rearmed
  <1>9. ASSUME NEW k \in Keys, AcceptOk(k) PROVE LetGoHeld'
    BY <1>9 DEF AcceptOk, Persist
  <1>10. ASSUME NEW k \in Keys, AcceptRollback(k) PROVE LetGoHeld'
    <2>1. k \notin Monitors \cup Threads /\ RolledBack(k) BY <1>10, RollbackEffect
    <2>2. /\ UNCHANGED <<active, failInflight, failPending>>
          /\ \A a \in Failers : pc'[a] \in {pc[a], "idle"}
          /\ pc'["worker"] # "idle" =>
               pc'["worker"] = pc["worker"] /\ take'["worker"] = take["worker"]
      BY <2>1 DEF RolledBack
    <2> QED BY <2>2
  <1>11. ASSUME NEW k \in Keys, AcceptRecover(k) PROVE LetGoHeld'
    BY <1>11 DEF AcceptRecover
  <1>12. ASSUME NEW k \in Keys, AcceptRelease(k) PROVE LetGoHeld'
    BY <1>12 DEF AcceptRelease
  <1>13. ASSUME NEW o \in Owners, StopSources(o) PROVE LetGoHeld'
    BY <1>13 DEF StopSources, Claim
  <1>14. ASSUME NEW o \in Owners, StopRecorder(o) PROVE LetGoHeld'
    BY <1>14 DEF StopRecorder, Claim
  <1>15. ASSUME NEW o \in Owners, Seal(o) PROVE LetGoHeld'
    BY <1>15 DEF Seal, Claim
  <1>16. ASSUME NEW o \in Owners, Catalog(o) PROVE LetGoHeld'
    BY <1>16 DEF Catalog, Claim
  <1>17. ASSUME NEW o \in Owners, ClearActive(o) PROVE LetGoHeld'
    BY <1>17 DEF ClearActive, Claim, EndRefused, IsSwap, Scope
  <1>18. ASSUME NEW o \in Owners, NEW ok \in BOOLEAN, CommitStop(o, ok) PROVE LetGoHeld'
    BY <1>18 DEF CommitStop, Persist
  <1>19. ASSUME NEW o \in Owners, StopFinally(o) PROVE LetGoHeld'
    BY <1>19 DEF StopFinally, LeaseAfterStop, Scope
  <1>20. ASSUME NEW ok \in BOOLEAN, PersistIntent(ok) PROVE LetGoHeld'
    BY <1>20 DEF PersistIntent, Persist
  <1>21. CASE CheckSwap
    BY <1>21 DEF CheckSwap, SwapRaised, Handoff
  <1>22. ASSUME NEW ok \in BOOLEAN, PersistReceipt(ok) PROVE LetGoHeld'
    BY <1>22 DEF PersistReceipt, Persist, SwapRaised, Handoff
  <1>23. CASE PublishSwap
    BY <1>23 DEF PublishSwap, Handoff
  <1>24. ASSUME NEW ok \in BOOLEAN, HandoffFailed(ok) PROVE LetGoHeld'
    BY <1>24 DEF HandoffFailed, Persist
  <1>25. CASE HandoffFinally
    BY <1>25 DEF HandoffFinally
  <1>26. ASSUME NEW ok \in BOOLEAN, WorkerExcept(ok) PROVE LetGoHeld'
    BY <1>26 DEF WorkerExcept, Claim, Persist
  <1>27. CASE WorkerDone
    BY <1>27 DEF WorkerDone
  <1>28. ASSUME NEW a \in Failers, FailRecorder(a) PROVE LetGoHeld'
    BY <1>28 DEF FailRecorder
  <1>29. ASSUME NEW a \in Failers, RetainFailure(a) PROVE LetGoHeld'
    BY <1>29 DEF RetainFailure
  <1>30. ASSUME NEW a \in Failers, NEW ok \in BOOLEAN, PersistFailure(a, ok) PROVE LetGoHeld'
    BY <1>30 DEF PersistFailure, Persist
  <1>31. ASSUME NEW a \in Failers, CommitFailure(a) PROVE LetGoHeld'
    BY <1>31 DEF CommitFailure
  <1>32. ASSUME NEW a \in Failers, FailFinally(a) PROVE LetGoHeld'
    BY <1>32 DEF FailFinally, Scope
  <1>33. ASSUME NEW m \in Monitors, MonitorFire(m) PROVE LetGoHeld'
    BY <1>33 DEF MonitorFire
  <1>34. ASSUME NEW m \in Monitors, MonitorLoop(m) PROVE LetGoHeld'
    BY <1>34 DEF MonitorLoop, Finalizing
  <1>35. CASE CloseBegin
    BY <1>35 DEF CloseBegin
  <1>36. CASE CloseSources
    BY <1>36 DEF CloseSources
  <1>37. CASE CloseLoop
    BY <1>37 DEF CloseLoop, Finalizing
  <1>38. CASE CloseAbort
    BY <1>38 DEF CloseAbort
  <1>39. ASSUME NEW ok \in BOOLEAN, CloseRetain(ok) PROVE LetGoHeld'
    BY <1>39 DEF CloseRetain
  <1>40. CASE CloseFinally
    BY <1>40 DEF CloseFinally
  <1>41. CASE OpenRepresentation
    BY <1>41 DEF OpenRepresentation, VolumeReadable
  <1>42. CASE CloseRepresentation
    BY <1>42 DEF CloseRepresentation
  <1>43. CASE VerifyBegin
    BY <1>43 DEF VerifyBegin, VolumeReadable
  <1>44. CASE VerifyEnd
    BY <1>44 DEF VerifyEnd
  <1>45. CASE UNCHANGED vars
    BY <1>45 DEF vars
  <1> HIDE DEF Ownership, TypeFlags, TypeRecords, AcceptanceHeld, WorkerHeld, MonitorHeld,
     ReplayHeld, CloseHeld, ClosureHeld, NoTakeHeld, LabelsHeld, FailureHeld,
     OwnerHoldsItsTake, CommitAssertion, ProgressHeld, Control, LetGoHeld
  <1> QED
    BY <1>1, <1>2, <1>3, <1>4, <1>5, <1>6, <1>7, <1>8, <1>9, <1>10, <1>11, <1>12, <1>13,
       <1>14, <1>15, <1>16, <1>17, <1>18, <1>19, <1>20, <1>21, <1>22, <1>23, <1>24, <1>25,
       <1>26, <1>27, <1>28, <1>29, <1>30, <1>31, <1>32, <1>33, <1>34, <1>35, <1>36, <1>37,
       <1>38, <1>39, <1>40, <1>41, <1>42, <1>43, <1>44, <1>45
       DEF Next, Environment, KeyStep, OwnerStep, FailStep, WorkerStep, CloseStep, Terminated

\* No lock block orphans the take of an accepted stop.
LEMMA AcceptedStep ==
    ASSUME TypeOK, Ownership, Control, ReceiptsHeld, BegunHeld, LetGoHeld, GateHeld, AcceptedHeld, [Next]_vars
    PROVE  AcceptedHeld'
  <1> USE ConstantsAssumption
      DEF TypeOK, TypePc, TypeTake, Agents, Monitors, Threads, Owners, Failers, OwnerSteps,
         FailSteps, CloseSteps, Holding, Goto, GotoNotify, Wake, takeVars, stopVars, failVars,
         swapVars, readVars, cmdVars, flagVars, pcVars, Ownership, TypeFlags, TypeRecords,
         AcceptanceHeld, WorkerHeld, MonitorHeld, ReplayHeld, CloseHeld, ClosureHeld,
         NoTakeHeld, LabelsHeld, FailureHeld, OwnerHoldsItsTake, CommitAssertion,
         ProgressHeld, Control, GateHeld, ReceiptsHeld, BegunHeld, LetGoHeld, MaybeTake,
         Receipt, NoReceipt, AcceptedHeld
  <1>1. ASSUME NEW t \in Takes, Start(t) PROVE AcceptedHeld'
    BY <1>1 DEF Start, StartTake, StartFailed, StartEscapes, StartAdmitted
  <1>2. CASE SourceFailure
    BY <1>2 DEF SourceFailure
  <1>3. CASE Checkpoint
    BY <1>3 DEF Checkpoint
  <1>4. ASSUME NEW k \in Keys, RetryCompletedStop(k) PROVE AcceptedHeld'
    BY <1>4 DEF RetryCompletedStop, Finalizing
  <1>5. ASSUME NEW k \in Keys, NEW ok \in BOOLEAN, CommitStopReplay(k, ok) PROVE AcceptedHeld'
    BY <1>5 DEF CommitStopReplay, Persist
  <1>6. ASSUME NEW k \in Keys, RequestStop(k) PROVE AcceptedHeld'
    BY <1>6 DEF RequestStop, Accepting, SpawnWorker, PrepareAdmitted, Rearmed
  <1>7. ASSUME NEW k \in Keys, RequestReceipt(k) PROVE AcceptedHeld'
    BY <1>7 DEF RequestReceipt, Accepting, PrepareAdmitted
  <1>8. ASSUME NEW k \in Keys, RequestHandoff(k) PROVE AcceptedHeld'
    BY <1>8 DEF RequestHandoff, Accepting, SpawnWorker, PrepareAdmitted, Rearmed
  <1>9. ASSUME NEW k \in Keys, AcceptOk(k) PROVE AcceptedHeld'
    BY <1>9 DEF AcceptOk, Persist
  <1>10. ASSUME NEW k \in Keys, AcceptRollback(k) PROVE AcceptedHeld'
    <2>1. k \notin Monitors \cup Threads /\ RolledBack(k) BY <1>10, RollbackEffect
    <2>2. stopAccept = k
      BY <2>1 DEF RolledBack
    <2>3. \A j \in Keys \ {k} : commands'[j] = commands[j]
      BY <2>1, <2>2 DEF RolledBack
    <2>4. active # None => commands'[k] = None
      BY <2>1 DEF RolledBack
    <2>5. /\ UNCHANGED <<active, failInflight, failPending, saved>>
          /\ pc'["worker"] = "gated" => pc["worker"] = "gated" /\ wkey' = wkey
          /\ wkey' = None => wkey = None \/ (wkey = k /\ pc["worker"] = "gated")
      BY <2>1 DEF RolledBack
    <2>6. (\A j \in Keys : pc[j] = "accept" /\ active # None => saved[j] = None)'
      BY <2>1 DEF RolledBack
    <2> QED BY <2>3, <2>4, <2>5, <2>6
  <1>11. ASSUME NEW k \in Keys, AcceptRecover(k) PROVE AcceptedHeld'
    BY <1>11 DEF AcceptRecover
  <1>12. ASSUME NEW k \in Keys, AcceptRelease(k) PROVE AcceptedHeld'
    BY <1>12 DEF AcceptRelease
  <1>13. ASSUME NEW o \in Owners, StopSources(o) PROVE AcceptedHeld'
    BY <1>13 DEF StopSources, Claim
  <1>14. ASSUME NEW o \in Owners, StopRecorder(o) PROVE AcceptedHeld'
    BY <1>14 DEF StopRecorder, Claim
  <1>15. ASSUME NEW o \in Owners, Seal(o) PROVE AcceptedHeld'
    BY <1>15 DEF Seal, Claim
  <1>16. ASSUME NEW o \in Owners, Catalog(o) PROVE AcceptedHeld'
    BY <1>16 DEF Catalog, Claim
  <1>17. ASSUME NEW o \in Owners, ClearActive(o) PROVE AcceptedHeld'
    BY <1>17 DEF ClearActive, Claim, EndRefused, IsSwap, Scope
  <1>18. ASSUME NEW o \in Owners, NEW ok \in BOOLEAN, CommitStop(o, ok) PROVE AcceptedHeld'
    BY <1>18 DEF CommitStop, Persist
  <1>19. ASSUME NEW o \in Owners, StopFinally(o) PROVE AcceptedHeld'
    BY <1>19 DEF StopFinally, LeaseAfterStop, Scope
  <1>20. ASSUME NEW ok \in BOOLEAN, PersistIntent(ok) PROVE AcceptedHeld'
    BY <1>20 DEF PersistIntent, Persist
  <1>21. CASE CheckSwap
    BY <1>21 DEF CheckSwap, SwapRaised, Handoff
  <1>22. ASSUME NEW ok \in BOOLEAN, PersistReceipt(ok) PROVE AcceptedHeld'
    BY <1>22 DEF PersistReceipt, Persist, SwapRaised, Handoff
  <1>23. CASE PublishSwap
    BY <1>23 DEF PublishSwap, Handoff
  <1>24. ASSUME NEW ok \in BOOLEAN, HandoffFailed(ok) PROVE AcceptedHeld'
    BY <1>24 DEF HandoffFailed, Persist
  <1>25. CASE HandoffFinally
    BY <1>25 DEF HandoffFinally
  <1>26. ASSUME NEW ok \in BOOLEAN, WorkerExcept(ok) PROVE AcceptedHeld'
    BY <1>26 DEF WorkerExcept, Claim, Persist
  <1>27. CASE WorkerDone
    BY <1>27 DEF WorkerDone
  <1>28. ASSUME NEW a \in Failers, FailRecorder(a) PROVE AcceptedHeld'
    BY <1>28 DEF FailRecorder
  <1>29. ASSUME NEW a \in Failers, RetainFailure(a) PROVE AcceptedHeld'
    BY <1>29 DEF RetainFailure
  <1>30. ASSUME NEW a \in Failers, NEW ok \in BOOLEAN, PersistFailure(a, ok) PROVE AcceptedHeld'
    BY <1>30 DEF PersistFailure, Persist
  <1>31. ASSUME NEW a \in Failers, CommitFailure(a) PROVE AcceptedHeld'
    BY <1>31 DEF CommitFailure
  <1>32. ASSUME NEW a \in Failers, FailFinally(a) PROVE AcceptedHeld'
    BY <1>32 DEF FailFinally, Scope
  <1>33. ASSUME NEW m \in Monitors, MonitorFire(m) PROVE AcceptedHeld'
    BY <1>33 DEF MonitorFire
  <1>34. ASSUME NEW m \in Monitors, MonitorLoop(m) PROVE AcceptedHeld'
    BY <1>34 DEF MonitorLoop, Finalizing
  <1>35. CASE CloseBegin
    BY <1>35 DEF CloseBegin
  <1>36. CASE CloseSources
    BY <1>36 DEF CloseSources
  <1>37. CASE CloseLoop
    BY <1>37 DEF CloseLoop, Finalizing
  <1>38. CASE CloseAbort
    BY <1>38 DEF CloseAbort
  <1>39. ASSUME NEW ok \in BOOLEAN, CloseRetain(ok) PROVE AcceptedHeld'
    BY <1>39 DEF CloseRetain
  <1>40. CASE CloseFinally
    BY <1>40 DEF CloseFinally
  <1>41. CASE OpenRepresentation
    BY <1>41 DEF OpenRepresentation, VolumeReadable
  <1>42. CASE CloseRepresentation
    BY <1>42 DEF CloseRepresentation
  <1>43. CASE VerifyBegin
    BY <1>43 DEF VerifyBegin, VolumeReadable
  <1>44. CASE VerifyEnd
    BY <1>44 DEF VerifyEnd
  <1>45. CASE UNCHANGED vars
    BY <1>45 DEF vars
  <1> HIDE DEF Ownership, TypeFlags, TypeRecords, AcceptanceHeld, WorkerHeld, MonitorHeld,
     ReplayHeld, CloseHeld, ClosureHeld, NoTakeHeld, LabelsHeld, FailureHeld,
     OwnerHoldsItsTake, CommitAssertion, ProgressHeld, Control, GateHeld, ReceiptsHeld,
     BegunHeld, LetGoHeld, MaybeTake, Receipt, NoReceipt, AcceptedHeld
  <1> QED
    BY <1>1, <1>2, <1>3, <1>4, <1>5, <1>6, <1>7, <1>8, <1>9, <1>10, <1>11, <1>12, <1>13,
       <1>14, <1>15, <1>16, <1>17, <1>18, <1>19, <1>20, <1>21, <1>22, <1>23, <1>24, <1>25,
       <1>26, <1>27, <1>28, <1>29, <1>30, <1>31, <1>32, <1>33, <1>34, <1>35, <1>36, <1>37,
       <1>38, <1>39, <1>40, <1>41, <1>42, <1>43, <1>44, <1>45
       DEF Next, Environment, KeyStep, OwnerStep, FailStep, WorkerStep, CloseStep, Terminated

\* While the take of an accepted stop is active, some thread is ending it or
\* its failed commit is kept for an explicit retry.
THEOREM AcceptedStopCorrect == Spec => []AcceptedStopOwned
  <1>1. Init => BegunHeld /\ LetGoHeld /\ AcceptedHeld
    BY ConstantsAssumption
       DEF Init, BegunHeld, LetGoHeld, AcceptedHeld, NoReceipt, Holding, OwnerSteps, FailSteps,
           Owners, Failers, Agents, Monitors, Threads
  <1>2. TypeOK /\ Ownership /\ Control /\ BegunHeld /\ [Next]_vars => BegunHeld'
    BY BegunStep
  <1>3. TypeOK /\ Ownership /\ Control /\ LetGoHeld /\ [Next]_vars => LetGoHeld'
    BY LetGoStep
  <1>4. TypeOK /\ Ownership /\ Control /\ ReceiptsHeld /\ BegunHeld /\ LetGoHeld /\ GateHeld
          /\ AcceptedHeld /\ [Next]_vars => AcceptedHeld'
    BY AcceptedStep
  <1>5. AcceptedHeld => AcceptedStopOwned
    BY DEF AcceptedHeld, AcceptedStopOwned
  <1> QED BY <1>1, <1>2, <1>3, <1>4, <1>5, TypeCorrect, OwnershipCorrect, ControlCorrect,
             ReceiptsCorrect, GateCorrect, PTL DEF Spec
=============================================================================
