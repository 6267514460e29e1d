------------------------- MODULE CaptureCoordinator -------------------------
(***************************************************************************)
(* Ownership of the active take in recording/coordinator.py.               *)
(*                                                                         *)
(* One take records at a time.  It can be ended by an HTTP stop (accepted  *)
(* durably, then finished by a background worker), by the timer and the    *)
(* storage monitors (synchronous stops), by a source failure (a deferred   *)
(* recovery thread) and by shutdown.  The module models every lock block   *)
(* of these paths as one action: what runs between two acquisitions of     *)
(* the capture lock (source joins, sealing, SQLite writes) is a step of    *)
(* its own, so that every other thread may run in between.                 *)
(*                                                                         *)
(* A SQLite write either commits or raises (the argument "ok"); its own    *)
(* ordering is the subject of StateWriter.tla, the files of a take are the *)
(* subject of SessionPublication.tla.                                      *)
(***************************************************************************)
EXTENDS Naturals, FiniteSets

CONSTANTS
    Takes,       \* session plans that start_capture may create
    Keys,        \* scopes (principal, "stop", idempotency key) of HTTP stops
    SwapKeys,    \* the scopes whose body says reason = "safe_swap"
    MaxHandles,  \* bound on concurrently open representations
    None         \* Python's None

Monitors == {"timer", "storage"}          \* the two daemon monitor threads
Threads == {"worker", "failure", "close"} \* stop worker, recovery thread, close()
Agents == Keys \cup Monitors \cup Threads

\* Not a name of a take, a key or a thread: a receipt with no active recording.
Idle == "idle"

ASSUME ConstantsAssumption ==
    /\ SwapKeys \subseteq Keys
    /\ MaxHandles \in Nat
    /\ Keys \cap (Monitors \cup Threads \cup {Idle}) = {}
    /\ None \notin Takes \cup Agents \cup {Idle}
    /\ Idle \notin Takes

VARIABLES
    active,        \* _active / _active_plan
    rec,           \* DeviceSessionRecorder._state of every take
    retained,      \* keys of _retained: takes reported as unsuccessful
    stopInflight,  \* _stop_inflight: the scope that finalizes
    stopAccept,    \* _stop_acceptance_inflight
    stopCommit,    \* _pending_stop_state_commit
    wkey,          \* _async_stop_worker and _async_stop_reason, by its scope
    failInflight,  \* _failure_inflight
    failProj,      \* _failure_projection is not None
    failPending,   \* _failure_pending_commit
    pendSrc,       \* _pending_source_failure is not None
    lease,         \* _network_operation_lease is held
    closing,       \* _closing
    pendingSwap,   \* _pending_safe_swap, by its session
    swapFail,      \* _pending_safe_swap_failure is not None
    released,      \* _released
    handles,       \* _open_representations
    verifying,     \* _catalog_verification_session is not None
    commands,      \* _commands: the active take named by a stop receipt
    persisted,     \* _persisted_commands
    saved,         \* old_commands of the acceptance in flight
    pc,            \* where every thread is, between two lock blocks
    take           \* the plan an owner thread captured in its closure

takeVars == <<active, rec, retained>>
stopVars == <<stopInflight, stopAccept, stopCommit, wkey>>
failVars == <<failInflight, failProj, failPending, pendSrc>>
swapVars == <<pendingSwap, swapFail, released>>
readVars == <<handles, verifying>>
cmdVars == <<commands, persisted, saved>>
flagVars == <<lease, closing>>
pcVars == <<pc, take>>
vars == <<takeVars, stopVars, failVars, swapVars, readVars, cmdVars, flagVars, pcVars>>

NoReceipt == [k \in Keys |-> None]
MaybeTake == Takes \cup {None}
Receipt == Takes \cup {None, Idle}

OwnerSteps == {"src", "rec", "seal", "cat", "clear", "commit", "rpersist", "rcommit",
               "intent", "check", "receipt", "released", "finally"}
FailSteps == {"fail", "retain", "fpersist", "fcommit", "ffin"}
CloseSteps == {"abort", "cretain", "cfin"}
PCs == OwnerSteps \cup FailSteps \cup CloseSteps \cup
       {"idle", "replay", "accept", "acceptNP", "recover", "release",
        "gated", "except", "done", "hfail", "hfin", "loop", "wait", "closing", "closed"}

\* The scalar state, under the capture lock.
TypeFlags ==
    /\ active \in MaybeTake /\ retained \subseteq MaybeTake
    /\ stopInflight \in Keys \cup Monitors \cup {"close", None}
    /\ stopAccept \in Keys \cup {None}
    /\ stopCommit \in Keys \cup Monitors \cup {None}
    /\ wkey \in Keys \cup {None}
    /\ failInflight \in MaybeTake /\ failPending \in MaybeTake /\ pendingSwap \in MaybeTake
    /\ {failProj, pendSrc, lease, closing, swapFail, released, verifying} \subseteq BOOLEAN
    /\ handles \in 0 .. MaxHandles

\* Recorders and receipts.
TypeRecords ==
    /\ rec \in [Takes -> {"new", "recording", "finalizing", "sealed", "failed"}]
    /\ commands \in [Keys -> Receipt]
    /\ persisted \in [Keys -> Receipt]
    /\ saved \in [Keys -> Receipt]

\* Threads.
TypePc == pc \in [Agents -> PCs]
TypeTake == take \in [Agents -> MaybeTake]

TypeOK == TypeFlags /\ TypeRecords /\ TypePc /\ TypeTake

Init ==
    /\ active = None
    /\ rec = [t \in Takes |-> "new"]
    /\ retained = {}
    /\ stopInflight = None /\ stopAccept = None /\ stopCommit = None /\ wkey = None
    /\ failInflight = None /\ failProj = FALSE /\ failPending = None /\ pendSrc = FALSE
    /\ lease = FALSE /\ closing = FALSE
    /\ pendingSwap = None /\ swapFail = FALSE /\ released = FALSE
    /\ handles = 0 /\ verifying = FALSE
    /\ commands = NoReceipt
    /\ persisted = NoReceipt
    /\ saved = NoReceipt
    /\ pc = [a \in Agents |-> "idle"]
    /\ take = [a \in Agents |-> None]

-----------------------------------------------------------------------------
(* Shared helpers.  A definition named X_... before X is a faulty variant   *)
(* of X: substituting it must break a property (PROJECT.json, "mutants").   *)

Wake_Forgotten(f) == f

\* _stop_condition.notify_all(): every waiter rechecks its loop condition.
Wake(f) == [a \in Agents |-> IF f[a] = "wait" THEN "loop" ELSE f[a]]
Goto(a, label) == pc' = [pc EXCEPT ![a] = label]
GotoNotify(a, label) == pc' = Wake([pc EXCEPT ![a] = label])

\* The scope under which an owner thread holds _stop_inflight.
Scope(o) == IF o = "worker" THEN wkey ELSE o
IsSwap(o) == o = "worker" /\ wkey \in SwapKeys

Finalizing_IgnoresWorker == stopInflight # None \/ failInflight # None \/ stopAccept # None

\* What the wait loops of stop_capture and close() wait for.
Finalizing == \/ stopInflight # None \/ failInflight # None
              \/ wkey # None \/ stopAccept # None

\* _persist_local_state: the receipts and the stop state commit together.
Persist(ok) ==
    IF ok
    THEN /\ persisted' = commands
         /\ stopCommit' = IF active = None THEN None ELSE stopCommit
    ELSE UNCHANGED <<persisted, stopCommit>>

Claim_Skipped(o, next) == Goto(o, next) /\ UNCHANGED failVars

\* _retain_active_failure(from_stop=True) reached by owner o: claim the take
\* for the failure path, or go on to "next" when there is nothing to claim.
Claim(o, next) ==
    IF active = take[o] /\ active # None /\ failInflight = None /\ failPending # active
    THEN /\ failInflight' = active
         /\ failProj' = TRUE
         /\ pendSrc' = FALSE
         /\ Goto(o, "fail")
         /\ UNCHANGED failPending
    ELSE Goto(o, next) /\ UNCHANGED failVars

-----------------------------------------------------------------------------
(* Starting a take (start_capture holds the capture lock throughout).       *)

\* _idempotent and _start_capture refuse while anything is being finalized.
StartAdmitted ==
    /\ stopInflight = None /\ stopCommit = None /\ stopAccept = None
    /\ failInflight = None /\ ~failProj /\ wkey = None /\ ~closing
    /\ active = None /\ ~lease /\ ~released

\* Recorder and sources run; the take is committed with its receipt.
StartTake(t) ==
    /\ active' = t
    /\ rec' = [rec EXCEPT ![t] = "recording"]
    /\ lease' = TRUE
    /\ UNCHANGED retained

StartFailed_Unreported(t) ==
    /\ rec' = [rec EXCEPT ![t] = "failed"]
    /\ UNCHANGED <<retained, active, lease>>

\* recorder.start() or sources.start() raised, after or before a state was
\* written.
StartFailed(t) ==
    /\ \/ rec' = [rec EXCEPT ![t] = "failed"] /\ retained' = retained \cup {t}
       \/ UNCHANGED <<rec, retained>>
    /\ UNCHANGED <<active, lease>>

\* ... or the write that should record that failure raised an error of the
\* database, which _mark_failed does not absorb: it leaves the handler before
\* the take is given up, so that the failed take stays active under the lease.
StartEscapes(t) ==
    /\ rec' = [rec EXCEPT ![t] = "failed"]
    /\ active' = t
    /\ lease' = TRUE
    /\ UNCHANGED retained

Start(t) ==
    /\ StartAdmitted
    /\ rec[t] = "new"
    /\ StartTake(t) \/ StartFailed(t) \/ StartEscapes(t)
    /\ pendSrc' = FALSE /\ pendingSwap' = None /\ swapFail' = FALSE
    /\ persisted' \in {persisted, commands}
    /\ UNCHANGED <<stopVars, failInflight, failProj, failPending, released, readVars,
                   commands, saved, closing, pcVars>>

\* _recording_state_changed: a checkpoint of the recorder writes the state.
Checkpoint ==
    /\ active # None
    /\ rec[active] \in {"recording", "finalizing"}
    /\ persisted # commands
    /\ persisted' = commands
    /\ UNCHANGED <<takeVars, stopVars, failVars, swapVars, readVars, commands, saved,
                   flagVars, pcVars>>

\* _source_failure, called back on a source thread with defer_recovery: it
\* leaves the failure to a stop owner, or claims it for a recovery thread.
SourceFailure ==
    /\ active # None
    /\ failInflight = None /\ failPending # active
    /\ IF stopInflight # None
       THEN pendSrc' = TRUE /\ UNCHANGED <<failInflight, failProj, pcVars>>
       ELSE /\ failInflight' = active /\ failProj' = TRUE /\ pendSrc' = FALSE
            /\ Goto("failure", "fail")
            /\ take' = [take EXCEPT !["failure"] = active]
    /\ UNCHANGED <<takeVars, stopVars, failPending, swapVars, readVars, cmdVars, flagVars>>

-----------------------------------------------------------------------------
(* HTTP stops: request_stop_capture.                                        *)

\* _retry_completed_stop_receipt: a finished stop whose state commit failed
\* is committed first, under the ownership of this request.
RetryCompletedStop(k) ==
    /\ pc[k] = "idle" /\ k \notin SwapKeys
    /\ stopCommit # None /\ active = None /\ ~closing /\ ~Finalizing
    /\ stopInflight' = k
    /\ Goto(k, "replay")
    /\ UNCHANGED <<takeVars, stopAccept, stopCommit, wkey, failVars, swapVars, readVars,
                   cmdVars, flagVars, take>>

\* _commit_stop_replay
CommitStopReplay(k, ok) ==
    /\ pc[k] = "replay"
    /\ Persist(ok)
    /\ stopInflight' = IF stopInflight = k THEN None ELSE stopInflight
    /\ GotoNotify(k, "idle")
    /\ UNCHANGED <<takeVars, stopAccept, wkey, failVars, swapVars, readVars, commands,
                   saved, flagVars, take>>

PrepareAdmitted_Overlapping(k) == pc[k] = "idle" /\ ~closing

\* Guards common to every path of _prepare_stop_request that takes effect.
PrepareAdmitted(k) == pc[k] = "idle" /\ ~closing /\ stopAccept = None

\* A receipt is cached and the acceptance opened.
Accepting(k, receipt) ==
    /\ saved' = commands
    /\ commands' = [commands EXCEPT ![k] = receipt]
    /\ stopAccept' = k
    /\ UNCHANGED persisted

\* The gated worker thread of a stop or of a handoff is started.
SpawnWorker(k, t, label) ==
    /\ stopInflight' = k
    /\ wkey' = k
    /\ pc' = [pc EXCEPT ![k] = label, !["worker"] = "gated"]
    /\ take' = [take EXCEPT !["worker"] = t]

\* The durable receipt of k accepted the stop of exactly this failed take,
\* whose final commit did not succeed: re-arm only that unfinished work.
Rearmed(k) ==
    /\ commands[k] # None /\ persisted[k] = commands[k]
    /\ active # None /\ failPending = active /\ commands[k] = active
    /\ wkey = None /\ stopInflight = None /\ failInflight = None

\* _prepare_stop_request, active take: a worker will finish it.
RequestStop(k) ==
    /\ PrepareAdmitted(k)
    /\ active # None
    /\ stopInflight = None /\ failInflight = None /\ wkey = None
    /\ k \in SwapKeys => handles = 0
    /\ commands[k] = None \/ Rearmed(k)
    /\ Accepting(k, active)
    /\ SpawnWorker(k, active, IF commands[k] = None THEN "accept" ELSE "acceptNP")
    /\ UNCHANGED <<takeVars, stopCommit, failVars, swapVars, readVars, flagVars>>

\* _prepare_stop_receipt_commit: nothing to finalize (NO_CONTENT), or a
\* worker with the same purpose is already doing it (ACCEPTED).
RequestReceipt(k) ==
    /\ PrepareAdmitted(k)
    /\ commands[k] = None
    /\ IF wkey # None
       THEN /\ (k \in SwapKeys) = (wkey \in SwapKeys)
            /\ ~(stopInflight # None /\ active = None)
       ELSE /\ stopInflight = None /\ failInflight = None /\ active = None
            /\ ~(k \in SwapKeys /\ pendingSwap # None)
    /\ Accepting(k, IF active = None THEN Idle ELSE active)
    /\ Goto(k, "accept")
    /\ UNCHANGED <<takeVars, stopInflight, stopCommit, wkey, failVars, swapVars, readVars,
                   flagVars, take>>

\* _request_pending_safe_swap: a new receipt, or the durable one that asked
\* for this handoff, starts a worker that only publishes the release.
RequestHandoff(k) ==
    /\ PrepareAdmitted(k)
    /\ k \in SwapKeys /\ pendingSwap # None /\ wkey = None
    /\ \/ commands[k] = None /\ stopInflight = None /\ failInflight = None /\ active = None
       \/ commands[k] = pendingSwap /\ persisted[k] = commands[k]
    /\ ~lease
    /\ lease' = TRUE
    /\ Accepting(k, IF commands[k] = None THEN Idle ELSE commands[k])
    /\ SpawnWorker(k, None, IF commands[k] # None /\ ~swapFail THEN "acceptNP" ELSE "accept")
    /\ UNCHANGED <<takeVars, stopCommit, failVars, swapVars, readVars, closing>>

\* _finish_stop_acceptance, receipt durable: the worker's gate opens.
AcceptOk(k) ==
    /\ pc[k] \in {"accept", "acceptNP"}
    /\ IF pc[k] = "accept" THEN Persist(TRUE) ELSE UNCHANGED <<persisted, stopCommit>>
    /\ stopAccept' = None
    /\ saved' = NoReceipt
    /\ swapFail' = IF wkey = k /\ take["worker"] = None THEN FALSE ELSE swapFail
    /\ LET answered == [pc EXCEPT ![k] = "idle"] IN
       pc' = Wake(IF wkey = k /\ pc["worker"] = "gated"
                  THEN [answered EXCEPT !["worker"] = IF take["worker"] = None
                                                      THEN "check" ELSE "src"]
                  ELSE answered)
    /\ UNCHANGED <<takeVars, stopInflight, wkey, failVars, pendingSwap, released, readVars,
                   commands, flagVars, take>>

\* _finish_stop_acceptance, the write raised: rollback of the cached receipt
\* and, when this request started one, of the worker and the handoff lease.
AcceptRollback(k) ==
    /\ pc[k] = "accept"
    /\ commands' = saved
    /\ \/ /\ wkey = k /\ pc["worker"] = "gated"
          /\ wkey' = None /\ stopInflight' = None
          /\ pc' = [pc EXCEPT ![k] = "recover", !["worker"] = "idle"]
          /\ take' = [take EXCEPT !["worker"] = None]
          /\ lease' = IF take["worker"] = None THEN FALSE ELSE lease
       \/ /\ ~(wkey = k /\ pc["worker"] = "gated")
          /\ Goto(k, "recover")
          /\ UNCHANGED <<wkey, stopInflight, lease, take>>
    /\ UNCHANGED <<takeVars, stopAccept, stopCommit, failVars, swapVars, readVars, persisted,
                   saved, closing>>

\* A source failure deferred to the worker that never ran is claimed now.
AcceptRecover(k) ==
    /\ pc[k] = "recover"
    /\ IF pendSrc /\ active # None /\ failInflight = None /\ failPending # active
          /\ stopInflight = None
       THEN /\ failInflight' = active /\ failProj' = TRUE /\ pendSrc' = FALSE
            /\ pc' = [pc EXCEPT ![k] = "release", !["failure"] = "fail"]
            /\ take' = [take EXCEPT !["failure"] = active]
       ELSE Goto(k, "release") /\ UNCHANGED <<failInflight, failProj, pendSrc, take>>
    /\ UNCHANGED <<takeVars, stopVars, failPending, swapVars, readVars, cmdVars, flagVars>>

AcceptRelease(k) ==
    /\ pc[k] = "release"
    /\ stopAccept' = None
    /\ saved' = NoReceipt
    /\ GotoNotify(k, "idle")
    /\ UNCHANGED <<takeVars, stopInflight, stopCommit, wkey, failVars, swapVars, readVars,
                   commands, persisted, flagVars, take>>

-----------------------------------------------------------------------------
(* The stop owner: _finish_stop_capture, run by the worker or a monitor.    *)

Owners == Monitors \cup {"worker"}

\* sources.stop(), then the check for a failure that only lacks its commit.
StopSources(o) ==
    /\ pc[o] = "src"
    /\ \/ Goto(o, IF failPending = take[o] THEN "rpersist" ELSE "rec") /\ UNCHANGED failVars
       \/ Claim(o, "finally")
    /\ UNCHANGED <<takeVars, stopVars, swapVars, readVars, cmdVars, flagVars, take>>

\* The deferred source failure is raised before, or recorder.stop() begins.
StopRecorder(o) ==
    /\ pc[o] = "rec"
    /\ IF pendSrc \/ rec[take[o]] = "failed"
       THEN Claim(o, "finally") /\ UNCHANGED rec
       ELSE /\ UNCHANGED failVars
            /\ IF rec[take[o]] = "sealed"
               THEN Goto(o, "cat") /\ UNCHANGED rec
               ELSE Goto(o, "seal") /\ rec' = [rec EXCEPT ![take[o]] = "finalizing"]
    /\ UNCHANGED <<active, retained, stopVars, swapVars, readVars, cmdVars, flagVars, take>>

\* recorder.stop() returns a sealed take, fails before publication, or fails
\* in the independent check that follows publication.  A SQLite error of the
\* checkpoint that records the failure escapes unwrapped, and claims nothing.
Seal(o) ==
    /\ pc[o] = "seal"
    /\ \/ rec' = [rec EXCEPT ![take[o]] = "sealed"] /\ Goto(o, "cat") /\ UNCHANGED failVars
       \/ rec' = [rec EXCEPT ![take[o]] = "failed"] /\ Claim(o, "finally")
       \/ /\ rec' = [rec EXCEPT ![take[o]] = "failed"]
          /\ Goto(o, "finally") /\ UNCHANGED failVars
       \/ rec' = [rec EXCEPT ![take[o]] = "sealed"] /\ Claim(o, "finally")
    /\ UNCHANGED <<active, retained, stopVars, swapVars, readVars, cmdVars, flagVars, take>>

\* First check after sealing, then the catalog entry, which may raise: the
\* recorder's error when the volume is no longer admitted, or any other.
Catalog(o) ==
    /\ pc[o] = "cat"
    /\ \/ Claim(o, "finally")
       \/ /\ ~pendSrc /\ UNCHANGED failVars
          /\ \/ active = take[o] /\ Goto(o, "clear")
             \/ Goto(o, "finally")
    /\ UNCHANGED <<takeVars, stopVars, swapVars, readVars, cmdVars, flagVars, take>>

EndRefused_IgnoresSource(o) == active # take[o]

\* The two raises of the last check.
EndRefused(o) == pendSrc \/ active # take[o]

\* Second check and the end of the take, in one lock block.
ClearActive(o) ==
    /\ pc[o] = "clear"
    /\ IF EndRefused(o)
       THEN /\ Claim(o, "finally")
            /\ UNCHANGED <<active, pendingSwap, stopCommit>>
       ELSE /\ active' = None
            /\ IF IsSwap(o)
               THEN pendingSwap' = take[o] /\ Goto(o, "intent") /\ UNCHANGED stopCommit
               ELSE stopCommit' = Scope(o) /\ Goto(o, "commit") /\ UNCHANGED pendingSwap
            /\ UNCHANGED failVars
    /\ UNCHANGED <<rec, retained, stopInflight, stopAccept, wkey, swapFail, released, readVars,
                   cmdVars, flagVars, take>>

\* The idle state and the receipt become durable, then the lease goes back.
CommitStop(o, ok) ==
    /\ pc[o] = "commit"
    /\ Persist(ok)
    /\ lease' = IF ok THEN FALSE ELSE lease
    /\ Goto(o, "finally")
    /\ UNCHANGED <<takeVars, stopInflight, stopAccept, wkey, failVars, swapVars, readVars,
                   commands, saved, closing, take>>

LeaseAfterStop_Dropped == FALSE
LeaseAfterStop_Kept == lease

\* The lease goes back unless the take is still active.
LeaseAfterStop == IF active = None THEN FALSE ELSE lease

\* finally of _finish_stop_capture
StopFinally(o) ==
    /\ pc[o] = "finally"
    /\ IF stopInflight = Scope(o)
       THEN stopInflight' = None /\ pendSrc' = FALSE
       ELSE UNCHANGED <<stopInflight, pendSrc>>
    /\ lease' = LeaseAfterStop
    /\ GotoNotify(o, IF o = "worker" THEN "except" ELSE "idle")
    /\ take' = IF o = "worker" THEN take ELSE [take EXCEPT ![o] = None]
    /\ UNCHANGED <<takeVars, stopAccept, stopCommit, wkey, failInflight, failProj, failPending,
                   swapVars, readVars, cmdVars, closing>>

-----------------------------------------------------------------------------
(* Safe swap: _publish_safe_swap, for a finishing stop or a handoff worker. *)

Handoff == take["worker"] = None
SwapRaised == IF Handoff THEN "hfail" ELSE "finally"

\* The handoff intent becomes durable before the release is attempted.
PersistIntent(ok) ==
    /\ pc["worker"] = "intent"
    /\ Persist(ok)
    /\ Goto("worker", IF ok THEN "check" ELSE "finally")
    /\ UNCHANGED <<takeVars, stopInflight, stopAccept, wkey, failVars, swapVars, readVars,
                   commands, saved, flagVars, take>>

\* No handle may be open, and the saved manifest must be the sealed one.
CheckSwap ==
    /\ pc["worker"] = "check"
    /\ \/ /\ pendingSwap # None /\ handles = 0 /\ ~verifying /\ ~failProj /\ active = None
          /\ Goto("worker", "receipt")
       \/ Goto("worker", SwapRaised)
    /\ UNCHANGED <<takeVars, stopVars, failVars, swapVars, readVars, cmdVars, flagVars, take>>

PersistReceipt(ok) ==
    /\ pc["worker"] = "receipt"
    /\ Persist(ok)
    /\ Goto("worker", IF ok THEN "released" ELSE SwapRaised)
    /\ UNCHANGED <<takeVars, stopInflight, stopAccept, wkey, failVars, swapVars, readVars,
                   commands, saved, flagVars, take>>

PublishSwap ==
    /\ pc["worker"] = "released"
    /\ released' = TRUE /\ pendingSwap' = None /\ swapFail' = FALSE
    /\ Goto("worker", IF Handoff THEN "hfin" ELSE "finally")
    /\ UNCHANGED <<takeVars, stopVars, failVars, readVars, cmdVars, flagVars, take>>

\* _record_safe_swap_failure of a handoff worker; a failed write is tolerated.
HandoffFailed(ok) ==
    /\ pc["worker"] = "hfail"
    /\ swapFail' = IF pendingSwap # None THEN TRUE ELSE swapFail
    /\ Persist(ok)
    /\ Goto("worker", "hfin")
    /\ UNCHANGED <<takeVars, stopInflight, stopAccept, wkey, failVars, pendingSwap, released,
                   readVars, commands, saved, flagVars, take>>

HandoffFinally ==
    /\ pc["worker"] = "hfin"
    /\ wkey' = None /\ stopInflight' = None /\ lease' = FALSE
    /\ GotoNotify("worker", "idle")
    /\ UNCHANGED <<takeVars, stopAccept, stopCommit, failVars, swapVars, readVars, cmdVars,
                   closing, take>>

-----------------------------------------------------------------------------
(* End of the stop worker: except and finally of its thread.                *)

\* An unexpected error must end as a retained failure or a visible handoff
\* failure, never disappear with the thread.
WorkerExcept(ok) ==
    /\ pc["worker"] = "except"
    /\ IF active = take["worker"]
       THEN Claim("worker", "done") /\ UNCHANGED <<swapFail, persisted, stopCommit>>
       ELSE /\ Goto("worker", "done")
            /\ UNCHANGED failVars
            /\ IF wkey \in SwapKeys /\ pendingSwap = take["worker"]
               THEN swapFail' = TRUE /\ Persist(ok)
               ELSE UNCHANGED <<swapFail, persisted, stopCommit>>
    /\ UNCHANGED <<takeVars, stopInflight, stopAccept, wkey, pendingSwap, released, readVars,
                   commands, saved, flagVars, take>>

WorkerDone_StillRegistered ==
    /\ pc["worker"] = "done"
    /\ GotoNotify("worker", "idle")
    /\ take' = [take EXCEPT !["worker"] = None]
    /\ UNCHANGED <<takeVars, stopVars, failVars, swapVars, readVars, cmdVars, flagVars>>

WorkerDone ==
    /\ pc["worker"] = "done"
    /\ wkey' = None
    /\ GotoNotify("worker", "idle")
    /\ take' = [take EXCEPT !["worker"] = None]
    /\ UNCHANGED <<takeVars, stopInflight, stopAccept, stopCommit, failVars, swapVars, readVars,
                   cmdVars, flagVars>>

-----------------------------------------------------------------------------
(* The failure path: _finish_active_failure, run by the owner that claimed  *)
(* the take or by the deferred recovery thread, and its commit.             *)

Failers == Owners \cup {"failure"}

\* recorder.fail() and the recovery of completed segments.
FailRecorder(a) ==
    /\ pc[a] = "fail"
    /\ rec' = [rec EXCEPT ![take[a]] = IF @ = "sealed" THEN "sealed" ELSE "failed"]
    /\ Goto(a, "retain")
    /\ UNCHANGED <<active, retained, stopVars, failVars, swapVars, readVars, cmdVars, flagVars,
                   take>>

RetainFailure(a) ==
    /\ pc[a] = "retain"
    /\ retained' = retained \cup {take[a]}
    /\ failPending' = take[a]
    /\ Goto(a, "fpersist")
    /\ UNCHANGED <<active, rec, stopVars, failInflight, failProj, pendSrc, swapVars, readVars,
                   cmdVars, flagVars, take>>

\* _commit_active_failure, the write; a stop owner may be retrying it.
PersistFailure(a, ok) ==
    /\ pc[a] \in {"fpersist", "rpersist"}
    /\ Persist(ok)
    /\ Goto(a, IF pc[a] = "fpersist" THEN IF ok THEN "fcommit" ELSE "ffin"
                                     ELSE IF ok THEN "rcommit" ELSE "finally")
    /\ UNCHANGED <<takeVars, stopInflight, stopAccept, wkey, failVars, swapVars, readVars,
                   commands, saved, flagVars, take>>

\* _commit_active_failure, the lock block after the write (and its assert).
CommitFailure(a) ==
    /\ pc[a] \in {"fcommit", "rcommit"}
    /\ failPending' = None
    /\ failProj' = IF failInflight = None THEN FALSE ELSE failProj
    /\ active' = None
    /\ lease' = IF stopInflight = None THEN FALSE ELSE lease
    /\ Goto(a, IF pc[a] = "fcommit" THEN "ffin" ELSE "finally")
    /\ IF pc[a] = "rcommit" /\ a \in Monitors      \* its own receipt follows
       THEN persisted' \in {persisted, commands}
       ELSE UNCHANGED persisted
    /\ UNCHANGED <<rec, retained, stopVars, failInflight, pendSrc, swapVars, readVars, commands,
                   saved, closing, take>>

\* finally of finish() in _retain_active_failure
FailFinally(a) ==
    /\ pc[a] = "ffin"
    /\ failInflight' = None
    /\ failProj' = IF failPending = take[a] THEN failProj ELSE FALSE
    /\ GotoNotify(a, IF a = "failure" THEN "idle"
                     ELSE IF stopInflight = Scope(a) THEN "finally" ELSE "done")
    /\ take' = IF a = "failure" THEN [take EXCEPT ![a] = None] ELSE take
    /\ UNCHANGED <<takeVars, stopVars, failPending, pendSrc, swapVars, readVars, cmdVars,
                   flagVars>>

-----------------------------------------------------------------------------
(* The monitors of daemon.py: synchronous stops bound to one session.       *)

\* enforce_capture_timer (deadline passed) and enforce_storage_reserve.
MonitorFire(m) ==
    /\ pc[m] = "idle"
    /\ active # None /\ ~closing /\ ~failProj
    /\ m = "storage" => stopInflight = None /\ failInflight = None
    /\ take' = [take EXCEPT ![m] = active]
    /\ Goto(m, "loop")
    /\ UNCHANGED <<takeVars, stopVars, failVars, swapVars, readVars, cmdVars, flagVars>>

MonitorLoop_AnyTake(m) ==
    /\ pc[m] = "loop"
    /\ IF Finalizing
       THEN Goto(m, "wait") /\ UNCHANGED stopInflight
       ELSE Goto(m, "src") /\ stopInflight' = m
    /\ UNCHANGED <<takeVars, stopAccept, stopCommit, wkey, failVars, swapVars, readVars,
                   cmdVars, flagVars, take>>

\* One round of the wait loop of stop_capture(expected_session_id).
MonitorLoop(m) ==
    /\ pc[m] = "loop"
    /\ IF active # take[m]
       THEN /\ Goto(m, "idle")
            /\ take' = [take EXCEPT ![m] = None]
            /\ UNCHANGED stopInflight
       ELSE /\ UNCHANGED take
            /\ IF Finalizing
               THEN Goto(m, "wait") /\ UNCHANGED stopInflight
               ELSE Goto(m, "src") /\ stopInflight' = m
    /\ UNCHANGED <<takeVars, stopAccept, stopCommit, wkey, failVars, swapVars, readVars,
                   cmdVars, flagVars>>

-----------------------------------------------------------------------------
(* Shutdown: _close_capture.                                                *)

CloseBegin ==
    /\ pc["close"] = "idle"
    /\ closing' = TRUE
    /\ Goto("close", "closing")
    /\ UNCHANGED <<takeVars, stopVars, failVars, swapVars, readVars, cmdVars, lease, take>>

\* close_sources() has returned; the wait loop follows.
CloseSources ==
    /\ pc["close"] = "closing"
    /\ Goto("close", "loop")
    /\ UNCHANGED <<takeVars, stopVars, failVars, swapVars, readVars, cmdVars, flagVars, take>>

CloseLoop ==
    /\ pc["close"] = "loop"
    /\ IF Finalizing \/ verifying
       THEN Goto("close", "wait") /\ UNCHANGED <<stopInflight, take>>
       ELSE /\ Goto("close", "abort")
            /\ take' = [take EXCEPT !["close"] = active]
            /\ stopInflight' = IF active # None THEN "close" ELSE stopInflight
    /\ UNCHANGED <<takeVars, stopAccept, stopCommit, wkey, failVars, swapVars, readVars,
                   cmdVars, flagVars>>

\* active.abort(), without the lock; a SQLite error of its last checkpoint
\* skips the bookkeeping and leaves only the finally block.
CloseAbort ==
    /\ pc["close"] = "abort"
    /\ rec' = IF take["close"] = None THEN rec
              ELSE [rec EXCEPT ![take["close"]] = IF @ = "sealed" THEN "sealed" ELSE "failed"]
    /\ \/ Goto("close", "cretain")
       \/ take["close"] # None /\ Goto("close", "cfin")
    /\ UNCHANGED <<active, retained, stopVars, failVars, swapVars, readVars, cmdVars, flagVars,
                   take>>

CloseRetain(ok) ==
    /\ pc["close"] = "cretain"
    /\ IF take["close"] # None
       THEN /\ retained' = IF active # None THEN retained \cup {active} ELSE retained
            /\ active' = None
            /\ failPending' = None /\ failProj' = FALSE
       ELSE UNCHANGED <<retained, active, failPending, failProj>>
    /\ IF ok THEN persisted' = commands /\ stopCommit' = (IF active' = None THEN None ELSE stopCommit)
             ELSE UNCHANGED <<persisted, stopCommit>>
    /\ Goto("close", "cfin")
    /\ UNCHANGED <<rec, stopInflight, stopAccept, wkey, failInflight, pendSrc, swapVars,
                   readVars, commands, saved, flagVars, take>>

CloseFinally ==
    /\ pc["close"] = "cfin"
    /\ stopInflight' = None
    /\ lease' = FALSE
    /\ GotoNotify("close", "closed")
    /\ take' = [take EXCEPT !["close"] = None]
    /\ UNCHANGED <<takeVars, stopAccept, stopCommit, wkey, failVars, swapVars, readVars, cmdVars,
                   closing>>

-----------------------------------------------------------------------------
(* Readers of the volume: downloads and catalog verification.               *)

VolumeReadable_UntilReleased == ~released
VolumeReadable == ~released /\ pendingSwap = None /\ wkey \notin SwapKeys

\* _acquire_representation
OpenRepresentation ==
    /\ VolumeReadable
    /\ handles < MaxHandles
    /\ handles' = handles + 1
    /\ UNCHANGED <<takeVars, stopVars, failVars, swapVars, verifying, cmdVars, flagVars, pcVars>>

CloseRepresentation ==
    /\ handles > 0
    /\ handles' = handles - 1
    /\ UNCHANGED <<takeVars, stopVars, failVars, swapVars, verifying, cmdVars, flagVars, pcVars>>

\* _verify_catalog_session registers itself ...
VerifyBegin ==
    /\ ~verifying
    /\ active = None /\ ~closing /\ VolumeReadable
    /\ verifying' = TRUE
    /\ UNCHANGED <<takeVars, stopVars, failVars, swapVars, handles, cmdVars, flagVars, pcVars>>

\* ... and its finally block wakes whoever waits for the volume.
VerifyEnd ==
    /\ verifying
    /\ verifying' = FALSE
    /\ pc' = Wake(pc)
    /\ UNCHANGED <<takeVars, stopVars, failVars, swapVars, handles, cmdVars, flagVars, take>>

-----------------------------------------------------------------------------
KeyStep(k) ==
    \/ \E ok \in BOOLEAN : CommitStopReplay(k, ok)
    \/ AcceptOk(k) \/ AcceptRollback(k) \/ AcceptRecover(k) \/ AcceptRelease(k)

OwnerStep(o) ==
    \/ StopSources(o) \/ StopRecorder(o) \/ Seal(o) \/ Catalog(o) \/ ClearActive(o)
    \/ \E ok \in BOOLEAN : CommitStop(o, ok)
    \/ StopFinally(o)

FailStep(a) ==
    \/ FailRecorder(a) \/ RetainFailure(a) \/ CommitFailure(a) \/ FailFinally(a)
    \/ \E ok \in BOOLEAN : PersistFailure(a, ok)

WorkerStep ==
    \/ \E ok \in BOOLEAN : \/ PersistIntent(ok) \/ PersistReceipt(ok)
                           \/ HandoffFailed(ok) \/ WorkerExcept(ok)
    \/ CheckSwap \/ PublishSwap \/ HandoffFinally \/ WorkerDone

CloseStep ==
    \/ CloseSources \/ CloseLoop \/ CloseAbort \/ CloseFinally
    \/ \E ok \in BOOLEAN : CloseRetain(ok)

\* What clients, sources and the clock do; nothing obliges them to.
Environment ==
    \/ \E t \in Takes : Start(t)
    \/ \E k \in Keys : \/ RetryCompletedStop(k) \/ RequestStop(k)
                       \/ RequestReceipt(k) \/ RequestHandoff(k)
    \/ \E m \in Monitors : MonitorFire(m)
    \/ SourceFailure \/ Checkpoint \/ CloseBegin
    \/ OpenRepresentation \/ CloseRepresentation \/ VerifyBegin

\* The process exits after close(); nothing more happens.
Terminated == pc["close"] = "closed" /\ UNCHANGED vars

Next ==
    \/ Environment
    \/ \E k \in Keys : KeyStep(k)
    \/ \E o \in Owners : OwnerStep(o)
    \/ \E a \in Failers : FailStep(a)
    \/ \E m \in Monitors : MonitorLoop(m)
    \/ WorkerStep \/ CloseStep \/ VerifyEnd
    \/ Terminated

Spec == Init /\ [][Next]_vars

-----------------------------------------------------------------------------
(* Safety.                                                                  *)

\* While a take is active the cross-process network/maintenance lease is
\* held, whatever interrupts the take (coordinator.py:3284, 4548, 5196);
\* only a close() that could not even record its abort gives it up early.
LeaseCoversTake == active # None => lease \/ pc["close"] = "closed"

\* The lease never outlives the work it protects: no exit of a stop, of a
\* failure or of a rolled-back handoff leaves it held with nobody in charge,
\* which would refuse every later recording and network change.
LeaseNotLeaked == lease => active # None \/ stopInflight # None \/ wkey # None

\* The lease is held for exactly as long as there is work that it protects.
LeaseFollowsTake == LeaseCoversTake /\ LeaseNotLeaked

\* The threads inside the part of a stop, failure or close that touches the
\* recorder and ends the take.
InCharge == {a \in Agents : pc[a] \in (OwnerSteps \cup FailSteps \cup CloseSteps)}

\* At most one thread finalizes at any time: stop worker, timer, storage
\* monitor, recovery thread and close() exclude one another.
SingleFinalizer == \A a, b \in InCharge : a = b

\* An owner ends the take it was started for: from its claim to the end of
\* the take, the active take is the one in its closure, even for a monitor
\* that waited while other stops finished and new takes began.
OwnerHoldsItsTake ==
    \A a \in Agents :
        pc[a] \in {"src", "rec", "seal", "cat", "clear", "rpersist", "abort", "cretain"}
                    \cup {"fail", "retain", "fpersist"} => active = take[a]

\* The assert of _commit_active_failure (coordinator.py:4543) cannot fail,
\* although the lock is released during the write that precedes it.
CommitAssertion ==
    \A a \in Agents : pc[a] \in {"fcommit", "rcommit"} =>
        active = take[a] /\ failPending = take[a]

\* A take that was begun and is not active any more has an outcome: it is
\* sealed, or reported among the unsuccessful ones.
TakeOutcome ==
    \A t \in Takes : rec[t] # "new" /\ active # t => rec[t] = "sealed" \/ t \in retained

\* A stop whose acceptance is complete is never orphaned: while the take it
\* accepted is still active, some thread is ending it or the failed commit
\* is kept for an explicit retry.
AcceptedStopOwned ==
    \A k \in Keys : active # None /\ commands[k] = active /\ stopAccept # k =>
        \/ stopInflight # None \/ wkey # None \/ failInflight # None
        \/ failPending = active

\* Every cached stop receipt outside its own acceptance is durable: a client
\* is never answered from a receipt that a restart would forget.
ReceiptsDurable ==
    \A k \in Keys : commands[k] # None /\ stopAccept # k => persisted[k] = commands[k]

\* Once the volume is released nothing reads it, and no handle can appear
\* between the handle check and the release.
ReleasedMeansQuiet ==
    released \/ pc["worker"] \in {"receipt", "released"} => handles = 0 /\ ~verifying

\* A handoff that nobody is working on any more shows why it stopped.
SwapFailureVisible == pendingSwap # None /\ wkey = None => swapFail

\* A safe swap either leaves a quiet volume or says why it did not happen.
SafeRelease == ReleasedMeansQuiet /\ SwapFailureVisible

\* No lost wakeup: whoever waits on _stop_condition waits for something that
\* is still in flight, so its end will notify the waiter.
NoLostWakeup ==
    /\ \A m \in Monitors : pc[m] = "wait" => Finalizing
    /\ pc["close"] = "wait" => Finalizing \/ verifying

-----------------------------------------------------------------------------
(* Ownership: the facts about who holds what that make the above inductive. *)

Holding == OwnerSteps \cup FailSteps

\* The acceptance in flight is the one of the request that is inside it.
AcceptanceHeld ==
    \A k \in Keys : pc[k] \in {"accept", "acceptNP", "recover", "release"} => stopAccept = k

\* The worker is registered exactly while it lives, and nobody else can hold
\* the finalization meanwhile.
WorkerHeld ==
    /\ wkey = None <=> pc["worker"] = "idle"
    /\ wkey # None => stopInflight \in {wkey, None}
    /\ pc["worker"] \in OwnerSteps \cup {"gated", "hfail", "hfin"} => stopInflight = wkey
    /\ pc["worker"] \in {"except", "done"} => stopInflight = None

\* A synchronous stop and the retry of a completed one hold it themselves.
MonitorHeld == \A m \in Monitors : pc[m] \in Holding => stopInflight = m /\ wkey = None
ReplayHeld == \A k \in Keys : pc[k] = "replay" => stopInflight = k /\ wkey = None

\* close() ends a take only when nothing else is being finalized.
CloseHeld ==
    /\ pc["close"] # "idle" => closing
    /\ pc["close"] \in CloseSteps =>
         /\ wkey = None /\ stopInflight \in {None, "close"}
         /\ take["close"] # None => stopInflight = "close"
    /\ pc["close"] \in CloseSteps /\ take["close"] = None => active = None

\* Which threads have a take in their closure.
ClosureHeld ==
    /\ \A m \in Monitors : pc[m] \in Holding \cup {"loop", "wait"} => take[m] # None
    /\ pc["worker"] \in {"src", "rec", "seal", "cat", "clear"} => take["worker"] # None

\* Once the take has ended no other begins before its owner is done.
NoTakeHeld ==
    /\ \A m \in Monitors : pc[m] = "commit" => active = None
    /\ pc["worker"] \in {"commit", "intent", "check", "receipt", "released", "hfail", "hfin"}
         => active = None
    /\ pc["worker"] # "idle" /\ take["worker"] = None => active = None
    /\ active # None => stopCommit = None /\ pendingSwap = None
    /\ pendingSwap # None => stopCommit = None
    /\ pendingSwap # None /\ wkey = None => stopInflight = None \/ closing

Ownership ==
    /\ AcceptanceHeld /\ WorkerHeld /\ MonitorHeld /\ ReplayHeld
    /\ CloseHeld /\ ClosureHeld /\ NoTakeHeld

\* The labels each kind of thread can be at.
LabelsHeld ==
    /\ \A k \in Keys : pc[k] \in {"idle", "replay", "accept", "acceptNP", "recover", "release"}
    /\ \A m \in Monitors : pc[m] \in Holding \cup {"idle", "loop", "wait"}
    /\ pc["worker"] \in Holding \cup {"idle", "gated", "hfail", "hfin", "except", "done"}
    /\ pc["failure"] \in FailSteps \cup {"idle"}
    /\ pc["close"] \in CloseSteps \cup {"idle", "closing", "loop", "wait", "closed"}

\* One thread at a time is inside the failure path, for the take it claimed;
\* the recovery thread only while no stop owner exists.
FailureHeld ==
    /\ \A a, b \in Failers : pc[a] \in FailSteps /\ pc[b] \in FailSteps => a = b
    /\ \A a \in Failers : pc[a] \in FailSteps => failInflight = take[a] /\ take[a] # None
    /\ \A o \in Owners : pc[o] \in OwnerSteps => failInflight = None
    /\ pc["worker"] = "gated" \/ pendingSwap # None => failInflight = None
    /\ pc["failure"] \in FailSteps => stopInflight = None
    /\ pc["close"] \in CloseSteps => failInflight = None
    /\ pc["worker"] = "gated" => take["worker"] \in {None, active}

\* What an owner established before it reached its label.
ProgressHeld ==
    /\ \A o \in Owners : pc[o] \in {"cat", "clear"} => rec[take[o]] = "sealed"
    /\ \A a \in Failers : pc[a] \in {"fpersist", "rpersist"} => failPending = take[a]
    /\ failPending # None => failPending \in retained
    /\ \A k \in Keys : pc[k] = "replay" => ~lease
    /\ lease => active # None \/ stopInflight # None

\* Everything the exclusion of finalizers rests on.
Control ==
    LabelsHeld /\ FailureHeld /\ OwnerHoldsItsTake /\ CommitAssertion /\ ProgressHeld

\* The receipts around the acceptance in flight.
ReceiptsHeld ==
    /\ \A k \in Keys : stopAccept \notin {None, k} => saved[k] = commands[k]
    /\ \A k \in Keys : pc[k] = "accept" =>
           saved[k] = None \/ (saved[k] = commands[k] /\ persisted[k] = commands[k])
    /\ \A k \in Keys : pc[k] = "acceptNP" => persisted[k] = commands[k]
    /\ \A k \in Keys : pc[k] \in {"recover", "release"} => commands[k] \in {None, persisted[k]}

\* A take named by a receipt had begun.
BegunHeld ==
    /\ active # None => rec[active] # "new"
    /\ \A k \in Keys : commands[k] \in Takes => rec[commands[k]] # "new"
    /\ \A k \in Keys : saved[k] \in Takes => rec[saved[k]] # "new"

\* Each thread that lets go of a take that is still active leaves the failed
\* commit behind.
LetGoHeld ==
    /\ pc["worker"] \in Holding \cup {"except", "done"} => active \in {None, take["worker"]}
    /\ pc["worker"] = "done" => active = None \/ failInflight # None \/ failPending = active
    /\ \A a \in Failers : pc[a] = "ffin" => active = None \/ failPending = active

\* Why an accepted stop keeps an owner, also when a later acceptance for the
\* same take is rolled back.
AcceptedHeld ==
    /\ \A k \in Keys : pc[k] = "accept" /\ active # None => saved[k] = None
    /\ \A k \in Keys : active # None /\ commands[k] = active /\ wkey = None =>
           failInflight # None \/ failPending = active
    /\ \A k \in Keys : active # None /\ commands[k] = active /\ pc["worker"] = "gated" =>
           wkey = k \/ failPending = active

\* The worker belongs to a cached receipt, and waits for its durability.
GateHeld ==
    /\ wkey # None => commands[wkey] # None
    /\ \A k \in Keys : pc[k] \in {"accept", "acceptNP"} /\ wkey = k => pc["worker"] = "gated"
    /\ pc["worker"] = "gated" => stopAccept = wkey /\ pc[wkey] \in {"accept", "acceptNP"}
    /\ pc["worker"] = "gated" /\ take["worker"] = None => wkey \in SwapKeys /\ pendingSwap # None
    /\ pc["worker"] \in (Holding \ {"check", "receipt", "released"}) \cup {"except"} =>
         take["worker"] # None

\* The handoff belongs to the worker that publishes it, or shows its failure.
SwapHeld ==
    /\ pc["worker"] \in {"intent", "check", "receipt", "released", "hfail", "hfin"}
         => wkey \in SwapKeys
    /\ pc["worker"] \in {"intent", "check", "receipt", "released"} => pendingSwap # None
    /\ pendingSwap # None /\ pc["worker"] \in {"idle", "gated", "done", "hfin"} => swapFail
    /\ pendingSwap # None /\ wkey # None =>
         wkey \in SwapKeys /\ take["worker"] \in {None, pendingSwap}

-----------------------------------------------------------------------------
(* What a step may never do.                                                *)

\* A source failure reported while a stop was finishing is not swallowed: a
\* take that ends with one pending ends among the unsuccessful takes.
SourceFailureKept ==
    [][pendSrc /\ active # None /\ active' = None => active \in retained']_vars

-----------------------------------------------------------------------------
(* Liveness.  Every thread that holds or waits for ownership keeps running. *)

Fairness ==
    /\ \A k \in Keys : WF_vars(KeyStep(k))
    /\ \A o \in Owners : WF_vars(OwnerStep(o))
    /\ \A a \in Failers : WF_vars(FailStep(a))
    /\ \A m \in Monitors : WF_vars(MonitorLoop(m))
    /\ WF_vars(WorkerStep) /\ WF_vars(CloseStep) /\ WF_vars(VerifyEnd)

FairSpec == Spec /\ Fairness

\* An accepted stop worker always terminates, whatever fails underneath.
WorkerTerminates == wkey # None ~> wkey = None

\* close() always completes: it cannot wait for ever for a stop, a recovery
\* or a verification.
CloseCompletes == closing ~> pc["close"] = "closed"
=============================================================================
