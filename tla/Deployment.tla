------------------------------ MODULE Deployment ------------------------------
(***************************************************************************)
(* ReleaseManager (deployment.py): install, rollback, uninstall and the    *)
(* recovery of an interrupted switch, one action per durable step.         *)
(*                                                                         *)
(* Every durable step of the code is a write, a rename or an unlink that   *)
(* is followed by fsync, so a crash loses the process and not the step.    *)
(* Two flocks serialise the processes: "operation" admits one deployer,    *)
(* "recovery" is held exclusively except while the deployer starts the     *)
(* services, when systemd's recover --service-start may read.              *)
(***************************************************************************)
EXTENDS Naturals, FiniteSets

CONSTANTS
    Release,          \* commits
    MaxEdits,         \* bound: edits of device.json by the administrator
    MaxOps,           \* bound: deployments
    MaxFaults,        \* bound: steps that raise
    MaxCrashes        \* bound: kills of the deployer and power losses

ASSUME DeployBounds == {MaxEdits, MaxOps, MaxFaults, MaxCrashes} \subseteq Nat

VARIABLES
    current, previous,   \* the symlinks of install_root
    dirs,                \* complete directories under releases/
    staging,             \* a .<commit>.staging-* directory is left behind
    tx,                  \* transaction.json
    snaps,               \* release -> its configuration snapshot
    config,              \* /etc/rp-ylx/device.json
    netstate,            \* where the network state of an older layout is
    running,             \* the release the services run from
    checked,             \* a start job whose rp-ylx-recover.service has succeeded
    enabled,             \* systemd starts the services at boot
    torn,                \* uninstall has begun to delete install_root
    op,                  \* the deployer that holds the operation lock
    outcome,             \* what the last deployer reported
    ops, faults, crashes

links == <<current, previous, dirs, staging>>
units == <<running, checked, enabled>>
files == <<snaps, config, netstate>>
counts == <<ops, faults, crashes>>
deployVars == <<links, units, files, tx, torn, op, outcome, counts>>

None == "none"
NoConfig == [v |-> 0, tls |-> FALSE, set |-> FALSE]
Configs == [v : 0..MaxEdits, tls : BOOLEAN, set : {TRUE}] \cup {NoConfig}
Links == Release \cup {None}
ASSUME ReleaseAssumption == None \notin Release      \* a commit is a hash
NoTx == [old |-> None, new |-> None, state |-> None]
Transactions == [old : Links, new : Release, state : {"prepared", "switched"}] \cup {NoTx}
Kinds == {"install", "rollback", "uninstall", "recover", "servicestart"}
Settling == {"switch", "mark", "previous", "prune", "unlink"}
Reverting == {"vcurrent", "vprevious", "vunlink"}
Guarded == {"assets", "network", "marker", "snapold", "transaction", "ensure", "snapnew", "reload",
            "snapcurrent", "rtransaction", "rconfig"}
Steps == {"recover", "rsnapshot", "rold", "recovered", "load", "stage", "prepare", "rollback",
          "quiesce", "undo", "restart", "activate", "starting", "failed", "aunlink", "aprevious",
          "restoretx", "restoreconfig", "restored", "deactivate", "delete", "forget", "remove"}
         \cup Settling \cup Reverting \cup Guarded
\* ret: the step after _settle or _revert_release_switch, and what a start of
\* the services is for
Rets == {None, "recovered", "rold", "activate", "restart", "restoretx", "healthy", "undone",
         "restored"}
Ops == [kind : Kinds, pc : Steps, ret : Rets, target : Links, old : Links, act : BOOLEAN,
        started : BOOLEAN, snapped : BOOLEAN, before : Configs]
NoOp == [kind |-> None]
Outcomes == [kind : Kinds, res : {"ok", "failed", "stuck"}, target : Links, old : Links,
             snapped : BOOLEAN, before : Configs] \cup {NoOp}

Idle == op = NoOp
At(step) == op # NoOp /\ op.pc = step
\* _maintenance_operation with _service_recovery_readers: exclusive but while starting
ExclusiveLock == op # NoOp /\ op.pc # "starting"

\* _write_active_device_config: the customer profile becomes plain HTTP
Http(c) == [c EXCEPT !.tls = FALSE]
Go(step) == op' = [op EXCEPT !.pc = step]
Call(step, ret) == op' = [op EXCEPT !.pc = step, !.ret = ret]

\* _release_metadata: a release directory is complete once it has been renamed
Complete(r) == r \in dirs
Changed == op.old # op.target
\* services are stopped first when they may be running another release
Quiesces == op.kind = "rollback" \/ (op.old # None /\ (op.act \/ Changed))

\* the operation returns or raises
End(res) ==
    /\ op' = NoOp
    /\ outcome' = [kind |-> op.kind, res |-> res, target |-> op.target, old |-> op.old,
                   snapped |-> op.snapped, before |-> op.before]

\* where an exception raised in this step is caught: the except clause of install and
\* rollback, or the caller, who finds the state settled ("failed") or not ("stuck")
Unwind ==
    IF op.pc \in Guarded \/ (op.pc \in Settling /\ op.ret = "activate")
    THEN Go("undo") /\ UNCHANGED outcome
    ELSE End(IF \/ op.pc \in {"load", "stage", "prepare", "rollback"}
                \/ op.pc = "quiesce" /\ op.ret # "restoretx"
             THEN "failed" ELSE "stuck")

DeployInit ==
    /\ current = None /\ previous = None /\ dirs = {} /\ staging = FALSE
    /\ tx = NoTx
    /\ snaps = [r \in Release |-> NoConfig]
    /\ config \in {NoConfig, [v |-> 0, tls |-> TRUE, set |-> TRUE]}
    /\ netstate \in {"legacy", "marked"}
    /\ running = None /\ checked = FALSE /\ enabled = FALSE /\ torn = FALSE
    /\ op = NoOp /\ outcome = NoOp
    /\ ops = 0 /\ faults = 0 /\ crashes = 0

-----------------------------------------------------------------------------
(* Entering an operation.  A second deployer gets deployment_busy at the   *)
(* operation lock and changes nothing.                                     *)
Begin(kind, target, act) ==
    /\ Idle
    /\ op' = [kind |-> kind, pc |-> IF kind = "uninstall" THEN "deactivate" ELSE "recover",
              ret |-> None, target |-> target, old |-> None, act |-> act,
              started |-> FALSE, snapped |-> FALSE, before |-> config]
    /\ outcome' = NoOp

DeployBegin(kind, target, act) ==
    /\ ops < MaxOps
    /\ ops' = ops + 1
    /\ Begin(kind, target, act)
    /\ UNCHANGED <<links, units, files, tx, torn, faults, crashes>>

\* rp-ylx-recover.service, a dependency of every start of the services: it recovers
\* when no deployer is active, and otherwise only reads, under the shared lock
ServiceStart ==
    /\ running = None /\ ~checked
    /\ \/ /\ Idle /\ enabled
          /\ Begin("servicestart", None, FALSE)
          /\ UNCHANGED checked
       \/ /\ At("starting")
          /\ tx = NoTx /\ current # None /\ Complete(current)
          /\ checked' = TRUE
          /\ UNCHANGED <<op, outcome>>
    /\ UNCHANGED <<links, files, tx, torn, running, enabled, counts>>

\* ExecStart of the units, some time after the check
ServiceRun ==
    /\ checked /\ current # None /\ Complete(current)      \* the executable exists
    /\ running' = current /\ checked' = FALSE
    /\ UNCHANGED <<links, files, tx, torn, enabled, op, outcome, counts>>

ServiceExit ==
    /\ running # None
    /\ running' = None
    /\ faults < MaxFaults /\ faults' = faults + 1
    /\ UNCHANGED <<links, files, tx, torn, checked, enabled, op, outcome, ops, crashes>>

EditConfig ==
    /\ Idle /\ config.set /\ config.v < MaxEdits
    /\ config' = [config EXCEPT !.v = @ + 1]
    /\ outcome' = NoOp
    /\ UNCHANGED <<links, units, snaps, netstate, tx, torn, op, counts>>

-----------------------------------------------------------------------------
(* _recover_locked *)
Recover ==
    /\ At("recover")
    /\ IF tx = NoTx THEN Go("recovered") /\ UNCHANGED outcome
       ELSE IF ~Complete(tx.new) THEN Unwind
       ELSE /\ UNCHANGED outcome
            /\ IF snaps[tx.new].set THEN Go("rsnapshot")
               ELSE op' = [op EXCEPT !.pc = "vcurrent", !.ret = "rold", !.old = tx.old]
    /\ UNCHANGED <<links, units, files, tx, torn, counts>>

RecoverSnapshot ==
    /\ At("rsnapshot")
    /\ config' = Http(snaps[tx.new])
    /\ Call("switch", "recovered")
    /\ UNCHANGED <<links, units, snaps, netstate, tx, torn, outcome, counts>>

RecoverOld ==
    /\ At("rold")
    /\ IF op.old = None THEN Go("recovered") /\ UNCHANGED <<config, outcome>>
       ELSE IF snaps[op.old].set
            THEN config' = Http(snaps[op.old]) /\ Go("recovered") /\ UNCHANGED outcome
            ELSE Unwind /\ UNCHANGED config
    /\ UNCHANGED <<links, units, snaps, netstate, tx, torn, counts>>

Recovered ==
    /\ At("recovered")
    /\ staging' = FALSE
    /\ IF op.kind \in {"install", "rollback"}
       THEN /\ op' = [op EXCEPT !.pc = IF op.kind = "install" THEN "load" ELSE "rollback",
                                !.old = current, !.before = config]
            /\ UNCHANGED <<checked, outcome>>
       ELSE End("ok") /\ checked' = (op.kind = "servicestart")
    /\ UNCHANGED <<current, previous, dirs, running, enabled, files, tx, torn, counts>>

(* _settle *)
SettleCurrent ==
    /\ At("switch")
    /\ IF ~Complete(tx.new) THEN Unwind /\ UNCHANGED current
       ELSE /\ IF tx.state = "prepared" THEN current' = tx.new /\ Go("mark")
               ELSE Go("previous") /\ UNCHANGED current
            /\ UNCHANGED outcome
    /\ UNCHANGED <<previous, dirs, staging, units, files, tx, torn, counts>>

SettleMark ==
    /\ At("mark")
    /\ tx' = [tx EXCEPT !.state = "switched"]
    /\ Go("previous")
    /\ UNCHANGED <<links, units, files, torn, outcome, counts>>

SettlePrevious ==
    /\ At("previous")
    /\ previous' = IF tx.old = tx.new THEN None ELSE tx.old
    /\ Go("prune")
    /\ UNCHANGED <<current, dirs, staging, units, files, tx, torn, outcome, counts>>

\* mutant of SettlePrune: keeps the new release only
SettlePrune_NewOnly ==
    /\ At("prune")
    /\ dirs' = {tx.new}
    /\ Go("unlink")
    /\ UNCHANGED <<current, previous, staging, units, files, tx, torn, outcome, counts>>

SettlePrune ==
    /\ At("prune")
    /\ \E gone \in SUBSET (dirs \ {tx.new, tx.old}) :       \* rmtree, one by one
          /\ dirs' = dirs \ gone
          /\ IF dirs' \subseteq {tx.new, tx.old} THEN Go("unlink") ELSE gone # {} /\ UNCHANGED op
    /\ UNCHANGED <<current, previous, staging, units, files, tx, torn, outcome, counts>>

SettleUnlink ==
    /\ At("unlink")
    /\ tx' = NoTx
    /\ Go(op.ret)
    /\ UNCHANGED <<links, units, files, torn, outcome, counts>>

(* _revert_release_switch, of the pending transaction or of this operation's switch *)
RevertsTo == IF op.ret = "rold" THEN tx.old ELSE op.old
RevertsFrom == IF op.ret = "rold" THEN tx.new ELSE op.target

RevertCurrent ==
    /\ At("vcurrent")
    /\ IF current \in {RevertsTo, RevertsFrom}
       THEN current' = RevertsTo /\ Go("vprevious") /\ UNCHANGED outcome
       ELSE Unwind /\ UNCHANGED current
    /\ UNCHANGED <<previous, dirs, staging, units, files, tx, torn, counts>>

RevertPrevious ==
    /\ At("vprevious")
    /\ previous' = RevertsFrom
    /\ Go("vunlink")
    /\ UNCHANGED <<current, dirs, staging, units, files, tx, torn, outcome, counts>>

RevertUnlink ==
    /\ At("vunlink")
    /\ tx' = NoTx
    /\ Go(op.ret)
    /\ UNCHANGED <<links, units, files, torn, outcome, counts>>

-----------------------------------------------------------------------------
(* _install_locked *)

\* a bundle that is unreadable, unsigned or for another platform ends the install
LoadBundle ==
    /\ At("load")
    /\ Go(IF Complete(op.target) THEN "prepare" ELSE "stage")
    /\ UNCHANGED <<links, units, files, tx, torn, outcome, counts>>

StageRelease ==
    /\ At("stage")
    /\ staging' = TRUE
    /\ Go("prepare")
    /\ UNCHANGED <<current, previous, dirs, units, files, tx, torn, outcome, counts>>

\* the rename that completes a release; _require_state_compatible_release follows
PrepareRelease ==
    /\ At("prepare")
    /\ dirs' = dirs \cup {op.target}
    /\ staging' = FALSE
    /\ Go(IF Quiesces THEN "quiesce" ELSE "assets")
    /\ UNCHANGED <<current, previous, units, files, tx, torn, outcome, counts>>

\* mutant of Quiesce: the services are not waited for
Quiesce_NoStop ==
    /\ At("quiesce")
    /\ Go(CASE op.ret = "restoretx" -> "restoretx"
            [] op.ret # "restoretx" /\ op.kind = "rollback" -> "snapcurrent"
            [] op.ret # "restoretx" /\ op.kind = "install" -> "assets")
    /\ UNCHANGED <<links, units, files, tx, torn, outcome, counts>>

\* _quiesce_release_services: watchdog, capture, network control and recovery units
Quiesce ==
    /\ At("quiesce")
    /\ running' = None /\ checked' = FALSE
    /\ Go(CASE op.ret = "restoretx" -> "restoretx"
            [] op.ret # "restoretx" /\ op.kind = "rollback" -> "snapcurrent"
            [] op.ret # "restoretx" /\ op.kind = "install" -> "assets")
    /\ UNCHANGED <<links, enabled, files, tx, torn, outcome, counts>>

InstallAssets ==
    /\ At("assets")
    /\ Go(IF op.old = None THEN "network" ELSE "snapold")
    /\ UNCHANGED <<links, units, files, tx, torn, outcome, counts>>

SnapshotOld ==
    /\ At("snapold")
    /\ IF config.set
       THEN /\ snaps' = [snaps EXCEPT ![op.old] = config]
            /\ op' = [op EXCEPT !.pc = "network", !.snapped = TRUE]
            /\ UNCHANGED outcome
       ELSE Unwind /\ UNCHANGED snaps
    /\ UNCHANGED <<links, units, config, netstate, tx, torn, counts>>

\* _migrate_legacy_network_state copies the files, then writes its marker; files
\* already copied by an interrupted run are equal and are kept
CopyNetworkState ==
    /\ At("network")
    /\ netstate' = IF netstate = "legacy" THEN "copied" ELSE netstate
    /\ Go("marker")
    /\ UNCHANGED <<links, units, snaps, config, tx, torn, outcome, counts>>

\* the marker, and _disable_managed_wifi_autoconnect
MarkNetworkState ==
    /\ At("marker")
    /\ netstate' = "marked"
    /\ Go(IF Changed THEN "transaction" ELSE "ensure")
    /\ UNCHANGED <<links, units, snaps, config, tx, torn, outcome, counts>>

\* _transaction_document of an install or a rollback
Document == [old |-> op.old, new |-> op.target, state |-> "prepared"]

WriteTransaction ==
    /\ At("transaction")
    /\ tx' = Document
    /\ op' = [op EXCEPT !.pc = "ensure", !.started = TRUE]
    /\ UNCHANGED <<links, units, files, torn, outcome, counts>>

EnsureConfig ==
    /\ At("ensure")
    /\ config' = Http(IF config.set THEN config ELSE [config EXCEPT !.set = TRUE])
    /\ Go("snapnew")
    /\ UNCHANGED <<links, units, snaps, netstate, tx, torn, outcome, counts>>

SnapshotNew ==
    /\ At("snapnew")
    /\ snaps' = [snaps EXCEPT ![op.target] = config]
    /\ Go("reload")
    /\ UNCHANGED <<links, units, config, netstate, tx, torn, outcome, counts>>

Reload ==
    /\ At("reload")
    /\ IF Changed THEN Call("switch", "activate") ELSE Go("activate")
    /\ UNCHANGED <<links, units, files, tx, torn, outcome, counts>>

(* _rollback_locked *)
RollbackAdmitted ==
    /\ At("rollback")
    /\ IF current = None \/ previous = None \/ ~Complete(previous)
       THEN Unwind
       ELSE op' = [op EXCEPT !.pc = "quiesce", !.target = previous] /\ UNCHANGED outcome
    /\ UNCHANGED <<links, units, files, tx, torn, counts>>

SnapshotCurrent ==
    /\ At("snapcurrent")
    /\ snaps' = [snaps EXCEPT ![op.old] = config]
    /\ op' = [op EXCEPT !.pc = "rtransaction", !.snapped = TRUE]
    /\ UNCHANGED <<links, units, config, netstate, tx, torn, outcome, counts>>

RollbackTransaction ==
    /\ At("rtransaction")
    /\ tx' = Document
    /\ op' = [op EXCEPT !.pc = "rconfig", !.started = TRUE]
    /\ UNCHANGED <<links, units, files, torn, outcome, counts>>

RollbackConfig ==
    /\ At("rconfig")
    /\ IF snaps[op.target].set
       THEN config' = Http(snaps[op.target]) /\ Call("switch", "activate")
       ELSE Go("undo") /\ UNCHANGED config
    /\ UNCHANGED <<links, units, snaps, netstate, tx, torn, outcome, counts>>

(* the except clause of both *)
\* mutant of Undo: the release switch is not reverted
Undo_NoRevert ==
    /\ At("undo")
    /\ Call("restart", "restart")
    /\ UNCHANGED <<links, units, files, tx, torn, outcome, counts>>

Undo ==
    /\ At("undo")
    /\ LET restores == IF op.kind = "install" THEN op.old # None ELSE op.snapped
       IN IF restores /\ ~snaps[op.old].set
          THEN Unwind /\ UNCHANGED config
          ELSE /\ Call(IF op.started THEN "vcurrent" ELSE "restart", "restart")
               /\ config' = IF restores THEN Http(snaps[op.old]) ELSE config
               /\ UNCHANGED outcome
    /\ UNCHANGED <<links, units, snaps, netstate, tx, torn, counts>>

-----------------------------------------------------------------------------
(* _activate, _start_release_services and _restore_release *)

RestartOld ==
    /\ At("restart")
    /\ IF Quiesces THEN Call("starting", "undone") /\ enabled' = TRUE /\ UNCHANGED outcome
       ELSE End("failed") /\ UNCHANGED enabled
    /\ UNCHANGED <<links, running, checked, files, tx, torn, counts>>

Activate ==
    /\ At("activate")
    /\ IF op.act THEN Call("starting", "healthy") /\ enabled' = TRUE /\ UNCHANGED outcome
       ELSE End("ok") /\ UNCHANGED enabled
    /\ UNCHANGED <<links, running, checked, files, tx, torn, counts>>

Started ==
    /\ At("starting") /\ running # None
    /\ End(IF op.ret = "healthy" THEN "ok" ELSE "failed")
    /\ UNCHANGED <<links, units, files, tx, torn, counts>>

\* a unit does not start or the health check fails.  relocked: the write lock could
\* be taken again
StartFails(relocked) ==
    /\ At("starting")
    /\ IF op.ret = "healthy" /\ relocked
       THEN Go("failed") /\ UNCHANGED outcome
       ELSE End("stuck")
    /\ UNCHANGED <<links, units, files, tx, torn, ops, crashes>>

\* _record_activation_failure, then one of three ways back
ActivationFailed ==
    /\ At("failed")
    /\ IF op.old # None /\ Changed
       THEN Call("quiesce", "restoretx") /\ UNCHANGED <<units, outcome>>
       ELSE /\ running' = None /\ checked' = FALSE /\ enabled' = FALSE
            /\ IF op.old = None THEN Go("aunlink") /\ UNCHANGED outcome ELSE End("failed")
    /\ UNCHANGED <<links, files, tx, torn, counts>>

FirstUnlink ==
    /\ At("aunlink")
    /\ current' = None
    /\ Go("aprevious")
    /\ UNCHANGED <<previous, dirs, staging, units, files, tx, torn, outcome, counts>>

FirstPrevious ==
    /\ At("aprevious")
    /\ previous' = op.target
    /\ End("failed")
    /\ UNCHANGED <<current, dirs, staging, units, files, tx, torn, counts>>

RestoreTransaction ==
    /\ At("restoretx")
    /\ tx' = [old |-> op.target, new |-> op.old, state |-> "prepared"]
    /\ Go("restoreconfig")
    /\ UNCHANGED <<links, units, files, torn, outcome, counts>>

RestoreConfig ==
    /\ At("restoreconfig")
    /\ config' = Http(snaps[op.old])
    /\ Call("switch", "restored")
    /\ UNCHANGED <<links, units, snaps, netstate, tx, torn, outcome, counts>>

RestoreStart ==
    /\ At("restored")
    /\ Go("starting")
    /\ enabled' = TRUE
    /\ UNCHANGED <<links, running, checked, files, tx, torn, outcome, counts>>

-----------------------------------------------------------------------------
(* _uninstall_locked: units, install_root, the transaction, then assets and updater *)
UninstallUnits ==
    /\ At("deactivate")
    /\ running' = None /\ checked' = FALSE /\ enabled' = FALSE
    /\ Go("delete")
    /\ UNCHANGED <<links, files, tx, torn, outcome, counts>>

UninstallDelete ==
    /\ At("delete")
    /\ torn' = TRUE
    /\ \E gone \in SUBSET dirs, c \in {current, None}, p \in {previous, None} :
          /\ dirs' = dirs \ gone /\ current' = c /\ previous' = p
          /\ IF dirs' = {} /\ c = None /\ p = None THEN Go("forget") ELSE UNCHANGED op
    /\ staging' = FALSE
    /\ UNCHANGED <<units, files, tx, outcome, counts>>

UninstallForget ==
    /\ At("forget")
    /\ tx' = NoTx /\ torn' = FALSE
    /\ Go("remove")
    /\ UNCHANGED <<links, units, files, outcome, counts>>

UninstallAssets ==
    /\ At("remove")
    /\ End("ok")
    /\ UNCHANGED <<links, units, files, tx, torn, counts>>

-----------------------------------------------------------------------------
(* A step raises: a full disk, a failing command, a unit that will not stop *)

\* A write or an unlink takes effect before the fsync of its directory, which may raise
\* (_write_atomic).  Most steps are then caught like the one that follows; these are not,
\* because what follows notes that they are done, or is outside the try
Landed ==
    /\ tx' = CASE op.pc \in {"transaction", "rtransaction"} -> Document
               [] op.pc = "unlink" -> NoTx
               [] OTHER -> tx
    /\ snaps' = IF op.pc = "snapcurrent" THEN [snaps EXCEPT ![op.old] = config] ELSE snaps

Raise ==
    /\ op # NoOp /\ op.pc # "starting"
    /\ faults < MaxFaults /\ faults' = faults + 1
    /\ Unwind
    /\ Landed \/ UNCHANGED <<tx, snaps>>
    /\ staging' = (staging /\ op.pc \notin {"stage", "prepare"})     \* rmtree(stage)
    /\ \E stopped \in (IF op.pc \in {"quiesce", "failed", "deactivate"} THEN BOOLEAN ELSE {FALSE}) :
          /\ running' = IF stopped THEN None ELSE running
          /\ checked' = (checked /\ ~stopped)
    /\ UNCHANGED <<current, previous, dirs, enabled, config, netstate, torn, ops, crashes>>

StartRaise ==
    /\ faults < MaxFaults /\ faults' = faults + 1
    /\ \E relocked \in BOOLEAN : StartFails(relocked)

\* the deployer is killed, or the power fails; the disk keeps what was synced
Crashed == /\ crashes < MaxCrashes /\ crashes' = crashes + 1
           /\ op' = NoOp /\ outcome' = NoOp
           /\ UNCHANGED <<links, enabled, files, tx, torn, ops, faults>>
Kill == op # NoOp /\ Crashed /\ UNCHANGED <<running, checked>>
PowerLoss == running' = None /\ checked' = FALSE /\ Crashed

-----------------------------------------------------------------------------
Deploys ==
    \/ \E r \in Release, act \in BOOLEAN : DeployBegin("install", r, act)
    \/ \E act \in BOOLEAN : DeployBegin("rollback", None, act)
    \/ DeployBegin("uninstall", None, FALSE)
    \/ DeployBegin("recover", None, FALSE)

DeployStep ==
    \/ Recover \/ RecoverSnapshot \/ RecoverOld \/ Recovered
    \/ SettleCurrent \/ SettleMark \/ SettlePrevious \/ SettlePrune \/ SettleUnlink
    \/ RevertCurrent \/ RevertPrevious \/ RevertUnlink
    \/ LoadBundle \/ StageRelease \/ PrepareRelease \/ Quiesce \/ InstallAssets
    \/ SnapshotOld \/ CopyNetworkState \/ MarkNetworkState \/ WriteTransaction
    \/ EnsureConfig \/ SnapshotNew \/ Reload
    \/ RollbackAdmitted \/ SnapshotCurrent \/ RollbackTransaction \/ RollbackConfig
    \/ Undo \/ RestartOld \/ Activate \/ Started \/ StartRaise \/ ActivationFailed
    \/ FirstUnlink \/ FirstPrevious \/ RestoreTransaction \/ RestoreConfig \/ RestoreStart
    \/ UninstallUnits \/ UninstallDelete \/ UninstallForget \/ UninstallAssets
    \/ Raise

Local == Deploys \/ DeployStep \/ ServiceStart \/ ServiceRun \/ ServiceExit \/ EditConfig \/ Kill
DeployNext == Local \/ PowerLoss

DeploySpec == DeployInit /\ [][DeployNext]_deployVars

-----------------------------------------------------------------------------
DeployTypeOK ==
    /\ {current, previous, running} \subseteq Links
    /\ dirs \subseteq Release /\ {staging, checked, enabled, torn} \subseteq BOOLEAN
    /\ tx \in Transactions
    /\ snaps \in [Release -> Configs] /\ config \in Configs
    /\ netstate \in {"legacy", "copied", "marked"}
    /\ op \in Ops \cup {NoOp} /\ outcome \in Outcomes
    /\ ops \in 0..MaxOps /\ faults \in 0..MaxFaults /\ crashes \in 0..MaxCrashes

\* The services never run in the middle of a switch: what runs is the release that
\* current names, complete, with no transaction pending and with the network state
\* of the old layout migrated (install, rollback, recover --service-start).
ServicesOnCommitted ==
    running # None =>
        /\ running = current /\ Complete(running)
        /\ tx = NoTx
        /\ netstate = "marked"

\* Whatever step a crash follows, recover can finish: the pending transaction's new
\* release is complete, current is one of its two releases, and the way it will take
\* (forward with a snapshot of the new one, or back) has the snapshot it needs.
\* Outside a half-done uninstall the links name complete releases.
Recoverable ==
    ~torn =>
        /\ tx # NoTx =>
              /\ Complete(tx.new) /\ current \in {tx.old, tx.new}
              /\ tx.old # None => Complete(tx.old) /\ (snaps[tx.new].set \/ snaps[tx.old].set)
        /\ {current, previous} \subseteq dirs \cup {None}

\* What a deployer reports is what it left: after success the target is current and
\* an install kept the configuration; after a handled failure the old release and,
\* once its snapshot was taken, its configuration are back.  Only a first installation may
\* report its failure with its transaction pending, one that recover can take back
\* (install, rollback, _write_atomic).
OutcomeTruth ==
    outcome # NoOp /\ outcome.kind \in {"install", "rollback"} =>
        /\ outcome.res = "ok" => /\ tx = NoTx /\ current = outcome.target
                                 /\ outcome.kind = "install" => config.v = outcome.before.v
        /\ outcome.res = "failed" => /\ current = outcome.old
                                     /\ outcome.snapped => config.v = outcome.before.v
                                     /\ tx # NoTx => outcome.old = None /\ tx.old = None
                                                     /\ tx.new = outcome.target

\* What every step, failure and crash of a deployer leaves (install, rollback, recover).
DeploymentSafe == ServicesOnCommitted /\ Recoverable /\ OutcomeTruth

\* An update keeps the device's configuration, whether it succeeds or fails (install
\* and the handler of its failure).
UpdateKeepsConfig ==
    outcome # NoOp /\ outcome.kind = "install" /\ outcome.res \in {"ok", "failed"}
        => config.v = outcome.before.v
=============================================================================
