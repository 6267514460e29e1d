---------------------------- MODULE FirmwareControl ----------------------------
(***************************************************************************)
(* FirmwareSupervisor (firmware_control.py) and openaria-update (update.py)*)
(* on top of the deployer.  The supervisor admits one task at a time,      *)
(* keeps task.json and one receipt per request, and runs update.py, which  *)
(* holds the maintenance lock against recordings while it deploys.         *)
(***************************************************************************)
EXTENDS Deployment

CONSTANTS
    Key,               \* request identities chosen by clients
    MaxPublish         \* bound: how often the release channel changes

ASSUME FirmwareBounds == MaxPublish \in Nat

VARIABLES
    alive,             \* the supervisor process runs
    task, taskFile,    \* the task in memory and in task.json
    receipts,          \* receipts/<key>.json
    savePending, loadPending, notifyPending, callback,
    worker,            \* the thread of the admitted task
    request,           \* the start() that holds start_lock, between its two sections
    updater,           \* the update.py process
    channel,           \* the commit the release channel offers
    published,
    capture,           \* a take is in progress: it holds the lock shared
    direct,            \* this device is maintained with rp-ylx-deploy alone
    \* of the keys that have a receipt, since they have it:
    launched,          \* key -> how often its installer was launched
    answered           \* keys whose client was told that the task is accepted

supervisorVars == <<alive, task, savePending, loadPending, notifyPending, callback, worker, request>>
receiptVars == <<receipts, launched, answered>>
recordVars == <<taskFile, receiptVars>>
worldVars == <<channel, published, capture, direct>>
firmwareVars == <<supervisorVars, recordVars, updater, worldVars>>

NoTask == [id |-> None, action |-> None, target |-> None, status |-> None]
Actions == {"update", "rollback"}
Tasks == [id : Key, action : Actions, target : Release,
          status : {"accepted", "running", "succeeded", "failed"}] \cup {NoTask}
Unfinished == {"accepted", "running"}
Terminal == {"succeeded", "failed"}
NoUpdater == [pc |-> None]
Updater == [pc : {"lock", "fetch", "bundle", "ready", "waiting", "verify", "exit0", "exit1"},
            by : {"worker", "cli"}, action : Actions, target : Release \cup {None}] \cup {NoUpdater}

\* the device after its first installation
Installed(r) ==
    /\ current = r /\ previous = None /\ dirs = {r} /\ staging = FALSE /\ tx = NoTx
    /\ config = [NoConfig EXCEPT !.set = TRUE]
    /\ snaps = [x \in Release |-> IF x = r THEN config ELSE NoConfig]
    /\ netstate = "marked" /\ running = r /\ checked = FALSE /\ enabled = TRUE /\ torn = FALSE
    /\ op = NoOp /\ outcome = NoOp
    /\ ops = 0 /\ faults = 0 /\ crashes = 0

FirmwareInit ==
    /\ alive = ~direct /\ task = NoTask /\ taskFile = NoTask
    /\ receipts = [k \in Key |-> NoTask]
    /\ savePending = FALSE /\ loadPending = FALSE /\ notifyPending = FALSE /\ callback = FALSE
    /\ worker = "none" /\ request = NoTask /\ updater = NoUpdater
    /\ published = 0 /\ capture = FALSE
    /\ launched = [k \in Key |-> 0] /\ answered = {}

Finished(t, status) == [t EXCEPT !.status = status]

\* the receipt of t is written, told tells its client, and the old receipts gone are removed
Record(t, told, gone) ==
    /\ receipts' = [k \in Key |-> IF k = t.id THEN t ELSE IF k \in gone THEN NoTask ELSE receipts[k]]
    /\ launched' = [k \in Key |-> IF k \in gone THEN 0 ELSE launched[k]]
    /\ answered' = (answered \ gone) \cup told

\* Receipts of others that are older than 30 days are pruned, as far as unlink succeeds: any of
\* them may be, the age being that of the wall clock, which is set from the network
Prunable(t) == SUBSET (Key \ {t.id})

\* _save_task: task.json (1), the receipt (2), and no exception from either: then old
\* receipts are pruned (3).  done says how far it gets
Whole == 3
Save(t, done, told) ==
    /\ taskFile' = IF done > 0 THEN t ELSE taskFile
    /\ IF done < 2 THEN UNCHANGED receiptVars
       ELSE \E gone \in (IF done = Whole THEN Prunable(t) ELSE {{}}) : Record(t, told, gone)
    /\ savePending' = (done < Whole)
Outcome == IF faults < MaxFaults THEN 0..Whole ELSE {Whole}
\* a save that does not complete is a fault
SaveFault(done) == faults' = IF done < Whole THEN faults + 1 ELSE faults

\* first was saved, perhaps in part, and its execution ends there: t, its failure, is saved
\* over it as far as the disk lets it
SaveFailed(first, t, history) ==
    \/ \E done \in 0..Whole : Save(t, done, {})
    \/ /\ taskFile' \in {first, t} /\ savePending' = TRUE
       /\ \/ UNCHANGED receiptVars
          \/ \E r \in {first, taskFile'}, gone \in history : Record(r, {}, gone)

-----------------------------------------------------------------------------
(* Start of the process and _repair_task_state *)

\* _restore_task_state: unfinished work is failed and saved again, never executed
Restored == IF taskFile.status \in Unfinished THEN Finished(taskFile, "failed") ELSE taskFile
Restore ==
    \/ /\ faults < MaxFaults /\ faults' = faults + 1          \* task.json cannot be read
       /\ loadPending' = TRUE
       /\ UNCHANGED <<task, recordVars, savePending>>
    \/ /\ loadPending' = FALSE
       /\ task' = Restored
       /\ IF Restored = NoTask THEN UNCHANGED <<recordVars, savePending, faults>>
          ELSE \E done \in Outcome : Save(Restored, done, {}) /\ SaveFault(done)

SupervisorBoot ==
    /\ ~alive /\ alive' = TRUE
    /\ Restore
    /\ UNCHANGED <<notifyPending, callback, worker, request, updater, worldVars>>

\* status() and start() repair first; the callback that reloads the service runs once
Repair ==
    /\ alive /\ request = NoTask
    /\ IF loadPending THEN Restore /\ UNCHANGED <<notifyPending, callback>>
       ELSE IF savePending
            THEN /\ \E done \in Outcome : Save(task, done, {}) /\ SaveFault(done)
                 /\ UNCHANGED <<task, loadPending, notifyPending, callback>>
            ELSE /\ notifyPending /\ ~callback
                 /\ callback' = TRUE /\ notifyPending' = FALSE
                 /\ UNCHANGED <<task, recordVars, savePending, loadPending, faults>>
    /\ UNCHANGED <<alive, worker, request, updater, worldVars>>

CallbackFails ==
    /\ callback /\ callback' = FALSE /\ notifyPending' = TRUE
    /\ faults < MaxFaults /\ faults' = faults + 1
    /\ UNCHANGED <<alive, task, recordVars, savePending, loadPending, worker, request, updater,
                   worldVars>>

-----------------------------------------------------------------------------
(* start(): the first section answers, refuses or admits the request *)
Clean == ~loadPending /\ ~savePending /\ ~notifyPending
Answer(k, t) == answered' = IF t.status = "failed" THEN answered ELSE answered \cup {k}

\* mutant of StartKnown: a receipt met again is failed whatever it says
StartKnown_FailsAll(k, action, target) ==
    /\ alive /\ request = NoTask /\ ~loadPending
    /\ task.id # k /\ receipts[k] # NoTask
    /\ receipts[k].action = action /\ receipts[k].target = target
    /\ receipts' = [receipts EXCEPT ![k] = Finished(@, "failed")]
    /\ Answer(k, receipts'[k])
    /\ UNCHANGED <<supervisorVars, taskFile, updater, worldVars, launched>>

StartKnown(k, action, target) ==
    /\ alive /\ request = NoTask /\ ~loadPending
    /\ \/ /\ task.id = k                           \* _check_task_identity
          /\ task.action = action /\ task.target = target
          /\ Answer(k, task)
          /\ UNCHANGED receipts
       \/ /\ task.id # k /\ receipts[k] # NoTask
          /\ receipts[k].action = action /\ receipts[k].target = target
          /\ receipts' = [receipts EXCEPT ![k] =
                IF @.status \in Unfinished THEN Finished(@, "failed") ELSE @]
          /\ Answer(k, receipts'[k])
    /\ UNCHANGED <<supervisorVars, taskFile, updater, worldVars, launched>>

\* installed_release must name the release, and for an update the forced check must
\* still offer it; require_idle asks the capture service
StartAdmit(k, action, target) ==
    /\ alive /\ request = NoTask /\ Clean
    /\ task.id # k /\ receipts[k] = NoTask
    /\ worker = "none" /\ ~callback
    /\ current # None
    /\ IF action = "update" THEN channel = target /\ current # target
       ELSE previous = target
    /\ running # None /\ ~capture
    /\ request' = [id |-> k, action |-> action, target |-> target, status |-> "accepted"]
    /\ UNCHANGED <<alive, task, recordVars, savePending, loadPending, notifyPending, callback,
                   worker, updater, worldVars>>

\* the second section: accepted and saved, then the worker is admitted
StartAccept ==
    /\ alive /\ request # NoTask
    /\ Save(request, Whole, {request.id})
    /\ task' = request /\ worker' = "admitted" /\ request' = NoTask
    /\ UNCHANGED <<alive, loadPending, notifyPending, callback, updater, worldVars>>

\* the save or the thread failed: the task is failed and saved once more if possible
StartRefused ==
    /\ alive /\ request # NoTask
    /\ faults < MaxFaults /\ faults' = faults + 1
    /\ task' = Finished(request, "failed")
    /\ SaveFailed(request, Finished(request, "failed"), Prunable(request))
    /\ request' = NoTask
    /\ UNCHANGED <<alive, loadPending, notifyPending, callback, worker, updater, worldVars>>

-----------------------------------------------------------------------------
(* _execute on the worker thread *)
Finish(status, done) ==
    /\ task' = Finished(task, status)
    /\ Save(Finished(task, status), done, {})

ExecuteRunning ==
    /\ worker = "admitted"
    /\ LET t == Finished(task, "running")
       IN \/ /\ Save(t, Whole, {})
             /\ task' = t /\ worker' = "run" /\ UNCHANGED faults
          \/ /\ SaveFailed(t, Finished(task, "failed"), {{}})
             /\ task' = Finished(task, "failed") /\ worker' = "none"
             /\ faults < MaxFaults /\ faults' = faults + 1
    /\ UNCHANGED <<alive, loadPending, notifyPending, callback, request, updater, worldVars>>

\* _run_update
Launch ==
    /\ worker = "run" /\ updater = NoUpdater
    /\ updater' = [pc |-> "lock", by |-> "worker", action |-> task.action, target |-> task.target]
    /\ worker' = "wait"
    /\ launched' = [launched EXCEPT ![task.id] = @ + 1]
    /\ UNCHANGED <<alive, task, savePending, loadPending, notifyPending, callback, request,
                   taskFile, receipts, worldVars, answered>>

\* another update.py has the cache lock, or the log or the process cannot be opened
LaunchFails ==
    /\ worker = "run" /\ worker' = "none"
    /\ \/ /\ updater # NoUpdater
          /\ \E done \in Outcome : Finish("failed", done) /\ SaveFault(done)
       \/ /\ faults < MaxFaults /\ faults' = faults + 1
          /\ \E done \in 0..Whole : Finish("failed", done)
    /\ UNCHANGED <<alive, loadPending, notifyPending, callback, request, updater, worldVars>>

\* the process ended: success needs exit code 0 and current naming the target
ExecuteEnd ==
    /\ worker = "wait" /\ updater.pc \in {"exit0", "exit1"}
    /\ LET good == updater.pc = "exit0" /\ current = task.target
       IN /\ \E done \in Outcome :
                Finish(IF good THEN "succeeded" ELSE "failed", done) /\ SaveFault(done)
          /\ notifyPending' = (notifyPending \/ good)
    /\ worker' = "none" /\ updater' = NoUpdater
    /\ UNCHANGED <<alive, loadPending, callback, request, worldVars>>

\* mutant of ExecuteTimeout: tries the installer again
ExecuteTimeout_Retry ==
    /\ worker = "wait" /\ updater.pc \notin {"exit0", "exit1"}
    /\ faults < MaxFaults /\ faults' = faults + 1
    /\ worker' = "run"
    /\ UNCHANGED <<alive, task, recordVars, savePending, loadPending, notifyPending, callback,
                   request, worldVars>>

\* 3600 seconds: the whole session is killed before the slot is freed
ExecuteTimeout ==
    /\ worker = "wait" /\ updater.pc \notin {"exit0", "exit1"}
    /\ faults < MaxFaults /\ faults' = faults + 1
    /\ \E done \in 0..Whole : Finish("failed", done)
    /\ worker' = "none"
    /\ UNCHANGED <<alive, loadPending, notifyPending, callback, request, worldVars>>

-----------------------------------------------------------------------------
(* update.py *)
\* mutant of UpdaterHolds: the lock is returned once the bundle is ready
UpdaterHolds_Early == updater.pc \in {"fetch", "bundle"}

UpdaterHolds == updater.pc \in {"fetch", "bundle", "ready", "waiting", "verify"}
RequireIdle == current = None \/ (running # None /\ ~capture)
UpdateGo(step) == updater' = [updater EXCEPT !.pc = step]

\* by hand, without --expected-commit: whatever the channel offers, or previous
CliUpdate(action) ==
    /\ updater = NoUpdater
    /\ updater' = [pc |-> "lock", by |-> "cli", action |-> action, target |-> None]
Expected(release) == updater.target \in {None, release}

\* cache_lock, then maintenance_lock exclusively
UpdaterLock ==
    /\ updater.pc = "lock"
    /\ UpdateGo(IF capture THEN "exit1"
                ELSE IF updater.action = "rollback" THEN "ready" ELSE "fetch")

\* fetch_manifest must offer the expected commit; nothing to do if it is installed
UpdaterFetch ==
    /\ updater.pc = "fetch"
    /\ IF Expected(channel)
       THEN updater' = [updater EXCEPT !.target = channel,
                                       !.pc = IF current = channel THEN "exit0" ELSE "bundle"]
       ELSE UpdateGo("exit1")

\* fetch_bundle, extract_bundle, verify_bundle, require_idle, prepare_dependencies,
\* configure_data_volume: what does not verify is not used, and a busy device is left alone
UpdaterBundle ==
    /\ updater.pc = "bundle"
    /\ \E step \in {"ready", "exit1"} : (step = "ready" => RequireIdle) /\ UpdateGo(step)

UpdaterRefused ==
    /\ updater.pc = "ready"
    /\ ~RequireIdle \/ (updater.action = "rollback" /\ ~Expected(previous))
    /\ UpdateGo("exit1")

UpdaterDeploys ==
    /\ updater.pc = "ready" /\ RequireIdle
    /\ updater.action = "rollback" => Expected(previous)
    /\ DeployBegin(IF updater.action = "rollback" THEN "rollback" ELSE "install",
                   IF updater.action = "rollback" THEN None ELSE updater.target, TRUE)
    /\ UpdateGo("waiting")

\* the identity of what was installed, and the new openaria-update itself
UpdaterVerify ==
    /\ updater.pc = "verify"
    /\ UpdateGo(IF updater.action = "rollback" \/ current = updater.target THEN "exit0" ELSE "exit1")

CliEnd ==
    /\ updater.pc \in {"exit0", "exit1"} /\ updater.by = "cli"
    /\ updater' = NoUpdater

-----------------------------------------------------------------------------
(* the world: the channel, and takes, which hold the maintenance lock shared *)
Publish ==
    /\ published < MaxPublish /\ published' = published + 1
    /\ channel' \in Release \ {channel}
    /\ UNCHANGED <<capture, direct>>

CaptureStart ==
    /\ running # None /\ ~capture /\ ~UpdaterHolds
    /\ capture' = TRUE
    /\ UNCHANGED <<channel, published, direct>>

CaptureStop ==
    /\ capture /\ capture' = FALSE
    /\ UNCHANGED <<channel, published, direct>>

\* the supervisor stops: its control group, with the update it runs, dies with it
SupervisorGone ==
    /\ alive' = FALSE
    /\ task' = NoTask /\ savePending' = FALSE /\ loadPending' = FALSE
    /\ notifyPending' = FALSE /\ callback' = FALSE /\ worker' = "none" /\ request' = NoTask
    /\ UNCHANGED <<recordVars, worldVars>>
UpdateDies ==
    /\ updater' = IF updater # NoUpdater /\ updater.by = "worker" THEN NoUpdater ELSE updater
    /\ LET dies == updater.pc = "waiting" /\ updater' = NoUpdater
       IN op' = (IF dies THEN NoOp ELSE op) /\ outcome' = (IF dies THEN NoOp ELSE outcome)

\* try-restart after a success, asked for by the callback
ReloadSupervisor == alive /\ callback /\ SupervisorGone /\ UpdateDies /\ UNCHANGED <<faults, crashes>>
SupervisorCrash ==
    /\ alive /\ crashes < MaxCrashes /\ crashes' = crashes + 1
    /\ SupervisorGone /\ UpdateDies /\ UNCHANGED faults

-----------------------------------------------------------------------------
restVars == <<links, units, files, tx, torn, ops>>

Repairs == SupervisorBoot \/ Repair \/ CallbackFails \/ StartRefused \/ ExecuteRunning
           \/ LaunchFails \/ ExecuteEnd
Requests ==
    \/ \E k \in Key, a \in Actions, r \in Release : StartKnown(k, a, r) \/ StartAdmit(k, a, r)
    \/ StartAccept \/ Launch
UpdaterStep ==
    \/ \E a \in Actions : CliUpdate(a)
    \/ UpdaterLock \/ UpdaterFetch \/ UpdaterBundle \/ UpdaterRefused \/ UpdaterVerify \/ CliEnd

\* a step of the deployer or of systemd: update.py waits for its deployer, and a take
\* ends with the service that records it
DeployerStep ==
    /\ Local /\ (ops' # ops \/ config'.v > config.v => direct)
    /\ updater' = IF updater.pc = "waiting" /\ op # NoOp /\ op' = NoOp
                  THEN [updater EXCEPT !.pc = IF outcome' # NoOp /\ outcome'.res = "ok"
                                              THEN "verify" ELSE "exit1"]
                  ELSE updater
    /\ capture' = (capture /\ running' # None)
    /\ UNCHANGED <<supervisorVars, recordVars, channel, published, direct>>

SupervisedStep ==
    \/ Repairs /\ UNCHANGED <<restVars, op, outcome, crashes>>
    \/ Requests /\ UNCHANGED <<restVars, op, outcome, faults, crashes>>
    \/ UpdaterStep /\ UNCHANGED <<supervisorVars, recordVars, worldVars, deployVars>>
    \/ UpdaterDeploys /\ UNCHANGED <<supervisorVars, recordVars, worldVars>>
    \/ (Publish \/ CaptureStart \/ CaptureStop)
          /\ UNCHANGED <<supervisorVars, recordVars, updater, deployVars>>
    \/ ExecuteTimeout /\ UpdateDies /\ UNCHANGED <<restVars, crashes>>
    \/ ReloadSupervisor /\ UNCHANGED restVars
    \/ SupervisorCrash /\ UNCHANGED restVars

DevicePowerLoss ==
    /\ PowerLoss
    /\ capture' = FALSE /\ updater' = NoUpdater
    /\ alive' = FALSE /\ task' = NoTask /\ worker' = "none" /\ request' = NoTask
    /\ savePending' = FALSE /\ loadPending' = FALSE /\ notifyPending' = FALSE /\ callback' = FALSE
    /\ UNCHANGED <<recordVars, channel, published, direct>>

MaintenanceInit ==
    /\ \/ direct = TRUE /\ DeployInit /\ channel \in Release
       \/ direct = FALSE /\ \E r \in Release : Installed(r) /\ channel \in Release \ {r}
    /\ FirmwareInit
MaintenanceNext == DeployerStep \/ (~direct /\ SupervisedStep) \/ DevicePowerLoss

maintenanceVars == <<deployVars, firmwareVars>>
MaintenanceSpec == MaintenanceInit /\ [][MaintenanceNext]_maintenanceVars

-----------------------------------------------------------------------------
FirmwareTypeOK ==
    /\ {alive, savePending, loadPending, notifyPending, callback, capture, direct} \subseteq BOOLEAN
    /\ {task, taskFile, request} \subseteq Tasks /\ receipts \in [Key -> Tasks]
    /\ worker \in {"none", "admitted", "run", "wait"} /\ updater \in Updater
    /\ channel \in Release /\ published \in 0..MaxPublish
    /\ launched \in [Key -> Nat] /\ answered \subseteq Key

\* As long as its receipt is kept, a request is executed at most once, whatever is repeated,
\* restarted or half saved; one that was answered as accepted has its receipt, and so has the
\* one that is being executed, however old its receipt is (start, _save_task, _execute).
TaskAtMostOnce ==
    /\ \A k \in Key : launched[k] <= 1 /\ (k \in answered => receipts[k] # NoTask)
    /\ worker # "none" => receipts[task.id] # NoTask

\* The result written in a receipt is final: no repair, retry or restart changes it; it is
\* removed with its receipt alone (_save_task, _repair_task_state, start).
ReceiptFinal ==
    [][\A k \in Key : receipts[k].status \in Terminal =>
          receipts'[k] \in {receipts[k], NoTask}]_maintenanceVars

\* An update that was admitted while the device was idle never cuts a take short: as
\* long as its deployer may stop the services, nothing is being recorded (update.py).
UpdateSparesTakes == updater.pc = "waiting" => ~capture
=============================================================================
