---------------------------- MODULE NetworkControl ----------------------------
(***************************************************************************)
(* NetworkController (network_control.py) with its durable state           *)
(* (network_state.py) and credential store, on top of network.py: requests *)
(* become one transaction at a time, which is executed only after its      *)
(* answer was sent; a health monitor and the start of the process make     *)
(* transactions of their own; a failure ends at the rescue access point,   *)
(* under the operation lock or, for an error only the worker's loop        *)
(* catches, after it was released; an error nothing catches ends the       *)
(* worker.  The controller, the command line and a recording share         *)
(* network-operation.lock.                                                 *)
(***************************************************************************)
EXTENDS NetworkProfiles

CONSTANTS
    Key,               \* idempotency keys chosen by clients
    MaxCrashes         \* bound: crashes of the controller and reboots

ASSUME ControlBounds == MaxCrashes \in Nat

VARIABLES
    \* controller.sqlite3
    desired, saved, verified, current, released, latest, work, receipts, marked, stored,
    \* the process
    main, exec, queued, deferred, req, creds, suspect, latched, monitor,
    worker,            \* the worker thread lives
    \* the world
    wants,             \* what each key asks for
    used,              \* transaction identities given out
    answered,          \* transactions whose answer was sent
    stranded,          \* transactions this process gave up: their end could not be written
    crashes

storeVars == <<desired, saved, verified, current, released, latest, work, receipts, marked, stored>>
threadVars == <<suspect, latched, monitor, worker, stranded>>
processVars == <<main, exec, queued, deferred, req, creds, threadVars>>
controlGhosts == <<wants, answered, crashes>>
controlVars == <<storeVars, processVars, controlGhosts, used>>
networkVars == <<diskVars, controlVars>>

NoTx == [id |-> None, status |-> None, stage |-> None]
NoWork == [kind |-> None, cand |-> None, mode |-> None, cleanup |-> {}]
NoExec == [id |-> None, by |-> None, pc |-> None, undo |-> <<>>]
NoReq == [key |-> None, tx |-> None, pc |-> None]
Operation == {"wifi", "open", "hotspot", "forget", "retry"}
Unsettled == {"rescued", "failed"}

DesiredState == {"hotspot", "wifi"}
Transaction ==
    [id : Tx, status : {"accepted", "running", "committed", "rescued", "failed"},
     stage : {"accepted", "prepared", "ap_ready", "activating", "verifying", "forgetting",
              "falling_back", "committed", "rescued", "failed"}] \cup {NoTx}
Work == [kind : {None, "candidate", "rescue", "fallback", "forget"}, cand : Profile \cup {None},
         mode : DesiredState \cup {None}, cleanup : SUBSET Tx]

\* The controller's state has the form network_state.py validates before every write.
ControlTypeOK ==
    /\ desired \in DesiredState /\ saved \in BOOLEAN /\ verified \in BOOLEAN
    /\ current \in Transaction /\ latest \in Transaction /\ released \in BOOLEAN
    /\ work \in [Tx -> Work]
    /\ receipts \in [Key -> Tx \cup {None}]
    /\ queued \subseteq Tx /\ deferred \subseteq Tx /\ used \subseteq Tx /\ creds \subseteq Key
    /\ worker \in BOOLEAN /\ stranded \subseteq Tx
    /\ main \in {"down", "init", "reconcile", "exec", "cleanup", "start", "serve"}

ControlInit ==
    /\ desired = "hotspot" /\ saved = FALSE /\ verified = FALSE
    /\ current = NoTx /\ released = FALSE /\ latest = NoTx
    /\ work = [t \in Tx |-> NoWork] /\ receipts = [k \in Key |-> None]
    /\ marked = FALSE /\ stored = FALSE
    /\ main = "down" /\ exec = NoExec /\ queued = {} /\ deferred = {} /\ req = NoReq
    /\ creds = {} /\ suspect = FALSE /\ latched = FALSE /\ monitor = "wait"
    /\ worker = TRUE /\ stranded = {}
    /\ wants \in [Key -> Operation] /\ used = {} /\ answered = {} /\ crashes = 0

NetworkInit == ProfilesInit /\ ControlInit

-----------------------------------------------------------------------------
(* network_state.py *)
Fresh == CHOOSE t \in Tx : t \notin used
CanAccept == current = NoTx /\ used # Tx

\* accept_transaction: receipt, work, release flag and desired state in one write
Accept(t, w, publish, keep, release) ==
    /\ current' = [id |-> t, status |-> "accepted", stage |-> "accepted"]
    /\ work' = [work EXCEPT ![t] = w]
    /\ released' = release
    /\ desired' = IF publish THEN w.mode ELSE desired
    /\ saved' = IF keep \/ ~publish THEN saved ELSE w.mode = "wifi"
    /\ verified' = IF keep \/ ~publish THEN verified ELSE FALSE
    /\ used' = used \cup {t}
    /\ UNCHANGED <<latest, stored>>

\* transition to a stage that is not the last one
Stage(t, stage) ==
    /\ current.id = t
    /\ current' = [current EXCEPT !.status = "running", !.stage = stage]
    /\ UNCHANGED <<released, latest, work, receipts, marked, stored>>

\* transition to a terminal status: current moves to latest, work goes or stays
Finish(t, status, drop) ==
    /\ current.id = t
    /\ latest' = [id |-> t, status |-> status, stage |-> status]
    /\ current' = NoTx /\ released' = FALSE
    /\ work' = [x \in Tx |-> IF x \in drop THEN NoWork ELSE work[x]]
    /\ UNCHANGED <<receipts, marked, stored>>

\* _enqueue, with its duplicate check
Enqueue(t) == queued' = queued \cup {t}

-----------------------------------------------------------------------------
(* Start of the process: __init__, _boot_reconcile, start *)
Die == main' = "down"
Start ==
    /\ main = "down" /\ main' = "init"
    /\ UNCHANGED <<diskVars, storeVars, exec, queued, deferred, req, creds, threadVars,
                   controlGhosts, used>>

\* ensure_rescue_ap: the record and its hotspot profile, written once
EnsureRescue == rescue' = TRUE

\* prepare_first_install_network keeps an active factory Wi-Fi when nothing was ever
\* saved; the store takes its first state from the LKG; ensure_rescue_ap registers the AP
BootInit ==
    LET fresh == desired = "hotspot" /\ current = NoTx /\ latest = NoTx
                 /\ ~saved /\ (\A k \in Key : receipts[k] = None)
        keep == lkg = None /\ fresh /\ link = "factory" IN
    /\ main = "init" /\ opLock = None
    /\ UNCHANGED <<quarantined, link, cliVars, opLock, drops, current, released, latest, work,
                   receipts, marked, exec, queued, deferred, req, creds, threadVars,
                   controlGhosts, used>>
    /\ \/ /\ NoFault
          /\ profiles' = IF keep THEN profiles \cup {"factory"} ELSE profiles
          /\ lkg' = IF keep THEN "factory" ELSE lkg
          /\ IF keep \/ (~stored /\ lkg # None)
             THEN desired' = "wifi" /\ saved' = TRUE /\ verified' = TRUE
             ELSE UNCHANGED <<desired, saved, verified>>
          /\ stored' = TRUE /\ EnsureRescue
          /\ main' = "reconcile"
       \/ /\ Fault /\ Die
          /\ UNCHANGED <<profiles, lkg, rescue, desired, saved, verified, stored>>

SavedHealthy == IF desired = "hotspot" THEN link = AP ELSE Healthy(lkg)
SavedCandidate == IF desired = "wifi" /\ lkg \in profiles THEN lkg ELSE None
\* _retained_retry_work: the candidate of the last transaction, with what it is to clean up
RetryWork(source) == [work[source] EXCEPT !.kind = "candidate", !.cleanup = @ \cup {source}]
BootWork ==
    IF latest.status \in Unsettled /\ ~marked /\ work[latest.id].cand # None
    THEN RetryWork(latest.id)
    ELSE [kind |-> "candidate", cand |-> SavedCandidate, mode |-> desired,
          cleanup |-> IF latest.status \in Unsettled
                      THEN work[latest.id].cleanup \cup {latest.id} ELSE {}]

\* _boot_reconcile: the boot is marked first; a retained transaction is left to start(); an
\* error of the store ends the constructor
BootReconcile ==
    LET unsettled == latest.status \in Unsettled
        cand == BootWork.cand IN
    /\ main = "reconcile" /\ opLock = None
    /\ UNCHANGED <<profileVars, cliVars, drops, receipts, stored, queued, deferred, req, creds,
                   threadVars, controlGhosts>>
    /\ marked' = TRUE \/ (marked' = marked /\ main' = "down")
    /\ \/ /\ current # NoTx \/ SavedHealthy
          /\ main' = "cleanup"
          /\ UNCHANGED <<link, faults, opLock, desired, saved, verified, current, released, latest,
                         work, used, exec>>
       \/ /\ current = NoTx /\ ~SavedHealthy
          /\ \/ desired = "hotspot" \/ (unsettled /\ marked) \/ cand = None
          /\ \/ Activates(AP) /\ main' = "cleanup"
             \/ ActivateFails /\ Die
          /\ UNCHANGED <<opLock, desired, saved, verified, current, released, latest, work, used,
                         exec>>
       \/ /\ Fault /\ Die
          /\ UNCHANGED <<link, opLock, desired, saved, verified, current, released, latest, work, used,
                         exec>>
       \/ /\ CanAccept /\ ~SavedHealthy /\ desired = "wifi" /\ ~(unsettled /\ marked)
          /\ cand # None
          /\ Accept(Fresh, BootWork, TRUE, TRUE, TRUE)
          /\ exec' = [id |-> Fresh, by |-> "boot", pc |-> "lock", undo |-> <<>>]
          /\ main' = "exec"
          /\ UNCHANGED <<link, faults, opLock>>

\* mutant of Retained: profiles of durable work are not spared
Retained_None == {}
\* retained_profiles
Retained == {work[t].cand : t \in Tx} \ {None}

\* cleanup_orphan_network_candidates
BootCleanup ==
    /\ main = "cleanup" /\ opLock = None
    /\ UNCHANGED <<quarantined, lkg, rescue, link, cliVars, opLock, drops, storeVars, exec, queued,
                   deferred, req, creds, threadVars, controlGhosts, used>>
    /\ profiles' = profiles \cap (Retained \cup Referenced)
    /\ \/ NoFault /\ main' = "start"
       \/ profiles' # profiles /\ Fault /\ Die

\* mutant of BootStart: a released transaction is not queued again
BootStart_NotQueued ==
    /\ main = "start" /\ main' = "serve" /\ stranded' = {}
    /\ queued' = {} /\ deferred' = {current.id} \ {None}
    /\ UNCHANGED <<diskVars, storeVars, exec, req, creds, suspect, latched, monitor, worker,
                   controlGhosts, used>>

\* mutant of BootStart: the release flag is not looked at
BootStart_IgnoresRelease ==
    /\ main = "start" /\ main' = "serve" /\ stranded' = {}
    /\ queued' = {current.id} \ {None} /\ deferred' = {}
    /\ UNCHANGED <<diskVars, storeVars, exec, req, creds, suspect, latched, monitor, worker,
                   controlGhosts, used>>

\* start(): a released transaction is executed again, another waits for its answer
BootStart ==
    /\ main = "start" /\ main' = "serve" /\ stranded' = {}
    /\ queued' = IF released THEN {current.id} \ {None} ELSE {}
    /\ deferred' = IF released THEN {} ELSE {current.id} \ {None}
    /\ UNCHANGED <<diskVars, storeVars, exec, req, creds, suspect, latched, monitor, worker,
                   controlGhosts, used>>

\* the process dies or ends, or the whole device restarts
ForgetProcess ==
    /\ exec' = NoExec /\ queued' = {} /\ deferred' = {} /\ req' = NoReq /\ creds' = {}
    /\ suspect' = FALSE /\ latched' = FALSE /\ monitor' = "wait"
    /\ worker' = TRUE /\ stranded' = {}
ProcessEnds ==
    /\ Die /\ ForgetProcess
    /\ opLock' = IF opLock \in {"worker", "request", "boot"} THEN None ELSE opLock
    /\ UNCHANGED <<profileVars, link, cliVars, drops, storeVars, wants, answered, used>>
Crash ==
    /\ main # "down" /\ crashes < MaxCrashes /\ crashes' = crashes + 1
    /\ ProcessEnds /\ NoFault
Reboot ==
    /\ crashes < MaxCrashes /\ crashes' = crashes + 1
    /\ Die /\ ForgetProcess
    /\ opLock' = None /\ cli' = NoCli /\ link' = None /\ marked' = FALSE
    /\ UNCHANGED <<profileVars, journal, requests, clis, faults, drops, desired, saved, verified,
                   current, released, latest, work, receipts, stored, wants, answered, used>>

\* a recording holds the lock while it runs
CaptureTakes ==
    /\ opLock = None /\ opLock' = "capture"
    /\ UNCHANGED <<profileVars, link, cliVars, faults, drops, controlVars>>
CaptureReleases ==
    /\ opLock = "capture" /\ opLock' = None
    /\ UNCHANGED <<profileVars, link, cliVars, faults, drops, controlVars>>

-----------------------------------------------------------------------------
(* Requests: one at a time on the control socket *)

\* NetworkCredentialStore: a secret waits in memory for one apply, and expires
CredentialCreate(k) ==
    /\ main = "serve" /\ wants[k] = "wifi" /\ receipts[k] = None /\ k \notin creds
    /\ creds' = creds \cup {k}
    /\ UNCHANGED <<diskVars, storeVars, main, exec, queued, deferred, req, threadVars,
                   controlGhosts, used>>
CredentialExpire(k) ==
    /\ k \in creds /\ creds' = creds \ {k} /\ req.key # k
    /\ UNCHANGED <<diskVars, storeVars, main, exec, queued, deferred, req, threadVars,
                   controlGhosts, used>>

Idle == main = "serve" /\ req = NoReq

\* replay_receipt answers a key that is known, whatever the lock says
Replay(k) ==
    /\ Idle /\ receipts[k] # None
    /\ req' = [key |-> k, tx |-> receipts[k], pc |-> "respond"]
    /\ UNCHANGED <<diskVars, storeVars, main, exec, queued, deferred, creds, threadVars,
                   controlGhosts, used>>

\* prepare_network_candidate: a profile that does not connect by itself
PrepareCandidate(t) == profiles' = profiles \cup {t}

\* _accept_apply up to prepare_network_candidate: the secret is reserved, the profile written
ApplyPrepare(k) ==
    /\ Idle /\ receipts[k] = None /\ wants[k] \in {"wifi", "open"} /\ CanAccept
    /\ opLock = None
    /\ wants[k] = "wifi" => k \in creds
    /\ UNCHANGED <<quarantined, lkg, rescue, link, cliVars, drops, storeVars, main, exec, queued,
                   deferred, creds, threadVars, controlGhosts, used>>
    /\ \/ /\ NoFault /\ opLock' = "request"
          /\ PrepareCandidate(Fresh)
          /\ req' = [key |-> k, tx |-> Fresh, pc |-> "write"]
       \/ Fault /\ UNCHANGED <<profiles, opLock, req>>       \* unlinked again

\* accept_transaction and the commit of the reservation; on an error the candidate is
\* discarded, and left to the next start if that fails too
ApplyAccept ==
    LET t == req.tx  k == req.key IN
    /\ req.pc = "write" /\ opLock' = None
    /\ UNCHANGED <<quarantined, lkg, rescue, link, cliVars, drops, main, exec, queued, threadVars,
                   controlGhosts>>
    /\ \/ /\ NoFault
          /\ Accept(t, [kind |-> "candidate", cand |-> t, mode |-> "wifi", cleanup |-> {}],
                    TRUE, FALSE, FALSE)
          /\ receipts' = [receipts EXCEPT ![k] = t]
          /\ creds' = creds \ {k}
          /\ deferred' = deferred \cup {t}
          /\ req' = [req EXCEPT !.pc = "respond"]
          /\ UNCHANGED <<profiles, marked>>
       \/ /\ Fault /\ req' = NoReq
          /\ profiles' \in {profiles, profiles \ {t}}
          /\ UNCHANGED <<storeVars, deferred, creds, used>>

\* _accept_apply for the hotspot, _accept_forget and _accept_retry
Latest == latest.id
Retryable ==
    /\ latest.status \in Unsettled /\ work[Latest].kind # None
    /\ work[Latest].kind = "fallback" => work[Latest].cand # None \/ SavedCandidate # None
DirectWork(op) ==
    CASE op = "hotspot" -> [NoWork EXCEPT !.kind = "rescue", !.mode = "hotspot"]
      [] op = "forget" -> [NoWork EXCEPT !.kind = "forget", !.mode = "hotspot"]
      [] op = "retry" ->
            LET w == work[Latest] IN
            [w EXCEPT !.kind = IF @ = "fallback" THEN "candidate" ELSE @,
                      !.cand = IF w.kind = "fallback" /\ @ = None THEN SavedCandidate ELSE @,
                      !.cleanup = @ \cup {Latest}]
DirectAccept(k) ==
    LET op == wants[k] IN
    /\ Idle /\ receipts[k] = None /\ op \in {"hotspot", "forget", "retry"} /\ CanAccept
    /\ opLock = None
    /\ op = "retry" => Retryable
    /\ UNCHANGED <<profileVars, link, cliVars, opLock, drops, faults, main, exec, queued, creds,
                   threadVars, controlGhosts, marked>>
    /\ Accept(Fresh, DirectWork(op),
              op = "hotspot" \/ (op = "retry" /\ work[Latest].kind # "forget"), op # "hotspot", FALSE)
    /\ receipts' = [receipts EXCEPT ![k] = Fresh]
    /\ deferred' = deferred \cup {Fresh}
    /\ req' = [key |-> k, tx |-> Fresh, pc |-> "respond"]

\* request_control gave up: timeout, or the connection broke before the answer
PeerGone == req' = NoReq /\ UNCHANGED answered

\* _serve_socket: the answer is sent, or the peer is gone and nothing is released
Respond ==
    /\ req.pc = "respond"
    /\ \/ req' = [req EXCEPT !.pc = "release"] /\ answered' = answered \cup {req.tx}
       \/ PeerGone
    /\ UNCHANGED <<diskVars, storeVars, main, exec, queued, deferred, creds, threadVars, wants,
                   crashes, used>>

\* An error that no handler catches (sqlite3.Error in a request, any failed write of
\* release_response) leaves _serve_socket; close() waits for the worker, and the process ends.
RequestEnds ==
    /\ main = "serve" /\ req.pc # "respond" /\ exec = NoExec /\ queued = {}
    /\ Fault /\ ProcessEnds /\ UNCHANGED crashes

\* release_response: the release is durable before the transaction is queued
Release ==
    LET t == req.tx IN
    /\ req.pc = "release" /\ req' = NoReq
    /\ deferred' = deferred \ {t}
    /\ IF t \in deferred /\ current.id = t
       THEN released' = TRUE /\ Enqueue(t)
       ELSE UNCHANGED <<released, queued>>
    /\ UNCHANGED <<diskVars, desired, saved, verified, current, latest, work, receipts, marked,
                   stored, main, exec, creds, threadVars, controlGhosts, used>>

-----------------------------------------------------------------------------
(* Execution: the worker thread, or the constructor for a boot transaction *)
ExecTo(pc) == exec' = [exec EXCEPT !.pc = pc]
ExecWork == work[exec.id]
ExecFrame == UNCHANGED <<deferred, req, creds, suspect, latched, monitor, controlGhosts, used>>
ExecStays == UNCHANGED <<opLock, main, queued, worker, stranded>>
Goes(pc) == ExecTo(pc) /\ ExecStays
Unlocked == IF opLock = exec.by THEN None ELSE opLock

WorkerTakes ==
    /\ main = "serve" /\ exec = NoExec /\ worker
    /\ \E t \in queued : exec' = [id |-> t, by |-> "worker", pc |-> "lock", undo |-> <<>>]
    /\ UNCHANGED <<diskVars, storeVars, main, queued, deferred, req, creds, threadVars,
                   controlGhosts, used>>

\* An error that leaves _execute, and so the operation lock.  _worker_loop catches OSError and
\* RuntimeError and falls back without the lock; sqlite3.Error, and any error of that second
\* fallback, ends the thread.  Of a boot transaction it ends the constructor.
Escapes ==
    \/ /\ exec.by = "worker" /\ (opLock = "worker" \/ exec.pc = "lock")
       /\ ExecTo("fallback") /\ opLock' = Unlocked /\ UNCHANGED <<main, queued, worker, stranded>>
    \/ /\ exec.by = "worker" /\ exec' = NoExec /\ opLock' = Unlocked /\ worker' = FALSE
       /\ queued' = queued \ {exec.id} /\ stranded' = stranded \cup {exec.id} /\ main' = main
    \/ /\ exec.by = "boot" /\ exec' = NoExec /\ opLock' = Unlocked /\ Die
       /\ stranded' = {} /\ UNCHANGED <<queued, worker>>

\* a durable write of the executor that fails: NetworkError and NetworkStateError go to the
\* fallback under the lock, OSError and sqlite3.Error (_write_locked) escape
WriteFails == Fault /\ UNCHANGED storeVars /\ (Goes("fallback") \/ Escapes)

\* mutant of ExecLock: the transaction does not wait for the operation lock
ExecLock_NoWait ==
    /\ exec.pc = "lock" /\ opLock' = IF opLock = None THEN exec.by ELSE opLock
    /\ ExecTo(IF ExecWork.kind = "forget" THEN "forgetting" ELSE "prepare")
    /\ UNCHANGED <<profileVars, link, cliVars, drops, storeVars>> /\ ExecFrame
    /\ NoFault /\ UNCHANGED <<main, queued, worker, stranded>>

\* _execute: the blocking operation lock, then the work of the transaction; neither the lock
\* nor the reading of the work is inside a try
ExecLock ==
    /\ exec.pc = "lock"
    /\ UNCHANGED <<profileVars, link, cliVars, drops, storeVars>> /\ ExecFrame
    /\ \/ /\ opLock = None /\ opLock' = exec.by /\ NoFault
          /\ ExecTo(IF ExecWork.kind = "forget" THEN "forgetting" ELSE "prepare")
          /\ UNCHANGED <<main, queued, worker, stranded>>
       \/ Fault /\ Escapes

\* stage prepared publishes the desired state
ExecPrepare ==
    /\ exec.pc = "prepare"
    /\ UNCHANGED <<profileVars, link, cliVars, drops>> /\ ExecFrame
    /\ \/ /\ NoFault /\ Stage(exec.id, "prepared")
          /\ desired' = ExecWork.mode /\ UNCHANGED <<saved, verified>>
          /\ Goes(IF ExecWork.kind = "candidate" THEN "activating" ELSE "rescue")
       \/ WriteFails

\* the stages that only say where the executor is: before a client or a forget touches the
\* link, and after the link is up
Announced == {"activating", "activated", "ap_ready", "falling_back", "forgetting"}
AnnouncedAs == IF exec.pc = "activated" THEN "verifying" ELSE exec.pc
AfterAnnounced ==
    CASE exec.pc = "activating" -> "activate"
      [] exec.pc = "activated" -> "verifying"
      [] exec.pc = "ap_ready" -> IF ExecWork.kind = "fallback" THEN "falling_back" ELSE "committed"
      [] exec.pc = "falling_back" -> "rescued"
      [] exec.pc = "forgetting" -> "forget_ap"
ExecAnnounce ==
    /\ exec.pc \in Announced
    /\ UNCHANGED <<profileVars, link, cliVars, drops>> /\ ExecFrame
    /\ \/ /\ NoFault /\ Stage(exec.id, AnnouncedAs) /\ UNCHANGED <<desired, saved, verified>>
          /\ Goes(AfterAnnounced)
       \/ WriteFails

\* rescue_network; a fallback ends as rescued, a chosen hotspot goes on to commit
ExecRescue ==
    /\ exec.pc = "rescue"
    /\ UNCHANGED <<profileVars, cliVars, drops, storeVars>> /\ ExecFrame
    /\ \/ Activates(AP) /\ Goes("ap_ready")
       \/ ActivateFails /\ Goes("fallback")

\* activate_network_candidate, within ten seconds
ActivateCandidate(p) == p \in profiles /\ Activates(p)
ExecActivate ==
    /\ exec.pc = "activate"
    /\ UNCHANGED <<profileVars, cliVars, drops, storeVars>> /\ ExecFrame
    /\ \/ ActivateCandidate(ExecWork.cand) /\ Goes("activated")
       \/ ExecWork.cand \in profiles /\ ActivateFails /\ Goes("fallback")
       \/ /\ ExecWork.cand \notin profiles                        \* profile_missing
          /\ Goes("fallback") /\ UNCHANGED <<link, faults>>

\* mutant of ExecCommit: the profiles are pruned and the LKG is not written
ExecCommit_NoRecord ==
    /\ exec.pc = "verifying"
    /\ UNCHANGED <<quarantined, lkg, rescue, link, cliVars, drops, faults, storeVars>>
    /\ ExecFrame /\ Goes("committed")
    /\ profiles' = profiles \cap {ExecWork.cand}

\* commit_network_candidate: the LKG, then the profiles it no longer references
ExecCommit ==
    /\ exec.pc = "verifying"
    /\ UNCHANGED <<quarantined, rescue, link, cliVars, drops, storeVars>> /\ ExecFrame
    /\ \/ /\ NoFault /\ Goes("committed")
          /\ lkg' = ExecWork.cand
          /\ profiles' = profiles \cap {ExecWork.cand}
       \/ /\ Fault /\ Goes("fallback")
          /\ \/ UNCHANGED <<lkg, profiles>>
             \/ /\ lkg' = ExecWork.cand
                /\ \E gone \in SUBSET (profiles \ {ExecWork.cand}) : profiles' = profiles \ gone

\* the terminal transition of a success
ExecCommitted ==
    /\ exec.pc = "committed"
    /\ UNCHANGED <<profileVars, link, cliVars, drops>> /\ ExecFrame
    /\ \/ /\ NoFault
          /\ Finish(exec.id, "committed", ExecWork.cleanup \cup {exec.id})
          /\ saved' = (ExecWork.mode = "wifi") /\ verified' = (ExecWork.mode = "wifi")
          /\ UNCHANGED desired
          /\ Goes("end")
       \/ WriteFails

ExecRescued ==
    /\ exec.pc = "rescued"
    /\ UNCHANGED <<profileVars, link, cliVars, drops>> /\ ExecFrame
    /\ \/ /\ NoFault
          /\ Finish(exec.id, "rescued", {}) /\ desired' = ExecWork.mode
          /\ UNCHANGED <<saved, verified>>
          /\ Goes("end")
       \/ WriteFails

-----------------------------------------------------------------------------
(* _execute_forget and forget_network_client_profiles *)
ForgetRescue ==
    /\ exec.pc = "forget_ap"
    /\ UNCHANGED <<profileVars, cliVars, drops, storeVars>> /\ ExecFrame
    /\ \/ Activates(AP) /\ Goes("quarantine")
       \/ ActivateFails /\ Goes("fallback")

\* the client profiles are renamed and NetworkManager reloaded, or all come back
ForgetQuarantine ==
    /\ exec.pc = "quarantine"
    /\ UNCHANGED <<lkg, rescue, link, cliVars, drops, storeVars>> /\ ExecFrame
    /\ \/ /\ NoFault /\ Goes("unlink")
          /\ quarantined' = quarantined \cup profiles /\ profiles' = {}
       \/ /\ Fault /\ Goes("fallback")
          /\ profiles' = profiles \cup quarantined /\ quarantined' = {}

ForgetUnlink ==
    /\ exec.pc = "unlink"
    /\ UNCHANGED <<rescue, link, requests, cli, clis, drops, storeVars>> /\ ExecFrame
    /\ \/ /\ NoFault /\ ExecStays
          /\ exec' = [exec EXCEPT !.pc = "purge", !.undo = <<lkg, journal>>]
          /\ lkg' = None /\ journal' = NoJournal /\ UNCHANGED <<profiles, quarantined>>
       \/ /\ Fault /\ Goes("fallback")
          /\ profiles' = quarantined /\ quarantined' = {} /\ UNCHANGED <<lkg, journal>>

\* the quarantined files go one by one; what is already gone cannot be rolled back, the
\* records are written again
ForgetPurge ==
    /\ exec.pc = "purge"
    /\ UNCHANGED <<rescue, link, requests, cli, clis, drops, storeVars>> /\ ExecFrame
    /\ quarantined' = {} /\ ExecStays
    /\ \/ /\ NoFault /\ exec' = [exec EXCEPT !.undo = <<>>, !.pc = "forgotten"]
          /\ UNCHANGED <<profiles, lkg, journal>>
       \/ /\ Fault /\ exec' = [exec EXCEPT !.undo = <<>>, !.pc = "fallback"]
          /\ \E kept \in SUBSET quarantined : profiles' = kept
          /\ lkg' = exec.undo[1] /\ journal' = exec.undo[2]

\* the secrets are cleared, then everything the controller remembers of clients
Forgotten ==
    /\ exec.pc = "forgotten"
    /\ UNCHANGED <<profileVars, link, cliVars, drops, deferred, req, suspect, latched, monitor,
                   controlGhosts, used>>
    /\ creds' = {}
    /\ \/ /\ NoFault
          /\ Finish(exec.id, "committed", Tx)
          /\ desired' = "hotspot" /\ saved' = FALSE /\ verified' = FALSE
          /\ Goes("end")
       \/ WriteFails

-----------------------------------------------------------------------------
(* _fallback_transaction, and the end of an execution *)

\* a stage that the store refuses is passed over; any other error escapes
FallbackStage ==
    /\ exec.pc = "fallback"
    /\ UNCHANGED <<profileVars, link, cliVars, drops>> /\ ExecFrame
    /\ \/ /\ NoFault /\ Stage(exec.id, "falling_back") /\ UNCHANGED <<desired, saved, verified>>
          /\ Goes("fallback_ap")
       \/ Fault /\ UNCHANGED storeVars /\ (Goes("fallback_ap") \/ Escapes)

\* rescue_network takes the operation lock, which its own thread may hold
FallbackRescue ==
    /\ exec.pc = "fallback_ap" /\ opLock \in {None, exec.by}
    /\ UNCHANGED <<profileVars, cliVars, drops, storeVars>> /\ ExecFrame
    /\ \/ Activates(AP) /\ Goes("settle_rescued")
       \/ ActivateFails /\ Goes("settle_failed")

\* an end that cannot be written leaves the transaction current: only a restart runs it
FallbackSettle ==
    /\ exec.pc \in {"settle_rescued", "settle_failed"}
    /\ UNCHANGED <<profileVars, link, cliVars, drops, desired, saved, verified>> /\ ExecFrame
    /\ \/ /\ NoFault /\ Goes("end")
          /\ Finish(exec.id, IF exec.pc = "settle_rescued" THEN "rescued" ELSE "failed", {})
       \/ /\ Fault /\ UNCHANGED <<current, released, latest, work, receipts, marked, stored>>
          /\ \/ /\ ExecTo("end") /\ stranded' = stranded \cup {exec.id}
                /\ UNCHANGED <<opLock, main, queued, worker>>
             \/ Escapes

ExecEnd ==
    /\ exec.pc = "end" /\ exec' = NoExec /\ opLock' = Unlocked
    /\ queued' = queued \ {exec.id}
    /\ main' = IF exec.by = "boot" THEN "cleanup" ELSE main
    /\ UNCHANGED <<profileVars, link, cliVars, faults, drops, storeVars, worker, stranded>>
    /\ ExecFrame

ExecNext ==
    \/ ExecLock \/ ExecPrepare \/ ExecAnnounce \/ ExecRescue \/ ExecActivate \/ ExecCommit
    \/ ExecCommitted \/ ExecRescued \/ ForgetRescue \/ ForgetQuarantine \/ ForgetUnlink
    \/ ForgetPurge \/ Forgotten \/ FallbackStage \/ FallbackRescue \/ FallbackSettle \/ ExecEnd

-----------------------------------------------------------------------------
(* The health monitor *)
MonitorFrame ==
    UNCHANGED <<profileVars, link, cliVars, drops, main, exec, deferred, req, creds, worker,
                stranded, controlGhosts>>

\* _monitor_once up to the elapsed ten seconds: the probe runs without the lock
MonitorProbe ==
    /\ main = "serve" /\ monitor = "wait"
    /\ UNCHANGED <<storeVars, opLock, queued, used>> /\ MonitorFrame /\ NoFault
    /\ \/ /\ current # NoTx
          /\ suspect /\ suspect' = FALSE /\ UNCHANGED <<latched, monitor>>
       \/ /\ current = NoTx /\ (desired = "hotspot" \/ ~saved)
          /\ suspect' = FALSE /\ latched' = FALSE /\ UNCHANGED monitor
       \/ /\ current = NoTx /\ desired = "wifi" /\ saved /\ opLock # None
          /\ suspect' = FALSE /\ UNCHANGED <<latched, monitor>>
       \/ /\ current = NoTx /\ desired = "wifi" /\ saved /\ opLock = None
          /\ IF Healthy(lkg) THEN suspect' = FALSE /\ latched' = FALSE /\ UNCHANGED monitor
             ELSE IF latched \/ latest.status \in Unsettled
                  THEN latched' = TRUE /\ UNCHANGED <<suspect, monitor>>
                  ELSE IF ~suspect THEN suspect' = TRUE /\ UNCHANGED <<latched, monitor>>
                       ELSE monitor' = "due" /\ UNCHANGED <<suspect, latched>>

\* under the submit lock only the current transaction and the lock are looked at again
MonitorSubmit ==
    /\ main = "serve" /\ monitor = "due" /\ req.pc # "write"
    /\ monitor' = "wait" /\ suspect' = FALSE
    /\ MonitorFrame /\ NoFault
    /\ \/ /\ current # NoTx \/ opLock # None
          /\ UNCHANGED <<storeVars, opLock, queued, used, latched>>
       \/ /\ CanAccept /\ opLock = None
          /\ Accept(Fresh, [kind |-> "fallback", cand |-> SavedCandidate, mode |-> desired,
                            cleanup |-> {}], TRUE, TRUE, TRUE)
          /\ latched' = TRUE
          /\ Enqueue(Fresh)
          /\ UNCHANGED <<receipts, marked, opLock>>

\* an error of the store is logged and the next round begins anew; sqlite3.Error ends the thread
MonitorFails ==
    /\ main = "serve" /\ monitor # "dead" /\ monitor' \in {"wait", "dead"}
    /\ UNCHANGED <<suspect, latched, storeVars, opLock, queued, used>> /\ MonitorFrame /\ Fault

-----------------------------------------------------------------------------
Requests ==
    \/ \E k \in Key : \/ CredentialCreate(k) \/ CredentialExpire(k) \/ Replay(k)
                      \/ ApplyPrepare(k) \/ DirectAccept(k)
    \/ ApplyAccept \/ Respond \/ Release \/ RequestEnds
Boots == Start \/ BootInit \/ BootReconcile \/ BootCleanup \/ BootStart
World == CliNext \/ LinkDrops

NetworkNext ==
    \/ Boots \/ Crash \/ Reboot \/ CaptureTakes \/ CaptureReleases
    \/ Requests \/ WorkerTakes \/ ExecNext \/ MonitorProbe \/ MonitorSubmit
    \/ MonitorFails
    \/ World /\ UNCHANGED controlVars

NetworkSpec == NetworkInit /\ [][NetworkNext]_networkVars

-----------------------------------------------------------------------------
(* Properties *)

\* A change a client asked for is not begun before its answer was sent: across crashes,
\* replays and restarts the client knows the transaction before it may lose the network
\* (_serve_socket, release_response, start).
AnswerBeforeChange ==
    \A k \in Key : receipts[k] # None /\ receipts[k] \notin answered
                   => current.id = receipts[k] /\ current.stage = "accepted"

\* A network the state calls verified can be brought up again at any moment: its record
\* names a profile that exists.  The exceptions are a forget under way, or that failed half
\* way and whose work is kept for a retry, and a second command, which may write the record
\* of a committed journal again when the profile is gone (_materialize_commit).
SavedNetworkUsable ==
    verified /\ clis <= 1 /\ (\A t \in Tx : work[t].kind # "forget") => lkg \in profiles

\* The profile of a transaction that is still to be executed, or that a client may retry,
\* is not deleted by a start, a commit or a discarded request of the controller.  Only
\* the command line, which does not read the controller's work, deletes it.
CandidateKept ==
    LET Kept(t) == work[t].cand # None /\ clis = 0 => work[t].cand \in profiles IN
    /\ current # NoTx => Kept(current.id)
    /\ current = NoTx /\ latest.status \in Unsettled => Kept(latest.id)

\* A released transaction is never forgotten by a running controller: it is queued or being
\* executed, unless neither its fallback nor its end could be written.  The start of the next
\* process queues that one too (start).
ReleasedIsQueued ==
    main = "serve" /\ current # NoTx /\ released => current.id \in queued \cup stranded

\* A worker that died strands its own transaction only: that one stays current, so that no
\* other is accepted and none waits in the queue of the dead thread (_worker_loop).
DeadWorkerHoldsNone ==
    main = "serve" /\ ~worker => queued = {} /\ current # NoTx /\ current.id \in stranded

\* What becomes of a transaction that was answered (serve, release_response, start).
TransactionHonest == AnswerBeforeChange /\ ReleasedIsQueued /\ DeadWorkerHoldsNone

\* No profile that a state or a transaction needs is gone (NetworkProfiles).
ProfilesKept == SavedNetworkUsable /\ CandidateKept

\* While a recording holds the operation lock nobody changes profiles, records or the link;
\* the link can only be lost.
CaptureUndisturbed ==
    [][opLock = "capture" /\ opLock' = "capture"
       => UNCHANGED profileVars /\ (link' = link \/ link' = None)]_networkVars
=============================================================================
