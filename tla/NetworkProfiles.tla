---------------------------- MODULE NetworkProfiles ----------------------------
(***************************************************************************)
(* What network.py keeps on disk and in NetworkManager: the managed Wi-Fi  *)
(* client profiles, the last-known-good record (LKG), the rescue access    *)
(* point, and the journal of the command line's "network apply".  Every    *)
(* mutation holds the operation lock that a recording holds too.  A wired  *)
(* interface runs the same code on files of its own and is left out.       *)
(***************************************************************************)
EXTENDS Integers, FiniteSets, Sequences

CONSTANTS
    Tx,                \* bound: the controller transactions of a behaviour
    CliRequest,        \* request identities given to "network apply"
    MaxCli,            \* bound: command line invocations
    MaxFaults,         \* bound: failed writes, reloads and activations
    MaxDrops           \* bound: links lost by themselves

None == "none"
AP == "ap"
\* the profile of a transaction or request is named after it; "factory" is the clone of
\* the connection that was active at installation
Profile == Tx \cup CliRequest \cup {"factory"}

ASSUME NetworkBounds == IsFiniteSet(Tx) /\ MaxCli \in Nat /\ MaxFaults \in Nat /\ MaxDrops \in Nat
ASSUME NamesApart ==
    /\ Tx \cap CliRequest = {}
    /\ (Tx \cup CliRequest) \cap {None, AP, "factory"} = {}

VARIABLES
    profiles,          \* client profiles NetworkManager can load
    quarantined,       \* profiles renamed to .forget
    lkg,               \* lkg-wlan0.json
    rescue,            \* rescue.json and its hotspot profile exist
    link,              \* what wlan0 runs: a client profile, the access point or nothing
    journal,           \* journal.json of the last "network apply"
    requests,          \* requests/<id>.json
    opLock,            \* who holds network-operation.lock
    cli, clis,         \* the running command and how many ran
    faults, drops

profileVars == <<profiles, quarantined, lkg, rescue>>
cliVars == <<journal, requests, cli, clis>>
diskVars == <<profileVars, link, cliVars, opLock, faults, drops>>

Holder == {"capture", "worker", "request", "boot", "cli"}
NoJournal == [phase |-> None, req |-> None, prev |-> None, outcome |-> None, cleanup |-> None,
              list |-> {}]
NoCli == [cmd |-> None, req |-> None, pc |-> None]

\* The records network.py keeps have the form its readers require.
ProfilesTypeOK ==
    /\ profiles \subseteq Profile /\ quarantined \subseteq Profile
    /\ lkg \in Profile \cup {None} /\ rescue \in BOOLEAN
    /\ link \in Profile \cup {AP, None}
    /\ requests \in [CliRequest -> {None, "ok", "failed"}]
    /\ opLock \in Holder \cup {None}

ProfilesInit ==
    /\ profiles = {} /\ quarantined = {} /\ lkg = None /\ rescue = FALSE
    /\ link \in {"factory", None}
    /\ journal = NoJournal /\ requests = [r \in CliRequest |-> None]
    /\ opLock = None /\ cli = NoCli /\ clis = 0
    /\ faults = 0 /\ drops = 0

Fault == faults < MaxFaults /\ faults' = faults + 1
NoFault == UNCHANGED faults

\* NetworkManager may lose the link at any moment
LinkDrops ==
    /\ drops < MaxDrops /\ drops' = drops + 1
    /\ link # None /\ link' = None
    /\ UNCHANGED <<profileVars, cliVars, opLock, faults>>

-----------------------------------------------------------------------------
(* Building blocks of network.py *)

\* _activate: "connection up" and the checks of the snapshot; a failure leaves the old
\* link or none
ActivateFails == Fault /\ link' \in {link, None}
Activates(p) == NoFault /\ link' = p
Present(p) == (p = AP /\ rescue) \/ p \in profiles
\* _activate_rescue
RescueOutcome ==
    \/ rescue /\ Activates(AP)
    \/ rescue /\ ActivateFails
    \/ ~rescue /\ UNCHANGED <<link, faults>>
\* _health_reason
Healthy(p) == p # None /\ link = p

\* _unreferenced_profiles, for the interface's managed profiles
Referenced == IF lkg = None THEN {} ELSE {lkg}
Unreferenced == profiles \ Referenced

-----------------------------------------------------------------------------
(* The command line: apply, reconcile and rescue, each under the operation lock *)
CliBegin(cmd, r) ==
    /\ clis < MaxCli /\ clis' = clis + 1
    /\ opLock = None /\ opLock' = "cli"
    /\ cli' = [cmd |-> cmd, req |-> r, pc |-> "settle"]
    /\ UNCHANGED <<profileVars, link, journal, requests, faults, drops>>

CliTo(pc) == cli' = [cli EXCEPT !.pc = pc]
CliEnd == cli' = NoCli /\ opLock' = None
CliGoesOn == UNCHANGED <<opLock, clis, drops>>

\* _recover_after_failure: drop the candidate, then bring up the first of LKG, previous
\* connection and rescue that works
Ladder(j) ==
    {p \in {lkg, j.prev, AP} : p \in (profiles \ {j.req}) \cup {"factory"} \/ (p = AP /\ rescue)}
FirstOf(j) ==
    CASE lkg \in Ladder(j) -> lkg
      [] lkg \notin Ladder(j) /\ j.prev \in Ladder(j) -> j.prev
      [] OTHER -> IF rescue THEN AP ELSE None
Recover(j) ==
    \E cleaned \in BOOLEAN, up \in Ladder(j) \cup {None} :
        /\ profiles' = profiles \ {j.req} \/ (~cleaned /\ profiles' = profiles)
        /\ link' = up
        /\ journal' = [j EXCEPT !.phase = "verifying",
                !.outcome = CASE up = None -> "recovery_failed"
                              [] up = AP /\ AP # j.prev -> "rescued"
                              [] OTHER -> "rolled_back",
                !.cleanup = IF cleaned THEN "complete" ELSE "failed"]
        /\ IF cleaned /\ up = FirstOf(j) THEN NoFault ELSE Fault
        /\ UNCHANGED <<quarantined, lkg, rescue>>

\* the outcome of the ladder could not be written: the command ends, the journal still says
\* that the transaction is under way
RecoverFails(j) ==
    /\ Fault /\ CliEnd
    /\ profiles' \in {profiles, profiles \ {j.req}}
    /\ link' \in Ladder(j) \cup {None}
    /\ UNCHANGED <<quarantined, lkg, rescue, journal, requests>>

Ended == {"rolled_back", "rescued", "recovery_failed"}
AfterSettle == IF cli.cmd = "apply" THEN "receipt" ELSE "lkg"
Remember(outcome) == requests' = [requests EXCEPT ![journal.req] = outcome]

\* _settle_journal_before_apply and _reconcile_locked, by the journal they find
CliSettleNone ==
    /\ cli.pc = "settle" /\ cli.cmd # "rescue" /\ journal = NoJournal
    /\ CliTo(AfterSettle) /\ CliGoesOn
    /\ UNCHANGED <<profileVars, link, journal, requests, faults>>

\* _settle_terminal_cleanup
CliSettleEnded ==
    /\ cli.pc = "settle" /\ cli.cmd # "rescue" /\ journal.outcome \in Ended
    /\ UNCHANGED <<quarantined, lkg, rescue, link, clis, drops>>
    /\ \/ /\ journal.cleanup = "failed" /\ Fault
          /\ CliEnd
          /\ profiles' \in {profiles, profiles \ {journal.req}}
          /\ UNCHANGED <<journal, requests>>
       \/ /\ NoFault
          /\ profiles' = IF journal.cleanup = "failed" THEN profiles \ {journal.req} ELSE profiles
          /\ journal' = [journal EXCEPT !.cleanup = "complete"]
          /\ IF cli.cmd = "apply" THEN Remember("failed") ELSE UNCHANGED requests
          /\ IF cli.cmd = "reconcile" /\ journal.outcome = "recovery_failed"
             THEN CliEnd ELSE CliTo(AfterSettle) /\ UNCHANGED opLock

\* an apply goes on with the cleanup and the receipt of the journal it has just settled
CliSettleInterrupted ==
    /\ cli.pc = "settle" /\ cli.cmd # "rescue" /\ journal.outcome = None /\ journal # NoJournal
    /\ \/ /\ Recover(journal) /\ UNCHANGED requests
          /\ IF cli.cmd = "apply" THEN CliTo("settle") /\ UNCHANGED opLock ELSE CliEnd
       \/ RecoverFails(journal)
    /\ UNCHANGED <<clis, drops>>

\* _materialize_commit: whatever the journal committed last becomes the LKG again
CliMaterialize ==
    /\ \/ cli.pc = "settle" /\ cli.cmd # "rescue" /\ journal.outcome = "committed"
       \/ cli.pc = "materialize"
    /\ UNCHANGED <<profiles, quarantined, rescue, link, journal, requests, clis, drops>>
    /\ \/ lkg' = journal.req /\ CliTo("materialized") /\ NoFault /\ UNCHANGED opLock
       \/ Fault /\ CliEnd /\ UNCHANGED lkg

\* the request receipt, then _settle_commit's list of what to prune
CliReceipt ==
    /\ cli.pc = "materialized"
    /\ Remember("ok")
    /\ IF journal.cleanup = "complete" THEN CliTo(AfterSettle) /\ UNCHANGED journal
       ELSE IF journal.cleanup = "pending" /\ Unreferenced = {}
            THEN CliTo(AfterSettle) /\ journal' = [journal EXCEPT !.cleanup = "complete"]
            ELSE /\ CliTo("prune")
                 /\ journal' = IF journal.cleanup = "pending"
                               THEN [journal EXCEPT !.cleanup = "listed", !.list = Unreferenced]
                               ELSE journal
    /\ CliGoesOn /\ UNCHANGED <<profileVars, link, faults>>

\* _prune_profiles of the list in the journal, which a retry keeps
CliPrune ==
    /\ cli.pc = "prune"
    /\ UNCHANGED <<quarantined, lkg, rescue, link, requests, clis, drops>>
    /\ \/ /\ NoFault /\ profiles' = profiles \ journal.list
          /\ journal' = [journal EXCEPT !.cleanup = "complete"]
          /\ CliTo(AfterSettle) /\ UNCHANGED opLock
       \/ /\ Fault /\ CliEnd
          /\ \E gone \in SUBSET journal.list : profiles' = profiles \ gone
          /\ journal' \in {journal, [journal EXCEPT !.cleanup = "failed"]}

\* _apply_network_locked: a receipt is replayed, otherwise the candidate is journalled
CliPrepare ==
    /\ cli.pc = "receipt"
    /\ UNCHANGED <<profileVars, link, requests, clis, drops, faults>>
    /\ IF requests[cli.req] = "ok" THEN CliEnd /\ UNCHANGED journal
       ELSE /\ journal' = [phase |-> "prepared", req |-> cli.req, prev |-> link, outcome |-> None,
                           cleanup |-> None, list |-> {}]
            /\ CliTo("stage") /\ UNCHANGED opLock

CliStage ==
    /\ cli.pc = "stage"
    /\ profiles' = profiles \cup {cli.req}
    /\ UNCHANGED <<quarantined, lkg, rescue, link, requests>>
    /\ CliGoesOn
    /\ \/ NoFault /\ journal' = [journal EXCEPT !.phase = "verifying"] /\ CliTo("activate")
       \/ Fault /\ journal' = [journal EXCEPT !.phase = "staging"] /\ CliTo("recover")

CliActivate ==
    /\ cli.pc = "activate"
    /\ UNCHANGED <<profileVars, journal, requests>>
    /\ CliGoesOn
    /\ \/ Activates(cli.req) /\ CliTo("commit")
       \/ ActivateFails /\ CliTo("recover")

\* the commit point; a write that did not publish it is rolled back
CliCommit ==
    /\ cli.pc = "commit"
    /\ UNCHANGED <<profileVars, link, requests>>
    /\ CliGoesOn
    /\ \/ /\ NoFault /\ CliTo("materialize")
          /\ journal' = [journal EXCEPT !.phase = "commit", !.outcome = "committed",
                                        !.cleanup = "pending"]
       \/ Fault /\ CliTo("recover") /\ UNCHANGED journal

CliRecover ==
    /\ cli.pc = "recover"
    /\ \/ Recover(journal) /\ Remember("failed") /\ CliEnd
       \/ RecoverFails(journal)
    /\ UNCHANGED <<clis, drops>>

\* _reconcile_lkg: a client that is not healthy is replaced by the rescue access point
CliLkg ==
    /\ cli.pc = "lkg" /\ CliEnd
    /\ UNCHANGED <<profileVars, journal, requests, clis, drops>>
    /\ IF lkg = None \/ Healthy(lkg) \/ link = AP THEN UNCHANGED <<link, faults>>
       ELSE RescueOutcome

CliRescue ==
    /\ cli.pc = "settle" /\ cli.cmd = "rescue" /\ CliEnd
    /\ RescueOutcome
    /\ UNCHANGED <<profileVars, journal, requests, clis, drops>>

\* the command is killed: the lock goes, the journal stays
CliDies ==
    /\ cli # NoCli /\ CliEnd
    /\ UNCHANGED <<profileVars, link, journal, requests, clis, faults, drops>>

CliNext ==
    \/ \E r \in CliRequest : CliBegin("apply", r)
    \/ CliBegin("reconcile", None) \/ CliBegin("rescue", None)
    \/ CliSettleNone \/ CliSettleEnded \/ CliSettleInterrupted \/ CliMaterialize \/ CliReceipt
    \/ CliPrune \/ CliPrepare \/ CliStage \/ CliActivate \/ CliCommit \/ CliRecover \/ CliLkg
    \/ CliRescue \/ CliDies
=============================================================================
