-------------------------- MODULE MaintenanceProofs --------------------------
(***************************************************************************)
(* Proofs about the maintenance of a device, for any releases and request  *)
(* keys: the deployer and its services (Deployment), the firmware          *)
(* supervisor and the update that it runs (FirmwareControl).               *)
(***************************************************************************)
EXTENDS FirmwareControl, TLAPS

-----------------------------------------------------------------------------
(* The deployer: what holds at every step *)

Confs == [v : Nat, tls : BOOLEAN, set : BOOLEAN]
Jobs == [kind : Kinds, pc : Steps, ret : Rets, target : Links, old : Links, act : BOOLEAN,
         started : BOOLEAN, snapped : BOOLEAN, before : Confs]

DeployTypes ==
    /\ {current, previous, running} \subseteq Links /\ dirs \subseteq Release
    /\ {checked, enabled, torn} \subseteq BOOLEAN
    /\ tx \in Transactions
    /\ snaps \in [Release -> Confs] /\ config \in Confs
    /\ netstate \in {"legacy", "copied", "marked"}
    /\ op \in Jobs \cup {NoOp}

Quiet == running = None /\ ~checked

\* What holds whoever is at work, and survives a crash.
Lasting ==
    /\ running # None => running = current /\ current \in dirs
    /\ running # None \/ checked => tx = NoTx /\ current # None
    /\ current # None \/ tx # NoTx => netstate = "marked"
    /\ enabled => current # None /\ (tx # NoTx => tx.old # None)
    /\ current # None \/ tx.old # None => config.set
    /\ Recoverable

\* The snapshot of the old configuration, once it was taken.
Saved == op.snapped => /\ op.old # None /\ snaps[op.old].set
                       /\ snaps[op.old].v = op.before.v
Kept == op.snapped => config.v = op.before.v
OldThere == ~torn => op.old \in dirs \cup {None}
Pending(old, new) == tx # NoTx /\ tx.old = old /\ tx.new = new
\* The transaction of this operation is written, and the write raised: the handler does not
\* know of it.
Unnoted == Pending(op.old, op.target) /\ (op.old # None => Quiesces)
\* The configuration of the new release.
NewConfig == /\ op.kind = "install" => config.v = op.before.v
             /\ op.kind = "rollback" => config.v = snaps[op.target].v

Recovering == \/ op.pc \in {"recover", "rsnapshot", "rold", "recovered"}
              \/ op.pc \in Settling /\ op.ret = "recovered"
              \/ op.pc \in Reverting /\ op.ret = "rold"
RecoveringAt ==
    Recovering =>
        /\ ~op.started /\ ~op.snapped /\ op.kind # "uninstall" /\ op.ret # "restoretx"
        /\ op.kind = "install" => op.target \in Release
        /\ op.kind = "servicestart" => enabled
        /\ op.pc \in {"rold", "recovered"} => tx = NoTx
        /\ op.pc \in {"rsnapshot"} \cup Settling \cup Reverting => tx # NoTx
        /\ op.pc = "rsnapshot" => snaps[tx.new].set

\* Nothing has been changed yet.
Preparing == \/ op.pc \in {"load", "stage", "prepare", "rollback"}
             \/ op.pc = "quiesce" /\ op.ret # "restoretx"
PreparingAt ==
    Preparing =>
        /\ op.kind = IF op.pc = "rollback" THEN "rollback"
                     ELSE IF op.pc = "quiesce" THEN op.kind ELSE "install"
        /\ tx = NoTx /\ current = op.old /\ config.v = op.before.v
        /\ ~op.started /\ ~op.snapped /\ op.ret # "restoretx"
        /\ op.kind = "install" => op.target \in Release
        /\ op.pc = "quiesce" => op.target \in dirs /\ (op.kind = "rollback" => op.old # None)

Installing == op.pc \in {"assets", "snapold", "network", "marker", "transaction", "ensure",
                         "snapnew", "reload"}
InstallingAt ==
    Installing =>
        /\ op.kind = "install" /\ op.target \in dirs /\ current = op.old
        /\ config.v = op.before.v
        /\ op.snapped <=> op.old # None /\ op.pc \notin {"assets", "snapold"}
        /\ op.pc = "snapold" => op.old # None
        /\ op.started <=> Changed /\ op.pc \in {"ensure", "snapnew", "reload"}
        /\ IF op.started THEN Pending(op.old, op.target) /\ tx.state = "prepared" ELSE tx = NoTx
        /\ Quiesces => Quiet
        /\ op.pc = "transaction" => Changed /\ netstate = "marked"
        /\ op.pc = "ensure" => netstate = "marked"
        /\ op.pc \in {"snapnew", "reload"} => config.set
        /\ op.pc = "reload" => snaps[op.target].set

RollingBack == op.pc \in {"snapcurrent", "rtransaction", "rconfig"}
RollingBackAt ==
    RollingBack =>
        /\ op.kind = "rollback" /\ op.target \in dirs /\ current = op.old /\ op.old # None
        /\ config.v = op.before.v /\ Quiet
        /\ op.snapped <=> op.pc # "snapcurrent"
        /\ op.started <=> op.pc = "rconfig"
        /\ IF op.started THEN Pending(op.old, op.target) /\ tx.state = "prepared" ELSE tx = NoTx

SettlingAt ==
    op.pc \in Settling =>
        /\ op.ret \in {"recovered", "activate", "restored"}
        /\ config.set
        /\ op.pc \in {"prune", "unlink"} => previous \in {tx.old, None}
        /\ op.pc = "mark" => current = tx.new
        /\ op.ret # "recovered" =>
             IF op.pc = "switch" THEN tx.state = "prepared"
                /\ current = tx.old ELSE current = tx.new
RevertingAt ==
    op.pc \in Reverting =>
        /\ op.ret \in {"rold", "restart"}
        /\ op.pc # "vcurrent" => current = RevertsTo

SwitchingAt ==
    op.pc \in Settling /\ op.ret = "activate" =>
        /\ Pending(op.old, op.target) /\ op.target \in dirs /\ op.started
        /\ snaps[op.target].set /\ (op.snapped <=> op.old # None) /\ NewConfig
Activating == \/ op.pc \in {"activate", "failed", "aunlink", "restoretx"}
              \/ op.pc = "starting" /\ op.ret = "healthy"
              \/ op.pc = "quiesce" /\ op.ret = "restoretx"
ActivatingAt ==
    Activating =>
        /\ tx = NoTx /\ current = op.target /\ op.target \in dirs
        /\ (op.snapped <=> op.old # None) /\ NewConfig
        /\ op.pc = "aunlink" => op.old = None /\ Quiet /\ ~enabled
        /\ op.pc \in {"restoretx", "quiesce"} => op.old # None /\ Changed
        /\ op.pc = "restoretx" => Quiet
UnlinkedAt ==
    op.pc = "aprevious" =>
        tx = NoTx /\ current = None /\ op.old = None /\ op.target \in dirs /\ ~op.snapped
UndoAt ==
    op.pc = "undo" =>
        /\ op.target \in dirs
        /\ IF op.started
           THEN /\ Pending(op.old, op.target) \/ (tx = NoTx /\ current = op.target)
                /\ current \in {op.old, op.target} /\ Quiet /\ (op.old = None => ~enabled)
           ELSE (tx = NoTx \/ Unnoted) /\ current = op.old
UndoingAt ==
    op.pc \in Reverting /\ op.ret = "restart" =>
        /\ Pending(op.old, op.target) \/ tx = NoTx
        /\ Kept /\ op.target \in dirs /\ Quiet /\ (op.old = None => ~enabled)
        /\ op.pc = "vcurrent" => current \in {op.old, op.target}
RestoringAt ==
    /\ op.pc = "restoreconfig" =>
          Pending(op.target, op.old) /\ tx.state = "prepared" /\ current = op.target
          /\ op.old # None /\ op.snapped
    /\ op.pc \in Settling /\ op.ret = "restored" =>
          Pending(op.target, op.old) /\ op.old # None /\ Kept
OldAgainAt ==
    op.pc \in {"restart", "restored"} \/ (op.pc = "starting" /\ op.ret # "healthy") =>
        /\ op.ret \in {"restart", "restored", "undone"}
        /\ tx = NoTx \/ (op.ret # "restored" /\ Unnoted)
        /\ current = op.old /\ Kept
        /\ op.pc # "restart" => op.old # None
Uninstalling == {"deactivate", "delete", "forget", "remove"}
RemovingAt ==
    op.pc \in Uninstalling =>
        /\ op.kind = "uninstall"
        /\ op.pc # "deactivate" => Quiet /\ ~enabled
        /\ op.pc \in {"forget", "remove"} => dirs = {} /\ current = None /\ previous = None
Deploying == ~Recovering /\ op.pc \notin Uninstalling
DeployingAt ==
    Deploying =>
        /\ op.kind \in {"install", "rollback"}
        /\ op.kind = "rollback" /\ op.pc # "rollback" => op.old # None
        /\ Saved /\ OldThere
OpFacts ==
    op # NoOp =>
        /\ outcome = NoOp
        /\ RecoveringAt /\ PreparingAt /\ InstallingAt /\ RollingBackAt /\ SettlingAt
           /\ RevertingAt
        /\ SwitchingAt /\ ActivatingAt /\ UnlinkedAt /\ UndoAt /\ UndoingAt /\ RestoringAt
        /\ OldAgainAt /\ RemovingAt /\ DeployingAt

DeployInv == DeployTypes /\ Lasting /\ OpFacts /\ OutcomeTruth

-----------------------------------------------------------------------------
(* The deployer: step by step *)

\* What a job is made of.
LEMMA JobFields ==
    /\ NoOp \notin Jobs
    /\ \A o \in Jobs : /\ o.kind \in Kinds /\ o.pc \in Steps /\ o.ret \in Rets
                       /\ o.target \in Links /\ o.old \in Links
                       /\ {o.act, o.started, o.snapped} \subseteq BOOLEAN /\ o.before \in Confs
  BY DEF Jobs, NoOp, Kinds, None

\* What a job keeps when it goes on.
SameJob == /\ op'.kind = op.kind /\ op'.target = op.target /\ op'.old = op.old
           /\ op'.act = op.act /\ op'.before = op.before
SameMarks == op'.started = op.started /\ op'.snapped = op.snapped
Under(o) == o \in Jobs /\ o # NoOp

\* A job that goes to its next step.
LEMMA WentTo ==
    ASSUME op \in Jobs, NEW step \in Steps, Go(step)
    PROVE  /\ op' \in Jobs /\ op' # NoOp /\ op'.pc = step /\ op'.ret = op.ret
           /\ SameJob /\ SameMarks
  <1>1. op' \in Jobs /\ op'.pc = step /\ op'.ret = op.ret /\ SameJob /\ SameMarks
    BY DEF Jobs, Go, SameJob, SameMarks
  <1> QED BY <1>1, JobFields

\* A job that calls a step for what comes after it.
LEMMA Called ==
    ASSUME op \in Jobs, NEW step \in Steps, NEW ret \in Rets, Call(step, ret)
    PROVE  /\ op' \in Jobs /\ op' # NoOp /\ op'.pc = step /\ op'.ret = ret
           /\ SameJob /\ SameMarks
  <1>1. op' \in Jobs /\ op'.pc = step /\ op'.ret = ret /\ SameJob /\ SameMarks
    BY DEF Jobs, Call, SameJob, SameMarks
  <1> QED BY <1>1, JobFields

\* The plain HTTP form of a configuration.
LEMMA HttpIs ==
    ASSUME NEW c \in Confs
    PROVE  Http(c) \in Confs /\ Http(c).v = c.v /\ Http(c).set = c.set
  BY DEF Http, Confs

\* A transaction that is written.
LEMMA TxIs ==
    /\ NoTx.old = None /\ NoTx \in Transactions
    /\ \A o \in Links, n \in Release, st \in {"prepared", "switched"} :
         LET t == [old |-> o, new |-> n, state |-> st]
         IN  t \in Transactions /\ t # NoTx /\ t.old = o /\ t.new = n /\ t.state = st
    /\ \A t \in Transactions : t # NoTx => t.old \in Links /\ t.new \in Release
                                           /\ t.state \in {"prepared", "switched"}
  BY ReleaseAssumption DEF Transactions, NoTx, None

\* What the transaction is once a job has written one.
LEMMA TxWritten ==
    ASSUME NEW o \in Links, NEW n \in Release, NEW st \in {"prepared", "switched"},
           tx' = [old |-> o, new |-> n, state |-> st]
    PROVE  tx' \in Transactions /\ tx' # NoTx /\ tx'.old = o /\ tx'.new = n /\ tx'.state = st
  BY ReleaseAssumption DEF Transactions, NoTx, None

\* A job that notes that it has taken the snapshot, or written its transaction.
LEMMA Noted ==
    ASSUME op \in Jobs, NEW step \in Steps,
           \/ op' = [op EXCEPT !.pc = step, !.snapped = TRUE]
           \/ op' = [op EXCEPT !.pc = step, !.started = TRUE]
    PROVE  /\ op' \in Jobs /\ op' # NoOp /\ op'.pc = step /\ op'.ret = op.ret /\ SameJob
           /\ op' = [op EXCEPT !.pc = step, !.snapped = TRUE] =>
                op'.snapped = TRUE /\ op'.started = op.started
           /\ op' = [op EXCEPT !.pc = step, !.started = TRUE] =>
                op'.started = TRUE /\ op'.snapped = op.snapped
  <1>1. /\ op' \in Jobs /\ op'.pc = step /\ op'.ret = op.ret /\ SameJob
    BY DEF Jobs, SameJob
  <1>2. op' = [op EXCEPT !.pc = step, !.snapped = TRUE] =>
          op'.snapped = TRUE /\ op'.started = op.started
    BY DEF Jobs
  <1>3. op' = [op EXCEPT !.pc = step, !.started = TRUE] =>
          op'.started = TRUE /\ op'.snapped = op.snapped
    BY DEF Jobs
  <1> QED BY <1>1, <1>2, <1>3, JobFields


lasting == <<current, previous, dirs, running, checked, enabled, netstate, tx, snaps, config,
     torn>>

\* What lasts does not depend on who is at work.
LEMMA LastingStays ==
    ASSUME DeployTypes, Lasting, UNCHANGED lasting, op' \in Jobs \cup {NoOp}
    PROVE  DeployTypes' /\ Lasting'
  BY DEF lasting, DeployTypes, Lasting, Recoverable, Complete

\* Nor does it end with the services.
LEMMA LastingQuiet ==
    ASSUME DeployTypes, Lasting, op' \in Jobs \cup {NoOp},
           UNCHANGED <<current, previous, dirs, enabled, netstate, tx, snaps, config, torn>>,
           \/ running' = running /\ checked' = checked
           \/ running' = None /\ checked' = FALSE
    PROVE  DeployTypes' /\ Lasting'
  <1>1. CASE running' = running /\ checked' = checked
    BY <1>1, LastingStays DEF lasting
  <1>2. CASE running' = None /\ checked' = FALSE
    <2>1. DeployTypes'
      BY <1>2 DEF DeployTypes, Links
    <2>2. Recoverable'
      BY <1>2 DEF Lasting, Recoverable, Complete
    <2> QED BY <1>2, <2>1, <2>2 DEF Lasting
  <1> QED BY <1>1, <1>2

\* A deployer that ends reports the truth if the code was where it may say so.
LEMMA Ended ==
    ASSUME DeployInv, op \in Jobs, NEW res \in {"ok", "failed", "stuck"}, End(res),
           DeployTypes', Lasting',
           op.kind \in {"install", "rollback"} /\ res # "stuck" =>
             /\ res = "ok" => tx' = NoTx /\ current' = op.target
                /\ (op.kind = "install" => config'.v = op.before.v)
             /\ res = "failed" => current' = op.old /\ (op.snapped => config'.v = op.before.v)
                /\ (tx' # NoTx => op.old = None /\ tx'.old = None /\ tx'.new = op.target)
    PROVE  DeployInv'
  <1>1. /\ op' = NoOp /\ outcome'.kind = op.kind /\ outcome'.res = res
        /\ outcome'.target = op.target /\ outcome'.old = op.old
        /\ outcome'.snapped = op.snapped /\ outcome'.before = op.before
    BY DEF End
  <1>2. OutcomeTruth'
    BY <1>1 DEF OutcomeTruth
  <1> QED BY <1>1, <1>2 DEF DeployInv, OpFacts

\* A step that raises is caught where the code has a handler, or ends the operation.
LEMMA Unwound ==
    ASSUME DeployInv, op \in Jobs, op.pc # "starting", Unwind,
           UNCHANGED <<current, previous, dirs, enabled, netstate, tx, snaps, config, torn>>,
           \/ running' = running /\ checked' = checked
           \/ running' = None /\ checked' = FALSE
    PROVE  DeployInv'
  <1>0. op # NoOp /\ OpFacts /\ op.pc \in Steps /\ op.ret \in Rets
    BY JobFields DEF DeployInv
  <1>1. CASE op.pc \in Guarded \/ (op.pc \in Settling /\ op.ret = "activate")
    <2>1. Go("undo") /\ outcome' = outcome
      BY <1>1 DEF Unwind
    <2>2. "undo" \in Steps
      BY DEF Steps
    <2>3. /\ op' \in Jobs /\ op' # NoOp /\ op'.pc = "undo" /\ op'.ret = op.ret
          /\ SameJob /\ SameMarks
      BY <2>1, <2>2, WentTo
    <2>4. DeployTypes' /\ Lasting'
      BY <2>3, LastingQuiet DEF DeployInv
    <2>5. OpFacts'
      <3>1. UndoAt'
        <4>1. op.target \in dirs
          BY <1>0, <1>1 DEF OpFacts, InstallingAt, Installing, RollingBackAt, RollingBack,
                 SwitchingAt, Settling, Guarded
        <4>2. ~op.started => tx = NoTx /\ current = op.old
          BY <1>0, <1>1 DEF OpFacts, InstallingAt, Installing, RollingBackAt, RollingBack,
                 SwitchingAt, Settling, Guarded
        <4>3. op.started => Pending(op.old, op.target) /\ current \in {op.old, op.target}
          BY <1>0, <1>1 DEF OpFacts, InstallingAt, Installing, RollingBackAt, RollingBack,
                 SwitchingAt, SettlingAt, Settling, Guarded, Pending
        <4>4. op.started => Quiet' /\ (op.old = None => ~enabled)
          BY <4>3 DEF Pending, DeployInv, Lasting, Quiet, DeployTypes
        <4> QED BY <2>3, <4>1, <4>2, <4>3, <4>4 DEF UndoAt, Pending, Quiet, SameJob, SameMarks
      <3>2. DeployingAt'
        BY <1>0, <1>1, <2>1, <2>3 DEF RecoveringAt, Recovering, PreparingAt, Preparing,
               InstallingAt, Installing, RollingBackAt, RollingBack, SettlingAt, RevertingAt,
               SwitchingAt, ActivatingAt, Activating, UnlinkedAt, UndoAt, UndoingAt,
               RestoringAt, OldAgainAt, RemovingAt, DeployingAt, Deploying, Settling, Reverting,
               Guarded, Quiet, Saved, Kept, OldThere, Pending, Unnoted,
               NewConfig, Uninstalling, Changed, Quiesces,
               SameJob, SameMarks, OpFacts
      <3>3. outcome' = NoOp
        BY <1>0, <2>1 DEF OpFacts
      <3> QED BY <2>3, <3>1, <3>2, <3>3 DEF OpFacts,
              RecoveringAt, Recovering, PreparingAt, Preparing, InstallingAt, Installing,
              RollingBackAt, RollingBack, SettlingAt, RevertingAt, SwitchingAt, ActivatingAt,
              Activating, UnlinkedAt, UndoingAt, RestoringAt, OldAgainAt, RemovingAt, Deploying,
              Settling, Reverting, Guarded, Quiet, Saved, Kept, OldThere, Pending, Unnoted,
               NewConfig, Uninstalling,
              Changed, Quiesces, SameJob, SameMarks
    <2> QED BY <1>0, <2>1, <2>3, <2>4, <2>5 DEF DeployInv, OutcomeTruth, OpFacts
  <1>2. CASE ~(op.pc \in Guarded \/ (op.pc \in Settling /\ op.ret = "activate"))
    <2> DEFINE early == \/ op.pc \in {"load", "stage", "prepare", "rollback"}
                        \/ op.pc = "quiesce" /\ op.ret # "restoretx"
    <2>1. End(IF early THEN "failed" ELSE "stuck")
      BY <1>2 DEF Unwind
    <2>2. early => tx = NoTx /\ current = op.old /\ ~op.snapped
      BY <1>0 DEF OpFacts, PreparingAt, Preparing
    <2> HIDE DEF early
    <2>3. op' \in Jobs \cup {NoOp}
      BY <2>1 DEF End
    <2>4. DeployTypes' /\ Lasting'
      BY <2>3, LastingQuiet DEF DeployInv
    <2>5. CASE early
      BY <2>1, <2>2, <2>4, <2>5, Ended
    <2>6. CASE ~early
      BY <2>1, <2>4, <2>6, Ended
    <2> QED BY <2>5, <2>6
  <1> QED BY <1>1, <1>2


\* A step of a job that goes on reports nothing.
LEMMA NoReport ==
    ASSUME OpFacts, op # NoOp, outcome' = outcome, DeployTypes', Lasting', OpFacts'
    PROVE  DeployInv'
  BY DEF DeployInv, OutcomeTruth, OpFacts

USE DEF RecoveringAt, Recovering, PreparingAt, Preparing, InstallingAt, Installing,
        RollingBackAt, RollingBack, SettlingAt, RevertingAt, SwitchingAt, ActivatingAt,
        Activating, UnlinkedAt, UndoAt, UndoingAt, RestoringAt, OldAgainAt, RemovingAt,
        DeployingAt, Deploying, Settling, Reverting, Guarded, Quiet, Saved, Kept, OldThere,
        Pending, Unnoted, NewConfig, Uninstalling, Changed, Quiesces, SameJob, SameMarks, Complete,
        RevertsTo, RevertsFrom, Document, lasting, links, units, files

\* _install_assets is followed by the snapshot of the old configuration, if there is one.
LEMMA InstallAssetsKeeps ==
    ASSUME DeployInv, InstallAssets
    PROVE  DeployInv'
  <1>0. /\ op \in Jobs /\ op # NoOp /\ op.pc = "assets" /\ op.ret \in Rets /\ op.kind \in Kinds
        /\ DeployTypes /\ Lasting /\ OpFacts /\ op.old \in Links /\ op.target \in Links
    BY JobFields DEF InstallAssets, At, DeployInv, DeployTypes
  <1>1. CASE op.old = None
    <2>1. Go("network") /\ outcome' = outcome
      BY <1>0, <1>1 DEF InstallAssets
    <2>2. "network" \in Steps
      BY DEF Steps, Rets, Settling, Reverting, Guarded
    <2>3. /\ op' \in Jobs /\ op' # NoOp /\ op'.pc = "network" /\ op'.ret = op.ret
          /\ SameJob /\ SameMarks
      BY <1>0, <2>1, <2>2, WentTo
    <2>4. UNCHANGED lasting
      BY <1>0, <1>1 DEF InstallAssets
    <2>5. DeployTypes' /\ Lasting'
      BY <1>0, <2>3, <2>4, LastingStays
    <2>6. OpFacts'
      BY <1>0, <1>1, <2>1, <2>3, <2>4 DEF OpFacts
    <2> QED BY <1>0, <2>1, <2>5, <2>6, NoReport
  <1>2. CASE op.old # None
    <2>1. Go("snapold") /\ outcome' = outcome
      BY <1>0, <1>2 DEF InstallAssets
    <2>2. "snapold" \in Steps
      BY DEF Steps, Rets, Settling, Reverting, Guarded
    <2>3. /\ op' \in Jobs /\ op' # NoOp /\ op'.pc = "snapold" /\ op'.ret = op.ret
          /\ SameJob /\ SameMarks
      BY <1>0, <2>1, <2>2, WentTo
    <2>4. UNCHANGED lasting
      BY <1>0, <1>2 DEF InstallAssets
    <2>5. DeployTypes' /\ Lasting'
      BY <1>0, <2>3, <2>4, LastingStays
    <2>6. OpFacts'
      BY <1>0, <1>2, <2>1, <2>3, <2>4 DEF OpFacts
    <2> QED BY <1>0, <2>1, <2>5, <2>6, NoReport
  <1> QED BY <1>1, <1>2

\* The bundle is verified.
LEMMA LoadBundleKeeps ==
    ASSUME DeployInv, LoadBundle
    PROVE  DeployInv'
  <1>0. /\ op \in Jobs /\ op # NoOp /\ op.pc = "load" /\ op.ret \in Rets /\ op.kind \in Kinds
        /\ DeployTypes /\ Lasting /\ OpFacts /\ op.old \in Links /\ op.target \in Links
    BY JobFields DEF LoadBundle, At, DeployInv, DeployTypes
  <1>1. CASE Complete(op.target)
    <2>1. Go("prepare") /\ outcome' = outcome
      BY <1>0, <1>1 DEF LoadBundle
    <2>2. "prepare" \in Steps
      BY DEF Steps, Rets, Settling, Reverting, Guarded
    <2>3. /\ op' \in Jobs /\ op' # NoOp /\ op'.pc = "prepare" /\ op'.ret = op.ret
          /\ SameJob /\ SameMarks
      BY <1>0, <2>1, <2>2, WentTo
    <2>4. UNCHANGED lasting
      BY <1>0, <1>1 DEF LoadBundle
    <2>5. DeployTypes' /\ Lasting'
      BY <1>0, <2>3, <2>4, LastingStays
    <2>6. OpFacts'
      BY <1>0, <1>1, <2>1, <2>3, <2>4 DEF OpFacts
    <2> QED BY <1>0, <2>1, <2>5, <2>6, NoReport
  <1>2. CASE ~Complete(op.target)
    <2>1. Go("stage") /\ outcome' = outcome
      BY <1>0, <1>2 DEF LoadBundle
    <2>2. "stage" \in Steps
      BY DEF Steps, Rets, Settling, Reverting, Guarded
    <2>3. /\ op' \in Jobs /\ op' # NoOp /\ op'.pc = "stage" /\ op'.ret = op.ret
          /\ SameJob /\ SameMarks
      BY <1>0, <2>1, <2>2, WentTo
    <2>4. UNCHANGED lasting
      BY <1>0, <1>2 DEF LoadBundle
    <2>5. DeployTypes' /\ Lasting'
      BY <1>0, <2>3, <2>4, LastingStays
    <2>6. OpFacts'
      BY <1>0, <1>2, <2>1, <2>3, <2>4 DEF OpFacts
    <2> QED BY <1>0, <2>1, <2>5, <2>6, NoReport
  <1> QED BY <1>1, <1>2

\* The units are reloaded; the switch follows if there is one.
LEMMA ReloadKeeps ==
    ASSUME DeployInv, Reload
    PROVE  DeployInv'
  <1>0. /\ op \in Jobs /\ op # NoOp /\ op.pc = "reload" /\ op.ret \in Rets /\ op.kind \in Kinds
        /\ DeployTypes /\ Lasting /\ OpFacts /\ op.old \in Links /\ op.target \in Links
    BY JobFields DEF Reload, At, DeployInv, DeployTypes
  <1>1. CASE Changed
    <2>1. Call("switch", "activate") /\ outcome' = outcome
      BY <1>0, <1>1 DEF Reload
    <2>2. "switch" \in Steps /\ "activate" \in Rets
      BY DEF Steps, Rets, Settling, Reverting, Guarded
    <2>3. /\ op' \in Jobs /\ op' # NoOp /\ op'.pc = "switch" /\ op'.ret = "activate"
          /\ SameJob /\ SameMarks
      BY <1>0, <2>1, <2>2, Called
    <2>4. UNCHANGED lasting
      BY <1>0, <1>1 DEF Reload
    <2>5. DeployTypes' /\ Lasting'
      BY <1>0, <2>3, <2>4, LastingStays
    <2>6. OpFacts'
      BY <1>0, <1>1, <2>1, <2>3, <2>4 DEF OpFacts
    <2> QED BY <1>0, <2>1, <2>5, <2>6, NoReport
  <1>2. CASE ~Changed
    <2>1. Go("activate") /\ outcome' = outcome
      BY <1>0, <1>2 DEF Reload
    <2>2. "activate" \in Steps
      BY DEF Steps, Rets, Settling, Reverting, Guarded
    <2>3. /\ op' \in Jobs /\ op' # NoOp /\ op'.pc = "activate" /\ op'.ret = op.ret
          /\ SameJob /\ SameMarks
      BY <1>0, <2>1, <2>2, WentTo
    <2>4. UNCHANGED lasting
      BY <1>0, <1>2 DEF Reload
    <2>5. DeployTypes' /\ Lasting'
      BY <1>0, <2>3, <2>4, LastingStays
    <2>6. OpFacts'
      BY <1>0, <1>2, <2>1, <2>3, <2>4 DEF OpFacts
    <2> QED BY <1>0, <2>1, <2>5, <2>6, NoReport
  <1> QED BY <1>1, <1>2

\* A pending transaction is gone on with or taken back.
LEMMA RecoverKeeps ==
    ASSUME DeployInv, Recover
    PROVE  DeployInv'
  <1>0. /\ op \in Jobs /\ op # NoOp /\ op.pc = "recover" /\ op.ret \in Rets /\ op.kind \in Kinds
        /\ DeployTypes /\ Lasting /\ OpFacts /\ op.old \in Links /\ op.target \in Links
    BY JobFields DEF Recover, At, DeployInv, DeployTypes
  <1>1. CASE tx = NoTx
    <2>1. Go("recovered") /\ outcome' = outcome
      BY <1>0, <1>1 DEF Recover
    <2>2. "recovered" \in Steps
      BY DEF Steps, Rets, Settling, Reverting, Guarded
    <2>3. /\ op' \in Jobs /\ op' # NoOp /\ op'.pc = "recovered" /\ op'.ret = op.ret
          /\ SameJob /\ SameMarks
      BY <1>0, <2>1, <2>2, WentTo
    <2>4. UNCHANGED lasting
      BY <1>0, <1>1 DEF Recover
    <2>5. DeployTypes' /\ Lasting'
      BY <1>0, <2>3, <2>4, LastingStays
    <2>6. OpFacts'
      BY <1>0, <1>1, <2>1, <2>3, <2>4 DEF OpFacts
    <2> QED BY <1>0, <2>1, <2>5, <2>6, NoReport
  <1>2. CASE tx # NoTx /\ ~Complete(tx.new)
    <2>1. /\ Unwind /\ op.pc # "starting"
          /\ UNCHANGED <<current, previous, dirs, enabled, netstate, tx, snaps, config, torn>>
          /\ running' = running /\ checked' = checked
      BY <1>0, <1>2 DEF Recover
    <2> QED BY <1>0, <2>1, Unwound
  <1>3. CASE tx # NoTx /\ Complete(tx.new) /\ snaps[tx.new].set
    <2>1. Go("rsnapshot") /\ outcome' = outcome
      BY <1>0, <1>3 DEF Recover
    <2>2. "rsnapshot" \in Steps
      BY DEF Steps, Rets, Settling, Reverting, Guarded
    <2>3. /\ op' \in Jobs /\ op' # NoOp /\ op'.pc = "rsnapshot" /\ op'.ret = op.ret
          /\ SameJob /\ SameMarks
      BY <1>0, <2>1, <2>2, WentTo
    <2>4. UNCHANGED lasting
      BY <1>0, <1>3 DEF Recover
    <2>5. DeployTypes' /\ Lasting'
      BY <1>0, <2>3, <2>4, LastingStays
    <2>6. OpFacts'
      BY <1>0, <1>3, <2>1, <2>3, <2>4 DEF OpFacts
    <2> QED BY <1>0, <2>1, <2>5, <2>6, NoReport
  <1>4. CASE tx # NoTx /\ Complete(tx.new) /\ ~snaps[tx.new].set
    <2>1. op' = [op EXCEPT !.pc = "vcurrent", !.ret = "rold",
         !.old = tx.old] /\ outcome' = outcome
      BY <1>0, <1>4 DEF Recover
    <2>2. "vcurrent" \in Steps /\ "rold" \in Rets /\ tx.old \in Links
      BY <1>4, <1>0, TxIs DEF DeployTypes, Steps, Rets, Reverting
    <2>3. /\ op' \in Jobs /\ op' # NoOp /\ op'.pc = "vcurrent" /\ op'.ret = "rold" /\ SameMarks
          /\ op'.kind = op.kind /\ op'.target = op.target
      <3>1. /\ op' \in Jobs /\ op'.pc = "vcurrent" /\ op'.ret = "rold" /\ SameMarks
            /\ op'.kind = op.kind /\ op'.target = op.target
        BY <1>0, <2>1, <2>2 DEF Jobs, SameMarks
      <3> QED BY <3>1, JobFields
    <2>4. UNCHANGED lasting
      BY <1>0, <1>4 DEF Recover
    <2>5. DeployTypes' /\ Lasting'
      BY <1>0, <2>3, <2>4, LastingStays
    <2>6. OpFacts'
      BY <1>0, <1>4, <2>1, <2>3, <2>4 DEF OpFacts
    <2> QED BY <1>0, <2>1, <2>5, <2>6, NoReport
  <1> QED BY <1>1, <1>2, <1>3, <1>4

\* The configuration of the new release is put back.
LEMMA RecoverSnapshotKeeps ==
    ASSUME DeployInv, RecoverSnapshot
    PROVE  DeployInv'
  <1>0. /\ op \in Jobs /\ op # NoOp /\ op.pc = "rsnapshot" /\ op.ret \in Rets /\ op.kind \in Kinds
        /\ DeployTypes /\ Lasting /\ OpFacts /\ op.old \in Links /\ op.target \in Links
    BY JobFields DEF RecoverSnapshot, At, DeployInv, DeployTypes
  <1>1. DeployInv'
    <2>a. snaps[tx.new] \in Confs
      BY <1>0, TxIs DEF DeployTypes, OpFacts
    <2>1. Call("switch", "recovered") /\ outcome' = outcome
      BY <1>0 DEF RecoverSnapshot
    <2>2. "switch" \in Steps /\ "recovered" \in Rets
      BY DEF Steps, Rets, Settling, Reverting, Guarded
    <2>3. /\ op' \in Jobs /\ op' # NoOp /\ op'.pc = "switch" /\ op'.ret = "recovered"
          /\ SameJob /\ SameMarks
      BY <1>0, <2>1, <2>2, Called
    <2>4. /\ config' \in Confs /\ config'.v = snaps[tx.new].v /\ config'.set = snaps[tx.new].set
          /\ UNCHANGED <<current, previous, dirs, running, checked, enabled, netstate, tx,
                         snaps, torn>>
      BY <1>0, <2>a, HttpIs DEF RecoverSnapshot, Go, Call
    <2>5. DeployTypes' /\ Lasting'
      <3>1. DeployTypes'
        BY <1>0, <2>3, <2>4, <2>a, HttpIs DEF DeployTypes, Links
      <3>2. Recoverable'
        BY <1>0, <2>4, <2>a, HttpIs DEF OpFacts, Lasting, Recoverable
      <3>3. Lasting'
        BY <1>0, <2>4, <3>2, <2>a, HttpIs DEF OpFacts, Lasting
      <3> QED BY <3>1, <3>3
    <2>6. OpFacts'
      BY <1>0, <2>1, <2>3, <2>4 DEF OpFacts
    <2> QED BY <1>0, <2>1, <2>5, <2>6, NoReport
  <1> QED BY <1>1

\* So is that of the old one.
LEMMA RecoverOldKeeps ==
    ASSUME DeployInv, RecoverOld
    PROVE  DeployInv'
  <1>0. /\ op \in Jobs /\ op # NoOp /\ op.pc = "rold" /\ op.ret \in Rets /\ op.kind \in Kinds
        /\ DeployTypes /\ Lasting /\ OpFacts /\ op.old \in Links /\ op.target \in Links
    BY JobFields DEF RecoverOld, At, DeployInv, DeployTypes
  <1>1. CASE op.old = None
    <2>1. Go("recovered") /\ outcome' = outcome
      BY <1>0, <1>1 DEF RecoverOld
    <2>2. "recovered" \in Steps
      BY DEF Steps, Rets, Settling, Reverting, Guarded
    <2>3. /\ op' \in Jobs /\ op' # NoOp /\ op'.pc = "recovered" /\ op'.ret = op.ret
          /\ SameJob /\ SameMarks
      BY <1>0, <2>1, <2>2, WentTo
    <2>4. UNCHANGED lasting
      BY <1>0, <1>1 DEF RecoverOld
    <2>5. DeployTypes' /\ Lasting'
      BY <1>0, <2>3, <2>4, LastingStays
    <2>6. OpFacts'
      BY <1>0, <1>1, <2>1, <2>3, <2>4 DEF OpFacts
    <2> QED BY <1>0, <2>1, <2>5, <2>6, NoReport
  <1>2. CASE op.old # None /\ ~snaps[op.old].set
    <2>1. /\ Unwind /\ op.pc # "starting"
          /\ UNCHANGED <<current, previous, dirs, enabled, netstate, tx, snaps, config, torn>>
          /\ running' = running /\ checked' = checked
      BY <1>0, <1>2 DEF RecoverOld
    <2> QED BY <1>0, <2>1, Unwound
  <1>3. CASE op.old # None /\ snaps[op.old].set
    <2>a. snaps[op.old] \in Confs
      BY <1>0, <1>3, TxIs DEF Links, DeployTypes, OpFacts
    <2>1. Go("recovered") /\ outcome' = outcome
      BY <1>0, <1>3 DEF RecoverOld
    <2>2. "recovered" \in Steps
      BY DEF Steps, Rets, Settling, Reverting, Guarded
    <2>3. /\ op' \in Jobs /\ op' # NoOp /\ op'.pc = "recovered" /\ op'.ret = op.ret
          /\ SameJob /\ SameMarks
      BY <1>0, <2>1, <2>2, WentTo
    <2>4. /\ config' \in Confs /\ config'.v = snaps[op.old].v /\ config'.set = snaps[op.old].set
          /\ UNCHANGED <<current, previous, dirs, running, checked, enabled, netstate, tx,
                         snaps, torn>>
      BY <1>0, <1>3, <2>a, HttpIs DEF RecoverOld, Go, Call
    <2>5. DeployTypes' /\ Lasting'
      <3>1. DeployTypes'
        BY <1>0, <1>3, <2>3, <2>4, <2>a, HttpIs DEF DeployTypes, Links
      <3>2. Recoverable'
        BY <1>0, <1>3, <2>4, <2>a, HttpIs DEF OpFacts, Lasting, Recoverable
      <3>3. Lasting'
        BY <1>0, <1>3, <2>4, <3>2, <2>a, HttpIs DEF OpFacts, Lasting
      <3> QED BY <3>1, <3>3
    <2>6. OpFacts'
      BY <1>0, <1>3, <2>1, <2>3, <2>4 DEF OpFacts
    <2> QED BY <1>0, <2>1, <2>5, <2>6, NoReport
  <1> QED BY <1>1, <1>2, <1>3

\* _settle: current names the new release, unless it does so already.
LEMMA SettleCurrentKeeps ==
    ASSUME DeployInv, SettleCurrent
    PROVE  DeployInv'
  <1>0. /\ op \in Jobs /\ op # NoOp /\ op.pc = "switch" /\ op.ret \in Rets /\ op.kind \in Kinds
        /\ DeployTypes /\ Lasting /\ OpFacts /\ op.old \in Links /\ op.target \in Links
    BY JobFields DEF SettleCurrent, At, DeployInv, DeployTypes
  <1>1. CASE ~Complete(tx.new)
    <2>1. /\ Unwind /\ op.pc # "starting"
          /\ UNCHANGED <<current, previous, dirs, enabled, netstate, tx, snaps, config, torn>>
          /\ running' = running /\ checked' = checked
      BY <1>0, <1>1 DEF SettleCurrent
    <2> QED BY <1>0, <2>1, Unwound
  <1>2. CASE Complete(tx.new) /\ tx.state = "prepared"
    <2>a. tx.new \in Release /\ tx.old \in Links
      BY <1>0, TxIs DEF DeployTypes, OpFacts
    <2>1. Go("mark") /\ outcome' = outcome
      BY <1>0, <1>2 DEF SettleCurrent
    <2>2. "mark" \in Steps
      BY DEF Steps, Rets, Settling, Reverting, Guarded
    <2>3. /\ op' \in Jobs /\ op' # NoOp /\ op'.pc = "mark" /\ op'.ret = op.ret
          /\ SameJob /\ SameMarks
      BY <1>0, <2>1, <2>2, WentTo
    <2>4. /\ current' = tx.new /\ tx.new \in Release
          /\ UNCHANGED <<previous, dirs, running, checked, enabled, netstate, tx, snaps,
                         config, torn>>
      BY <1>0, <1>2, <2>a, ReleaseAssumption DEF SettleCurrent, Go, Call
    <2>5. DeployTypes' /\ Lasting'
      <3>1. DeployTypes'
        BY <1>0, <1>2, <2>3, <2>4, <2>a, ReleaseAssumption DEF DeployTypes, Links
      <3>2. Recoverable'
        BY <1>0, <1>2, <2>4, <2>a, ReleaseAssumption DEF OpFacts, Lasting, Recoverable
      <3>3. Lasting'
        BY <1>0, <1>2, <2>4, <3>2, <2>a, ReleaseAssumption DEF OpFacts, Lasting
      <3> QED BY <3>1, <3>3
    <2>6. OpFacts'
      BY <1>0, <1>2, <2>1, <2>3, <2>4 DEF OpFacts
    <2> QED BY <1>0, <2>1, <2>5, <2>6, NoReport
  <1>3. CASE Complete(tx.new) /\ tx.state # "prepared"
    <2>1. Go("previous") /\ outcome' = outcome
      BY <1>0, <1>3 DEF SettleCurrent
    <2>2. "previous" \in Steps
      BY DEF Steps, Rets, Settling, Reverting, Guarded
    <2>3. /\ op' \in Jobs /\ op' # NoOp /\ op'.pc = "previous" /\ op'.ret = op.ret
          /\ SameJob /\ SameMarks
      BY <1>0, <2>1, <2>2, WentTo
    <2>4. UNCHANGED lasting
      BY <1>0, <1>3 DEF SettleCurrent
    <2>5. DeployTypes' /\ Lasting'
      BY <1>0, <2>3, <2>4, LastingStays
    <2>6. OpFacts'
      BY <1>0, <1>3, <2>1, <2>3, <2>4 DEF OpFacts
    <2> QED BY <1>0, <2>1, <2>5, <2>6, NoReport
  <1> QED BY <1>1, <1>2, <1>3

\* _settle: the transaction says so.
LEMMA SettleMarkKeeps ==
    ASSUME DeployInv, SettleMark
    PROVE  DeployInv'
  <1>0. /\ op \in Jobs /\ op # NoOp /\ op.pc = "mark" /\ op.ret \in Rets /\ op.kind \in Kinds
        /\ DeployTypes /\ Lasting /\ OpFacts /\ op.old \in Links /\ op.target \in Links
    BY JobFields DEF SettleMark, At, DeployInv, DeployTypes
  <1>1. DeployInv'
    <2>a. tx \in Transactions /\ tx # NoTx
      BY <1>0 DEF DeployTypes, OpFacts
    <2>b. /\ [tx EXCEPT !.state = "switched"] \in Transactions
          /\ [tx EXCEPT !.state = "switched"] # NoTx
          /\ [tx EXCEPT !.state = "switched"].old = tx.old
          /\ [tx EXCEPT !.state = "switched"].new = tx.new
          /\ [tx EXCEPT !.state = "switched"].state = "switched"
      BY <2>a, ReleaseAssumption DEF Transactions, NoTx
    <2>1. Go("previous") /\ outcome' = outcome
      BY <1>0 DEF SettleMark
    <2>2. "previous" \in Steps
      BY DEF Steps, Rets, Settling, Reverting, Guarded
    <2>3. /\ op' \in Jobs /\ op' # NoOp /\ op'.pc = "previous" /\ op'.ret = op.ret
          /\ SameJob /\ SameMarks
      BY <1>0, <2>1, <2>2, WentTo
    <2>4. /\ tx' \in Transactions /\ tx' # NoTx /\ tx'.old = tx.old /\ tx'.new = tx.new
          /\ tx'.state = "switched"
          /\ UNCHANGED <<current, previous, dirs, running, checked, enabled, netstate, snaps,
                         config, torn>>
      BY <1>0, <2>b DEF SettleMark, Go, Call
    <2>5. DeployTypes' /\ Lasting'
      <3>1. DeployTypes'
        BY <1>0, <2>3, <2>4, <2>b DEF DeployTypes, Links
      <3>2. Recoverable'
        BY <1>0, <2>4, <2>b DEF OpFacts, Lasting, Recoverable
      <3>3. Lasting'
        BY <1>0, <2>4, <3>2, <2>b DEF OpFacts, Lasting
      <3> QED BY <3>1, <3>3
    <2>6. OpFacts'
      BY <1>0, <2>1, <2>3, <2>4 DEF OpFacts
    <2> QED BY <1>0, <2>1, <2>5, <2>6, NoReport
  <1> QED BY <1>1

\* _settle: previous names the old one.
LEMMA SettlePreviousKeeps ==
    ASSUME DeployInv, SettlePrevious
    PROVE  DeployInv'
  <1>0. /\ op \in Jobs /\ op # NoOp /\ op.pc = "previous" /\ op.ret \in Rets /\ op.kind \in Kinds
        /\ DeployTypes /\ Lasting /\ OpFacts /\ op.old \in Links /\ op.target \in Links
    BY JobFields DEF SettlePrevious, At, DeployInv, DeployTypes
  <1>1. DeployInv'
    <2>1. Go("prune") /\ outcome' = outcome
      BY <1>0 DEF SettlePrevious
    <2>2. "prune" \in Steps
      BY DEF Steps, Rets, Settling, Reverting, Guarded
    <2>3. /\ op' \in Jobs /\ op' # NoOp /\ op'.pc = "prune" /\ op'.ret = op.ret
          /\ SameJob /\ SameMarks
      BY <1>0, <2>1, <2>2, WentTo
    <2>4. /\ previous' \in {tx.old, None} /\ UNCHANGED <<current, dirs, running, checked,
                                                         enabled, netstate, tx, snaps,
                                                              config, torn>>
      BY <1>0, TxIs DEF SettlePrevious, Go, Call
    <2>5. DeployTypes' /\ Lasting'
      <3>1. DeployTypes'
        BY <1>0, <2>3, <2>4, TxIs DEF DeployTypes, Links
      <3>2. Recoverable'
        BY <1>0, <2>4, TxIs DEF OpFacts, Lasting, Recoverable
      <3>3. Lasting'
        BY <1>0, <2>4, <3>2, TxIs DEF OpFacts, Lasting
      <3> QED BY <3>1, <3>3
    <2>6. OpFacts'
      BY <1>0, <2>1, <2>3, <2>4 DEF OpFacts
    <2> QED BY <1>0, <2>1, <2>5, <2>6, NoReport
  <1> QED BY <1>1

\* _settle: what neither link names goes, one by one.
LEMMA SettlePruneKeeps ==
    ASSUME DeployInv, SettlePrune
    PROVE  DeployInv'
  <1>0. /\ op \in Jobs /\ op # NoOp /\ op.pc = "prune" /\ op.ret \in Rets /\ op.kind \in Kinds
        /\ DeployTypes /\ Lasting /\ OpFacts /\ op.old \in Links /\ op.target \in Links
    BY JobFields DEF SettlePrune, At, DeployInv, DeployTypes
  <1>1. /\ dirs' \subseteq dirs /\ dirs \cap {tx.new, tx.old} \subseteq dirs'
        /\ Go("unlink") \/ op' = op
        /\ outcome' = outcome
        /\ UNCHANGED <<current, previous, running, checked, enabled, netstate, tx, snaps,
                       config, torn>>
    BY DEF SettlePrune
  <1>2. /\ op' \in Jobs /\ op' # NoOp /\ op'.pc \in {"prune", "unlink"} /\ op'.ret = op.ret
        /\ SameJob /\ SameMarks
    <2>1. CASE Go("unlink")
      <3>1. "unlink" \in Steps
        BY DEF Steps
      <3> QED BY <1>0, <2>1, <3>1, WentTo
    <2>2. CASE op' = op
      BY <1>0, <2>2
    <2> QED BY <1>1, <2>1, <2>2
  <1>3. DeployTypes' /\ Lasting'
    <2>1. DeployTypes'
      BY <1>0, <1>1, <1>2 DEF DeployTypes
    <2>2. Recoverable'
      BY <1>0, <1>1, TxIs DEF OpFacts, Lasting, Recoverable
    <2>3. Lasting'
      BY <1>0, <1>1, <2>2 DEF OpFacts, Lasting
    <2> QED BY <2>1, <2>3
  <1>4. OpFacts'
    BY <1>0, <1>1, <1>2, TxIs DEF OpFacts
  <1> QED BY <1>0, <1>1, <1>3, <1>4, NoReport

\* _settle: the transaction is over.
LEMMA SettleUnlinkKeeps ==
    ASSUME DeployInv, SettleUnlink
    PROVE  DeployInv'
  <1>0. /\ op \in Jobs /\ op # NoOp /\ op.pc = "unlink" /\ op.ret \in Rets /\ op.kind \in Kinds
        /\ DeployTypes /\ Lasting /\ OpFacts /\ op.old \in Links /\ op.target \in Links
    BY JobFields DEF SettleUnlink, At, DeployInv, DeployTypes
  <1>1. CASE op.ret = "recovered"
    <2>1. Go("recovered") /\ outcome' = outcome
      BY <1>0, <1>1 DEF SettleUnlink
    <2>2. "recovered" \in Steps
      BY DEF Steps, Rets, Settling, Reverting, Guarded
    <2>3. /\ op' \in Jobs /\ op' # NoOp /\ op'.pc = "recovered" /\ op'.ret = op.ret
          /\ SameJob /\ SameMarks
      BY <1>0, <2>1, <2>2, WentTo
    <2>4. tx' = NoTx /\ UNCHANGED <<current, previous, dirs, running, checked, enabled,
                                    netstate, snaps, config, torn>>
      BY <1>0, <1>1, TxIs DEF SettleUnlink, Go, Call
    <2>5. DeployTypes' /\ Lasting'
      <3>1. DeployTypes'
        BY <1>0, <1>1, <2>3, <2>4, TxIs DEF DeployTypes, Links
      <3>2. Recoverable'
        BY <1>0, <1>1, <2>4, TxIs DEF OpFacts, Lasting, Recoverable
      <3>3. Lasting'
        BY <1>0, <1>1, <2>4, <3>2, TxIs DEF OpFacts, Lasting
      <3> QED BY <3>1, <3>3
    <2>6. OpFacts'
      BY <1>0, <1>1, <2>1, <2>3, <2>4, TxIs, ReleaseAssumption DEF OpFacts
    <2> QED BY <1>0, <2>1, <2>5, <2>6, NoReport
  <1>2. CASE op.ret = "activate"
    <2>1. Go("activate") /\ outcome' = outcome
      BY <1>0, <1>2 DEF SettleUnlink
    <2>2. "activate" \in Steps
      BY DEF Steps, Rets, Settling, Reverting, Guarded
    <2>3. /\ op' \in Jobs /\ op' # NoOp /\ op'.pc = "activate" /\ op'.ret = op.ret
          /\ SameJob /\ SameMarks
      BY <1>0, <2>1, <2>2, WentTo
    <2>4. tx' = NoTx /\ UNCHANGED <<current, previous, dirs, running, checked, enabled,
                                    netstate, snaps, config, torn>>
      BY <1>0, <1>2, TxIs DEF SettleUnlink, Go, Call
    <2>5. DeployTypes' /\ Lasting'
      <3>1. DeployTypes'
        BY <1>0, <1>2, <2>3, <2>4, TxIs DEF DeployTypes, Links
      <3>2. Recoverable'
        BY <1>0, <1>2, <2>4, TxIs DEF OpFacts, Lasting, Recoverable
      <3>3. Lasting'
        BY <1>0, <1>2, <2>4, <3>2, TxIs DEF OpFacts, Lasting
      <3> QED BY <3>1, <3>3
    <2>6. OpFacts'
      BY <1>0, <1>2, <2>1, <2>3, <2>4, TxIs, ReleaseAssumption DEF OpFacts
    <2> QED BY <1>0, <2>1, <2>5, <2>6, NoReport
  <1>3. CASE op.ret = "restored"
    <2>1. Go("restored") /\ outcome' = outcome
      BY <1>0, <1>3 DEF SettleUnlink
    <2>2. "restored" \in Steps
      BY DEF Steps, Rets, Settling, Reverting, Guarded
    <2>3. /\ op' \in Jobs /\ op' # NoOp /\ op'.pc = "restored" /\ op'.ret = op.ret
          /\ SameJob /\ SameMarks
      BY <1>0, <2>1, <2>2, WentTo
    <2>4. tx' = NoTx /\ UNCHANGED <<current, previous, dirs, running, checked, enabled,
                                    netstate, snaps, config, torn>>
      BY <1>0, <1>3, TxIs DEF SettleUnlink, Go, Call
    <2>5. DeployTypes' /\ Lasting'
      <3>1. DeployTypes'
        BY <1>0, <1>3, <2>3, <2>4, TxIs DEF DeployTypes, Links
      <3>2. Recoverable'
        BY <1>0, <1>3, <2>4, TxIs DEF OpFacts, Lasting, Recoverable
      <3>3. Lasting'
        BY <1>0, <1>3, <2>4, <3>2, TxIs DEF OpFacts, Lasting
      <3> QED BY <3>1, <3>3
    <2>6. OpFacts'
      BY <1>0, <1>3, <2>1, <2>3, <2>4, TxIs, ReleaseAssumption DEF OpFacts
    <2> QED BY <1>0, <2>1, <2>5, <2>6, NoReport
  <1> QED BY <1>0, <1>1, <1>2, <1>3 DEF OpFacts

\* _revert_release_switch: current names the old release again.
LEMMA RevertCurrentKeeps ==
    ASSUME DeployInv, RevertCurrent
    PROVE  DeployInv'
  <1>0. /\ op \in Jobs /\ op # NoOp /\ op.pc = "vcurrent" /\ op.ret \in Rets /\ op.kind \in Kinds
        /\ DeployTypes /\ Lasting /\ OpFacts /\ op.old \in Links /\ op.target \in Links
    BY JobFields DEF RevertCurrent, At, DeployInv, DeployTypes
  <1>1. CASE current \notin {RevertsTo, RevertsFrom}
    <2>1. /\ Unwind /\ op.pc # "starting"
          /\ UNCHANGED <<current, previous, dirs, enabled, netstate, tx, snaps, config, torn>>
          /\ running' = running /\ checked' = checked
      BY <1>0, <1>1 DEF RevertCurrent
    <2> QED BY <1>0, <2>1, Unwound
  <1>2. CASE current \in {RevertsTo, RevertsFrom}
    <2>a. RevertsFrom \in Release /\ RevertsTo \in Links
      BY <1>0, TxIs DEF DeployTypes, OpFacts
    <2>1. Go("vprevious") /\ outcome' = outcome
      BY <1>0, <1>2 DEF RevertCurrent
    <2>2. "vprevious" \in Steps
      BY DEF Steps, Rets, Settling, Reverting, Guarded
    <2>3. /\ op' \in Jobs /\ op' # NoOp /\ op'.pc = "vprevious" /\ op'.ret = op.ret
          /\ SameJob /\ SameMarks
      BY <1>0, <2>1, <2>2, WentTo
    <2>4. /\ current' = RevertsTo /\ RevertsTo \in Links
          /\ UNCHANGED <<previous, dirs, running, checked, enabled, netstate, tx, snaps,
                         config, torn>>
      BY <1>0, <1>2, <2>a DEF RevertCurrent, Go, Call
    <2>5. DeployTypes' /\ Lasting'
      <3>1. DeployTypes'
        BY <1>0, <1>2, <2>3, <2>4, <2>a DEF DeployTypes, Links
      <3>2. Recoverable'
        BY <1>0, <1>2, <2>4, <2>a DEF OpFacts, Lasting, Recoverable
      <3>3. running = None /\ checked = FALSE
        BY <1>0, TxIs DEF OpFacts, Lasting, DeployTypes
      <3>4. current' # None => netstate = "marked" /\ config.set
        <4>1. CASE op.ret = "rold"
          BY <1>0, <2>4, <4>1 DEF OpFacts, Lasting
        <4>2. CASE op.ret = "restart"
          BY <1>0, <2>4, <4>2, <2>a, ReleaseAssumption DEF OpFacts, Lasting
        <4> QED BY <1>0, <4>1, <4>2 DEF OpFacts
      <3>5. enabled => current' # None
        BY <1>0, <2>4 DEF OpFacts, Lasting
      <3>6. Lasting'
        BY <1>0, <2>4, <3>2, <3>3, <3>4, <3>5 DEF Lasting
      <3> QED BY <3>1, <3>6
    <2>6. OpFacts'
      BY <1>0, <1>2, <2>1, <2>3, <2>4 DEF OpFacts
    <2> QED BY <1>0, <2>1, <2>5, <2>6, NoReport
  <1> QED BY <1>1, <1>2

\* _revert_release_switch: previous names the new one.
LEMMA RevertPreviousKeeps ==
    ASSUME DeployInv, RevertPrevious
    PROVE  DeployInv'
  <1>0. /\ op \in Jobs /\ op # NoOp /\ op.pc = "vprevious" /\ op.ret \in Rets /\ op.kind \in Kinds
        /\ DeployTypes /\ Lasting /\ OpFacts /\ op.old \in Links /\ op.target \in Links
    BY JobFields DEF RevertPrevious, At, DeployInv, DeployTypes
  <1>1. DeployInv'
    <2>a. RevertsFrom \in Release /\ RevertsTo \in Links
      BY <1>0, TxIs DEF DeployTypes, OpFacts
    <2>1. Go("vunlink") /\ outcome' = outcome
      BY <1>0 DEF RevertPrevious
    <2>2. "vunlink" \in Steps
      BY DEF Steps, Rets, Settling, Reverting, Guarded
    <2>3. /\ op' \in Jobs /\ op' # NoOp /\ op'.pc = "vunlink" /\ op'.ret = op.ret
          /\ SameJob /\ SameMarks
      BY <1>0, <2>1, <2>2, WentTo
    <2>4. previous' = RevertsFrom /\ UNCHANGED <<current, dirs, running, checked, enabled,
                                            netstate, tx, snaps, config, torn>>
      BY <1>0, <2>a DEF RevertPrevious, Go, Call
    <2>5. DeployTypes' /\ Lasting'
      <3>1. DeployTypes'
        BY <1>0, <2>3, <2>4, <2>a DEF DeployTypes, Links
      <3>2. Recoverable'
        BY <1>0, <2>4, <2>a DEF OpFacts, Lasting, Recoverable
      <3>3. Lasting'
        BY <1>0, <2>4, <3>2, <2>a DEF OpFacts, Lasting
      <3> QED BY <3>1, <3>3
    <2>6. OpFacts'
      BY <1>0, <2>1, <2>3, <2>4 DEF OpFacts
    <2> QED BY <1>0, <2>1, <2>5, <2>6, NoReport
  <1> QED BY <1>1

\* _revert_release_switch: the transaction is over.
LEMMA RevertUnlinkKeeps ==
    ASSUME DeployInv, RevertUnlink
    PROVE  DeployInv'
  <1>0. /\ op \in Jobs /\ op # NoOp /\ op.pc = "vunlink" /\ op.ret \in Rets /\ op.kind \in Kinds
        /\ DeployTypes /\ Lasting /\ OpFacts /\ op.old \in Links /\ op.target \in Links
    BY JobFields DEF RevertUnlink, At, DeployInv, DeployTypes
  <1>1. CASE op.ret = "rold"
    <2>1. Go("rold") /\ outcome' = outcome
      BY <1>0, <1>1 DEF RevertUnlink
    <2>2. "rold" \in Steps
      BY DEF Steps, Rets, Settling, Reverting, Guarded
    <2>3. /\ op' \in Jobs /\ op' # NoOp /\ op'.pc = "rold" /\ op'.ret = op.ret
          /\ SameJob /\ SameMarks
      BY <1>0, <2>1, <2>2, WentTo
    <2>4. tx' = NoTx /\ UNCHANGED <<current, previous, dirs, running, checked, enabled,
                                    netstate, snaps, config, torn>>
      BY <1>0, <1>1, TxIs DEF RevertUnlink, Go, Call
    <2>5. DeployTypes' /\ Lasting'
      <3>1. DeployTypes'
        BY <1>0, <1>1, <2>3, <2>4, TxIs DEF DeployTypes, Links
      <3>2. Recoverable'
        BY <1>0, <1>1, <2>4, TxIs DEF OpFacts, Lasting, Recoverable
      <3>3. Lasting'
        BY <1>0, <1>1, <2>4, <3>2, TxIs DEF OpFacts, Lasting
      <3> QED BY <3>1, <3>3
    <2>6. OpFacts'
      BY <1>0, <1>1, <2>1, <2>3, <2>4, TxIs, ReleaseAssumption DEF OpFacts
    <2> QED BY <1>0, <2>1, <2>5, <2>6, NoReport
  <1>2. CASE op.ret = "restart"
    <2>1. Go("restart") /\ outcome' = outcome
      BY <1>0, <1>2 DEF RevertUnlink
    <2>2. "restart" \in Steps
      BY DEF Steps, Rets, Settling, Reverting, Guarded
    <2>3. /\ op' \in Jobs /\ op' # NoOp /\ op'.pc = "restart" /\ op'.ret = op.ret
          /\ SameJob /\ SameMarks
      BY <1>0, <2>1, <2>2, WentTo
    <2>4. tx' = NoTx /\ UNCHANGED <<current, previous, dirs, running, checked, enabled,
                                    netstate, snaps, config, torn>>
      BY <1>0, <1>2, TxIs DEF RevertUnlink, Go, Call
    <2>5. DeployTypes' /\ Lasting'
      <3>1. DeployTypes'
        BY <1>0, <1>2, <2>3, <2>4, TxIs DEF DeployTypes, Links
      <3>2. Recoverable'
        BY <1>0, <1>2, <2>4, TxIs DEF OpFacts, Lasting, Recoverable
      <3>3. Lasting'
        BY <1>0, <1>2, <2>4, <3>2, TxIs DEF OpFacts, Lasting
      <3> QED BY <3>1, <3>3
    <2>6. OpFacts'
      BY <1>0, <1>2, <2>1, <2>3, <2>4, TxIs, ReleaseAssumption DEF OpFacts
    <2> QED BY <1>0, <2>1, <2>5, <2>6, NoReport
  <1> QED BY <1>0, <1>1, <1>2 DEF OpFacts

\* What was pending is over: the deployment begins, or the operation ends.
LEMMA RecoveredKeeps ==
    ASSUME DeployInv, Recovered
    PROVE  DeployInv'
  <1>0. /\ op \in Jobs /\ op # NoOp /\ op.pc = "recovered" /\ op.ret \in Rets /\ op.kind \in Kinds
        /\ DeployTypes /\ Lasting /\ OpFacts /\ op.old \in Links /\ op.target \in Links
    BY JobFields DEF Recovered, At, DeployInv, DeployTypes
  <1>1. CASE op.kind \in {"install", "rollback"}
    <2> DEFINE step == IF op.kind = "install" THEN "load" ELSE "rollback"
    <2>1. /\ op' = [op EXCEPT !.pc = step, !.old = current, !.before = config]
          /\ outcome' = outcome /\ UNCHANGED lasting
      BY <1>1 DEF Recovered
    <2>2. step \in Steps /\ current \in Links /\ config \in Confs
      BY <1>0 DEF Steps, DeployTypes
    <2> HIDE DEF step
    <2>3. /\ op' \in Jobs /\ op'.pc = step /\ op'.ret = op.ret /\ SameMarks
          /\ op'.kind = op.kind /\ op'.target = op.target /\ op'.old = current
          /\ op'.before = config
      BY <1>0, <2>1, <2>2 DEF Jobs
    <2>4. op' # NoOp
      BY <2>3, JobFields
    <2>5. DeployTypes' /\ Lasting'
      BY <1>0, <2>1, <2>3, LastingStays
    <2>6. OpFacts'
      BY <1>0, <1>1, <2>1, <2>3, <2>4 DEF OpFacts, step, Lasting, Recoverable
    <2> QED BY <1>0, <2>1, <2>5, <2>6, NoReport
  <1>2. CASE op.kind \notin {"install", "rollback"}
    <2>1. /\ End("ok") /\ checked' = (op.kind = "servicestart")
          /\ UNCHANGED <<current, previous, dirs, running, enabled, netstate, tx, snaps,
                         config, torn>>
      BY <1>2 DEF Recovered
    <2>2. op' \in Jobs \cup {NoOp} /\ checked' \in BOOLEAN
      BY <2>1 DEF End
    <2>3. DeployTypes'
      BY <1>0, <2>1, <2>2 DEF DeployTypes
    <2>4. Recoverable'
      BY <1>0, <2>1 DEF Lasting, Recoverable
    <2>5. checked' => tx = NoTx /\ current # None
      BY <1>0, <2>1 DEF OpFacts, Lasting
    <2>6. Lasting'
      BY <1>0, <2>1, <2>4, <2>5 DEF Lasting
    <2> QED BY <1>0, <1>2, <2>1, <2>3, <2>6, Ended
  <1> QED BY <1>1, <1>2

\* The release is unpacked beside the others.
LEMMA StageReleaseKeeps ==
    ASSUME DeployInv, StageRelease
    PROVE  DeployInv'
  <1>0. /\ op \in Jobs /\ op # NoOp /\ op.pc = "stage" /\ op.ret \in Rets /\ op.kind \in Kinds
        /\ DeployTypes /\ Lasting /\ OpFacts /\ op.old \in Links /\ op.target \in Links
    BY JobFields DEF StageRelease, At, DeployInv, DeployTypes
  <1>1. DeployInv'
    <2>1. Go("prepare") /\ outcome' = outcome
      BY <1>0 DEF StageRelease
    <2>2. "prepare" \in Steps
      BY DEF Steps, Rets, Settling, Reverting, Guarded
    <2>3. /\ op' \in Jobs /\ op' # NoOp /\ op'.pc = "prepare" /\ op'.ret = op.ret
          /\ SameJob /\ SameMarks
      BY <1>0, <2>1, <2>2, WentTo
    <2>4. UNCHANGED lasting
      BY <1>0 DEF StageRelease
    <2>5. DeployTypes' /\ Lasting'
      BY <1>0, <2>3, <2>4, LastingStays
    <2>6. OpFacts'
      BY <1>0, <2>1, <2>3, <2>4 DEF OpFacts
    <2> QED BY <1>0, <2>1, <2>5, <2>6, NoReport
  <1> QED BY <1>1

\* The rename that completes a release.
LEMMA PrepareReleaseKeeps ==
    ASSUME DeployInv, PrepareRelease
    PROVE  DeployInv'
  <1>0. /\ op \in Jobs /\ op # NoOp /\ op.pc = "prepare" /\ op.ret \in Rets /\ op.kind \in Kinds
        /\ DeployTypes /\ Lasting /\ OpFacts /\ op.old \in Links /\ op.target \in Links
    BY JobFields DEF PrepareRelease, At, DeployInv, DeployTypes
  <1>1. CASE Quiesces
    <2>a. op.target \in Release
      BY <1>0 DEF OpFacts
    <2>1. Go("quiesce") /\ outcome' = outcome
      BY <1>0, <1>1 DEF PrepareRelease
    <2>2. "quiesce" \in Steps
      BY DEF Steps, Rets, Settling, Reverting, Guarded
    <2>3. /\ op' \in Jobs /\ op' # NoOp /\ op'.pc = "quiesce" /\ op'.ret = op.ret
          /\ SameJob /\ SameMarks
      BY <1>0, <2>1, <2>2, WentTo
    <2>4. dirs' = dirs \cup {op.target} /\ UNCHANGED <<current, previous, running, checked,
                                                       enabled, netstate, tx, snaps, config,
                                                            torn>>
      BY <1>0, <1>1, <2>a DEF PrepareRelease, Go, Call
    <2>5. DeployTypes' /\ Lasting'
      <3>1. DeployTypes'
        BY <1>0, <1>1, <2>3, <2>4, <2>a DEF DeployTypes, Links
      <3>2. Recoverable'
        BY <1>0, <1>1, <2>4, <2>a DEF OpFacts, Lasting, Recoverable
      <3>3. Lasting'
        BY <1>0, <1>1, <2>4, <3>2, <2>a DEF OpFacts, Lasting
      <3> QED BY <3>1, <3>3
    <2>6. OpFacts'
      BY <1>0, <1>1, <2>1, <2>3, <2>4 DEF OpFacts
    <2> QED BY <1>0, <2>1, <2>5, <2>6, NoReport
  <1>2. CASE ~Quiesces
    <2>a. op.target \in Release
      BY <1>0 DEF OpFacts
    <2>1. Go("assets") /\ outcome' = outcome
      BY <1>0, <1>2 DEF PrepareRelease
    <2>2. "assets" \in Steps
      BY DEF Steps, Rets, Settling, Reverting, Guarded
    <2>3. /\ op' \in Jobs /\ op' # NoOp /\ op'.pc = "assets" /\ op'.ret = op.ret
          /\ SameJob /\ SameMarks
      BY <1>0, <2>1, <2>2, WentTo
    <2>4. dirs' = dirs \cup {op.target} /\ UNCHANGED <<current, previous, running, checked,
                                                       enabled, netstate, tx, snaps, config,
                                                            torn>>
      BY <1>0, <1>2, <2>a DEF PrepareRelease, Go, Call
    <2>5. DeployTypes' /\ Lasting'
      <3>1. DeployTypes'
        BY <1>0, <1>2, <2>3, <2>4, <2>a DEF DeployTypes, Links
      <3>2. Recoverable'
        BY <1>0, <1>2, <2>4, <2>a DEF OpFacts, Lasting, Recoverable
      <3>3. Lasting'
        BY <1>0, <1>2, <2>4, <3>2, <2>a DEF OpFacts, Lasting
      <3> QED BY <3>1, <3>3
    <2>6. OpFacts'
      BY <1>0, <1>2, <2>1, <2>3, <2>4 DEF OpFacts
    <2> QED BY <1>0, <2>1, <2>5, <2>6, NoReport
  <1> QED BY <1>1, <1>2

\* The services are stopped, and waited for.
LEMMA QuiesceKeeps ==
    ASSUME DeployInv, Quiesce
    PROVE  DeployInv'
  <1>0. /\ op \in Jobs /\ op # NoOp /\ op.pc = "quiesce" /\ op.ret \in Rets /\ op.kind \in Kinds
        /\ DeployTypes /\ Lasting /\ OpFacts /\ op.old \in Links /\ op.target \in Links
    BY JobFields DEF Quiesce, At, DeployInv, DeployTypes
  <1>1. CASE op.ret = "restoretx"
    <2>1. Go("restoretx") /\ outcome' = outcome
      BY <1>0, <1>1 DEF Quiesce
    <2>2. "restoretx" \in Steps
      BY DEF Steps, Rets, Settling, Reverting, Guarded
    <2>3. /\ op' \in Jobs /\ op' # NoOp /\ op'.pc = "restoretx" /\ op'.ret = op.ret
          /\ SameJob /\ SameMarks
      BY <1>0, <2>1, <2>2, WentTo
    <2>4. /\ running' = None /\ checked' = FALSE
          /\ UNCHANGED <<current, previous, dirs, enabled, netstate, tx, snaps, config, torn>>
      BY <1>0, <1>1 DEF Quiesce, Go, Call
    <2>5. DeployTypes' /\ Lasting'
      <3>1. DeployTypes'
        BY <1>0, <1>1, <2>3, <2>4 DEF DeployTypes, Links
      <3>2. Recoverable'
        BY <1>0, <1>1, <2>4 DEF OpFacts, Lasting, Recoverable
      <3>3. Lasting'
        BY <1>0, <1>1, <2>4, <3>2 DEF OpFacts, Lasting
      <3> QED BY <3>1, <3>3
    <2>6. OpFacts'
      BY <1>0, <1>1, <2>1, <2>3, <2>4 DEF OpFacts
    <2> QED BY <1>0, <2>1, <2>5, <2>6, NoReport
  <1>2. CASE op.ret # "restoretx" /\ op.kind = "rollback"
    <2>1. Go("snapcurrent") /\ outcome' = outcome
      BY <1>0, <1>2 DEF Quiesce
    <2>2. "snapcurrent" \in Steps
      BY DEF Steps, Rets, Settling, Reverting, Guarded
    <2>3. /\ op' \in Jobs /\ op' # NoOp /\ op'.pc = "snapcurrent" /\ op'.ret = op.ret
          /\ SameJob /\ SameMarks
      BY <1>0, <2>1, <2>2, WentTo
    <2>4. /\ running' = None /\ checked' = FALSE
          /\ UNCHANGED <<current, previous, dirs, enabled, netstate, tx, snaps, config, torn>>
      BY <1>0, <1>2 DEF Quiesce, Go, Call
    <2>5. DeployTypes' /\ Lasting'
      <3>1. DeployTypes'
        BY <1>0, <1>2, <2>3, <2>4 DEF DeployTypes, Links
      <3>2. Recoverable'
        BY <1>0, <1>2, <2>4 DEF OpFacts, Lasting, Recoverable
      <3>3. Lasting'
        BY <1>0, <1>2, <2>4, <3>2 DEF OpFacts, Lasting
      <3> QED BY <3>1, <3>3
    <2>6. OpFacts'
      BY <1>0, <1>2, <2>1, <2>3, <2>4 DEF OpFacts
    <2> QED BY <1>0, <2>1, <2>5, <2>6, NoReport
  <1>3. CASE op.ret # "restoretx" /\ op.kind = "install"
    <2>1. Go("assets") /\ outcome' = outcome
      BY <1>0, <1>3 DEF Quiesce
    <2>2. "assets" \in Steps
      BY DEF Steps, Rets, Settling, Reverting, Guarded
    <2>3. /\ op' \in Jobs /\ op' # NoOp /\ op'.pc = "assets" /\ op'.ret = op.ret
          /\ SameJob /\ SameMarks
      BY <1>0, <2>1, <2>2, WentTo
    <2>4. /\ running' = None /\ checked' = FALSE
          /\ UNCHANGED <<current, previous, dirs, enabled, netstate, tx, snaps, config, torn>>
      BY <1>0, <1>3 DEF Quiesce, Go, Call
    <2>5. DeployTypes' /\ Lasting'
      <3>1. DeployTypes'
        BY <1>0, <1>3, <2>3, <2>4 DEF DeployTypes, Links
      <3>2. Recoverable'
        BY <1>0, <1>3, <2>4 DEF OpFacts, Lasting, Recoverable
      <3>3. Lasting'
        BY <1>0, <1>3, <2>4, <3>2 DEF OpFacts, Lasting
      <3> QED BY <3>1, <3>3
    <2>6. OpFacts'
      BY <1>0, <1>3, <2>1, <2>3, <2>4 DEF OpFacts
    <2> QED BY <1>0, <2>1, <2>5, <2>6, NoReport
  <1> QED BY <1>0, <1>1, <1>2, <1>3 DEF OpFacts

\* The configuration of the old release is kept.
LEMMA SnapshotOldKeeps ==
    ASSUME DeployInv, SnapshotOld
    PROVE  DeployInv'
  <1>0. /\ op \in Jobs /\ op # NoOp /\ op.pc = "snapold" /\ op.ret \in Rets /\ op.kind \in Kinds
        /\ DeployTypes /\ Lasting /\ OpFacts /\ op.old \in Links /\ op.target \in Links
    BY JobFields DEF SnapshotOld, At, DeployInv, DeployTypes
  <1>1. CASE config.set
    <2>a. op.old \in Release
      BY <1>0, <1>1 DEF OpFacts, Links
    <2>1. op' = [op EXCEPT !.pc = "network", !.snapped = TRUE] /\ outcome' = outcome
      BY <1>0, <1>1 DEF SnapshotOld
    <2>2. "network" \in Steps
      BY DEF Steps, Guarded
    <2>3. /\ op' \in Jobs /\ op' # NoOp /\ op'.pc = "network" /\ op'.ret = op.ret
          /\ SameJob /\ op'.snapped = TRUE /\ op'.started = op.started
      BY <1>0, <2>1, <2>2, Noted
    <2>4. /\ snaps' \in [Release -> Confs] /\ snaps'[op.old] = config
          /\ \A r \in Release : r # op.old => snaps'[r] = snaps[r]
          /\ UNCHANGED <<current, previous, dirs, running, checked, enabled, netstate, tx,
                         config, torn>>
      BY <1>0, <1>1, <2>a DEF SnapshotOld, Go, Call, DeployTypes
    <2>5. DeployTypes' /\ Lasting'
      <3>1. DeployTypes'
        BY <1>0, <1>1, <2>3, <2>4, <2>a DEF DeployTypes, Links
      <3>2. Recoverable'
        BY <1>0, <1>1, <2>4, <2>a DEF OpFacts, Lasting, Recoverable
      <3>3. Lasting'
        BY <1>0, <1>1, <2>4, <3>2, <2>a DEF OpFacts, Lasting
      <3> QED BY <3>1, <3>3
    <2>6. OpFacts'
      BY <1>0, <1>1, <2>1, <2>3, <2>4, <2>a DEF OpFacts
    <2> QED BY <1>0, <2>1, <2>5, <2>6, NoReport
  <1>2. CASE ~config.set
    <2>1. /\ Unwind /\ op.pc # "starting"
          /\ UNCHANGED <<current, previous, dirs, enabled, netstate, tx, snaps, config, torn>>
          /\ running' = running /\ checked' = checked
      BY <1>0, <1>2 DEF SnapshotOld
    <2> QED BY <1>0, <2>1, Unwound
  <1> QED BY <1>1, <1>2

\* The network state of an older layout is copied.
LEMMA CopyNetworkStateKeeps ==
    ASSUME DeployInv, CopyNetworkState
    PROVE  DeployInv'
  <1>0. /\ op \in Jobs /\ op # NoOp /\ op.pc = "network" /\ op.ret \in Rets /\ op.kind \in Kinds
        /\ DeployTypes /\ Lasting /\ OpFacts /\ op.old \in Links /\ op.target \in Links
    BY JobFields DEF CopyNetworkState, At, DeployInv, DeployTypes
  <1>1. DeployInv'
    <2>1. Go("marker") /\ outcome' = outcome
      BY <1>0 DEF CopyNetworkState
    <2>2. "marker" \in Steps
      BY DEF Steps, Rets, Settling, Reverting, Guarded
    <2>3. /\ op' \in Jobs /\ op' # NoOp /\ op'.pc = "marker" /\ op'.ret = op.ret
          /\ SameJob /\ SameMarks
      BY <1>0, <2>1, <2>2, WentTo
    <2>4. /\ netstate' \in {"copied", netstate}
          /\ netstate = "marked" => netstate' = netstate
          /\ UNCHANGED <<current, previous, dirs, running, checked, enabled, tx, snaps,
                         config, torn>>
      BY <1>0 DEF CopyNetworkState, Go, Call
    <2>5. DeployTypes' /\ Lasting'
      <3>1. DeployTypes'
        BY <1>0, <2>3, <2>4 DEF DeployTypes, Links
      <3>2. Recoverable'
        BY <1>0, <2>4 DEF OpFacts, Lasting, Recoverable
      <3>3. Lasting'
        BY <1>0, <2>4, <3>2 DEF OpFacts, Lasting
      <3> QED BY <3>1, <3>3
    <2>6. OpFacts'
      BY <1>0, <2>1, <2>3, <2>4 DEF OpFacts
    <2> QED BY <1>0, <2>1, <2>5, <2>6, NoReport
  <1> QED BY <1>1

\* Its marker is written.
LEMMA MarkNetworkStateKeeps ==
    ASSUME DeployInv, MarkNetworkState
    PROVE  DeployInv'
  <1>0. /\ op \in Jobs /\ op # NoOp /\ op.pc = "marker" /\ op.ret \in Rets /\ op.kind \in Kinds
        /\ DeployTypes /\ Lasting /\ OpFacts /\ op.old \in Links /\ op.target \in Links
    BY JobFields DEF MarkNetworkState, At, DeployInv, DeployTypes
  <1>1. CASE Changed
    <2>1. Go("transaction") /\ outcome' = outcome
      BY <1>0, <1>1 DEF MarkNetworkState
    <2>2. "transaction" \in Steps
      BY DEF Steps, Rets, Settling, Reverting, Guarded
    <2>3. /\ op' \in Jobs /\ op' # NoOp /\ op'.pc = "transaction" /\ op'.ret = op.ret
          /\ SameJob /\ SameMarks
      BY <1>0, <2>1, <2>2, WentTo
    <2>4. netstate' = "marked" /\ UNCHANGED <<current, previous, dirs, running, checked,
                                              enabled, tx, snaps, config, torn>>
      BY <1>0, <1>1 DEF MarkNetworkState, Go, Call
    <2>5. DeployTypes' /\ Lasting'
      <3>1. DeployTypes'
        BY <1>0, <1>1, <2>3, <2>4 DEF DeployTypes, Links
      <3>2. Recoverable'
        BY <1>0, <1>1, <2>4 DEF OpFacts, Lasting, Recoverable
      <3>3. Lasting'
        BY <1>0, <1>1, <2>4, <3>2 DEF OpFacts, Lasting
      <3> QED BY <3>1, <3>3
    <2>6. OpFacts'
      BY <1>0, <1>1, <2>1, <2>3, <2>4 DEF OpFacts
    <2> QED BY <1>0, <2>1, <2>5, <2>6, NoReport
  <1>2. CASE ~Changed
    <2>1. Go("ensure") /\ outcome' = outcome
      BY <1>0, <1>2 DEF MarkNetworkState
    <2>2. "ensure" \in Steps
      BY DEF Steps, Rets, Settling, Reverting, Guarded
    <2>3. /\ op' \in Jobs /\ op' # NoOp /\ op'.pc = "ensure" /\ op'.ret = op.ret
          /\ SameJob /\ SameMarks
      BY <1>0, <2>1, <2>2, WentTo
    <2>4. netstate' = "marked" /\ UNCHANGED <<current, previous, dirs, running, checked,
                                              enabled, tx, snaps, config, torn>>
      BY <1>0, <1>2 DEF MarkNetworkState, Go, Call
    <2>5. DeployTypes' /\ Lasting'
      <3>1. DeployTypes'
        BY <1>0, <1>2, <2>3, <2>4 DEF DeployTypes, Links
      <3>2. Recoverable'
        BY <1>0, <1>2, <2>4 DEF OpFacts, Lasting, Recoverable
      <3>3. Lasting'
        BY <1>0, <1>2, <2>4, <3>2 DEF OpFacts, Lasting
      <3> QED BY <3>1, <3>3
    <2>6. OpFacts'
      BY <1>0, <1>2, <2>1, <2>3, <2>4 DEF OpFacts
    <2> QED BY <1>0, <2>1, <2>5, <2>6, NoReport
  <1> QED BY <1>1, <1>2

\* The transaction of an install, while nothing runs.
LEMMA WriteTransactionKeeps ==
    ASSUME DeployInv, WriteTransaction
    PROVE  DeployInv'
  <1>0. /\ op \in Jobs /\ op # NoOp /\ op.pc = "transaction"
        /\ op.ret \in Rets /\ op.kind \in Kinds
        /\ DeployTypes /\ Lasting /\ OpFacts /\ op.old \in Links /\ op.target \in Links
    BY JobFields DEF WriteTransaction, At, DeployInv, DeployTypes
  <1>1. DeployInv'
    <2>a. op.old \in Links /\ op.target \in Release
      BY <1>0, TxIs DEF OpFacts, Links, DeployTypes, Lasting, Recoverable
    <2>b. Quiet
      BY <1>0 DEF OpFacts, Lasting, Recoverable, DeployTypes
    <2>1. op' = [op EXCEPT !.pc = "ensure", !.started = TRUE] /\ outcome' = outcome
      BY <1>0 DEF WriteTransaction
    <2>2. "ensure" \in Steps
      BY DEF Steps, Guarded
    <2>3. /\ op' \in Jobs /\ op' # NoOp /\ op'.pc = "ensure" /\ op'.ret = op.ret
          /\ SameJob /\ op'.started = TRUE /\ op'.snapped = op.snapped
      BY <1>0, <2>1, <2>2, Noted
    <2>4. /\ tx' \in Transactions /\ tx' # NoTx /\ tx'.old = op.old /\ tx'.new = op.target
          /\ tx'.state = "prepared"
          /\ UNCHANGED <<current, previous, dirs, running, checked, enabled, netstate, snaps,
                         config, torn>>
      <3>1. /\ tx' = [old |-> op.old, new |-> op.target, state |-> "prepared"]
            /\ UNCHANGED <<current, previous, dirs, running, checked, enabled, netstate, snaps,
                           config, torn>>
        BY DEF WriteTransaction
      <3>2. /\ tx' \in Transactions /\ tx' # NoTx /\ tx'.old = op.old
            /\ tx'.new = op.target /\ tx'.state = "prepared"
        BY <2>a, <3>1, TxWritten
      <3> QED BY <3>1, <3>2
    <2>5. DeployTypes' /\ Lasting'
      <3>1. DeployTypes'
        BY <1>0, <2>3, <2>4, <2>a, <2>b, TxIs DEF DeployTypes, Links
      <3>2. Recoverable'
        BY <1>0, <2>4, <2>a, <2>b, TxIs DEF OpFacts, Lasting, Recoverable
      <3>3. Lasting'
        BY <1>0, <2>4, <3>2, <2>a, <2>b, TxIs DEF OpFacts, Lasting
      <3> QED BY <3>1, <3>3
    <2>6. OpFacts'
      BY <1>0, <2>1, <2>3, <2>4 DEF OpFacts
    <2> QED BY <1>0, <2>1, <2>5, <2>6, NoReport
  <1> QED BY <1>1

\* The configuration of the new release.
LEMMA EnsureConfigKeeps ==
    ASSUME DeployInv, EnsureConfig
    PROVE  DeployInv'
  <1>0. /\ op \in Jobs /\ op # NoOp /\ op.pc = "ensure" /\ op.ret \in Rets /\ op.kind \in Kinds
        /\ DeployTypes /\ Lasting /\ OpFacts /\ op.old \in Links /\ op.target \in Links
    BY JobFields DEF EnsureConfig, At, DeployInv, DeployTypes
  <1>1. DeployInv'
    <2>a. (IF config.set THEN config ELSE [config EXCEPT !.set = TRUE]) \in Confs
      BY <1>0 DEF DeployTypes, Confs
    <2>b. (IF config.set THEN config ELSE [config EXCEPT !.set = TRUE]).v = config.v
          /\ (IF config.set THEN config ELSE [config EXCEPT !.set = TRUE]).set = TRUE
      BY <1>0 DEF DeployTypes, Confs
    <2>1. Go("snapnew") /\ outcome' = outcome
      BY <1>0 DEF EnsureConfig
    <2>2. "snapnew" \in Steps
      BY DEF Steps, Rets, Settling, Reverting, Guarded
    <2>3. /\ op' \in Jobs /\ op' # NoOp /\ op'.pc = "snapnew" /\ op'.ret = op.ret
          /\ SameJob /\ SameMarks
      BY <1>0, <2>1, <2>2, WentTo
    <2>4. /\ config' \in Confs /\ config'.v = config.v /\ config'.set = TRUE
          /\ UNCHANGED <<current, previous, dirs, running, checked, enabled, netstate, tx,
                         snaps, torn>>
      BY <1>0, <2>a, <2>b, HttpIs DEF EnsureConfig, Go, Call
    <2>5. DeployTypes' /\ Lasting'
      <3>1. DeployTypes'
        BY <1>0, <2>3, <2>4, <2>a, <2>b, HttpIs DEF DeployTypes, Links
      <3>2. Recoverable'
        BY <1>0, <2>4, <2>a, <2>b, HttpIs DEF OpFacts, Lasting, Recoverable
      <3>3. Lasting'
        BY <1>0, <2>4, <3>2, <2>a, <2>b, HttpIs DEF OpFacts, Lasting
      <3> QED BY <3>1, <3>3
    <2>6. OpFacts'
      BY <1>0, <2>1, <2>3, <2>4 DEF OpFacts
    <2> QED BY <1>0, <2>1, <2>5, <2>6, NoReport
  <1> QED BY <1>1

\* Its snapshot.
LEMMA SnapshotNewKeeps ==
    ASSUME DeployInv, SnapshotNew
    PROVE  DeployInv'
  <1>0. /\ op \in Jobs /\ op # NoOp /\ op.pc = "snapnew" /\ op.ret \in Rets /\ op.kind \in Kinds
        /\ DeployTypes /\ Lasting /\ OpFacts /\ op.old \in Links /\ op.target \in Links
    BY JobFields DEF SnapshotNew, At, DeployInv, DeployTypes
  <1>1. DeployInv'
    <2>a. op.target \in Release /\ (op.old # None => op.old \in Release)
      BY <1>0 DEF OpFacts, DeployTypes, Links
    <2>1. Go("reload") /\ outcome' = outcome
      BY <1>0 DEF SnapshotNew
    <2>2. "reload" \in Steps
      BY DEF Steps, Rets, Settling, Reverting, Guarded
    <2>3. /\ op' \in Jobs /\ op' # NoOp /\ op'.pc = "reload" /\ op'.ret = op.ret
          /\ SameJob /\ SameMarks
      BY <1>0, <2>1, <2>2, WentTo
    <2>4. /\ snaps' \in [Release -> Confs] /\ snaps'[op.target] = config
          /\ \A r \in Release : r # op.target => snaps'[r] = snaps[r]
          /\ UNCHANGED <<current, previous, dirs, running, checked, enabled, netstate, tx,
                         config, torn>>
      BY <1>0, <2>a DEF SnapshotNew, Go, Call, DeployTypes
    <2>5. DeployTypes' /\ Lasting'
      <3>1. DeployTypes'
        BY <1>0, <2>3, <2>4, <2>a DEF DeployTypes, Links
      <3>2. Recoverable'
        BY <1>0, <2>4, <2>a DEF OpFacts, Lasting, Recoverable
      <3>3. Lasting'
        BY <1>0, <2>4, <3>2, <2>a DEF OpFacts, Lasting
      <3> QED BY <3>1, <3>3
    <2>6. OpFacts'
      BY <1>0, <2>1, <2>3, <2>4, <2>a DEF OpFacts
    <2> QED BY <1>0, <2>1, <2>5, <2>6, NoReport
  <1> QED BY <1>1

\* A rollback needs a complete previous release.
LEMMA RollbackAdmittedKeeps ==
    ASSUME DeployInv, RollbackAdmitted
    PROVE  DeployInv'
  <1>0. /\ op \in Jobs /\ op # NoOp /\ op.pc = "rollback" /\ op.ret \in Rets /\ op.kind \in Kinds
        /\ DeployTypes /\ Lasting /\ OpFacts /\ op.old \in Links /\ op.target \in Links
    BY JobFields DEF RollbackAdmitted, At, DeployInv, DeployTypes
  <1>1. CASE current = None \/ previous = None \/ ~Complete(previous)
    <2>1. /\ Unwind /\ op.pc # "starting"
          /\ UNCHANGED <<current, previous, dirs, enabled, netstate, tx, snaps, config, torn>>
          /\ running' = running /\ checked' = checked
      BY <1>0, <1>1 DEF RollbackAdmitted
    <2> QED BY <1>0, <2>1, Unwound
  <1>2. CASE ~(current = None \/ previous = None \/ ~Complete(previous))
    <2>1. op' = [op EXCEPT !.pc = "quiesce", !.target = previous] /\ outcome' = outcome
      BY <1>0, <1>2 DEF RollbackAdmitted
    <2>2. "quiesce" \in Steps /\ previous \in Links /\ previous \in dirs
      BY <1>0, <1>2 DEF Steps, DeployTypes
    <2>3. /\ op' \in Jobs /\ op' # NoOp /\ op'.pc = "quiesce" /\ op'.ret = op.ret /\ SameMarks
          /\ op'.kind = op.kind /\ op'.target = previous /\ op'.old = op.old
          /\ op'.act = op.act /\ op'.before = op.before
      <3>1. /\ op' \in Jobs /\ op'.pc = "quiesce" /\ op'.ret = op.ret /\ SameMarks
            /\ op'.kind = op.kind /\ op'.target = previous /\ op'.old = op.old
            /\ op'.act = op.act /\ op'.before = op.before
        BY <1>0, <2>1, <2>2 DEF Jobs
      <3> QED BY <3>1, JobFields
    <2>4. UNCHANGED lasting
      BY <1>0, <1>2 DEF RollbackAdmitted
    <2>5. DeployTypes' /\ Lasting'
      BY <1>0, <2>3, <2>4, LastingStays
    <2>6. OpFacts'
      BY <1>0, <1>2, <2>1, <2>3, <2>4, <2>2 DEF OpFacts
    <2> QED BY <1>0, <2>1, <2>5, <2>6, NoReport
  <1> QED BY <1>1, <1>2

\* The configuration of the current release is kept.
LEMMA SnapshotCurrentKeeps ==
    ASSUME DeployInv, SnapshotCurrent
    PROVE  DeployInv'
  <1>0. /\ op \in Jobs /\ op # NoOp /\ op.pc = "snapcurrent"
        /\ op.ret \in Rets /\ op.kind \in Kinds
        /\ DeployTypes /\ Lasting /\ OpFacts /\ op.old \in Links /\ op.target \in Links
    BY JobFields DEF SnapshotCurrent, At, DeployInv, DeployTypes
  <1>1. DeployInv'
    <2>a. op.old \in Release
      BY <1>0 DEF OpFacts, Links
    <2>b. config.set
      BY <1>0 DEF OpFacts, Lasting
    <2>1. op' = [op EXCEPT !.pc = "rtransaction", !.snapped = TRUE] /\ outcome' = outcome
      BY <1>0 DEF SnapshotCurrent
    <2>2. "rtransaction" \in Steps
      BY DEF Steps, Guarded
    <2>3. /\ op' \in Jobs /\ op' # NoOp /\ op'.pc = "rtransaction" /\ op'.ret = op.ret
          /\ SameJob /\ op'.snapped = TRUE /\ op'.started = op.started
      BY <1>0, <2>1, <2>2, Noted
    <2>4. /\ snaps' \in [Release -> Confs] /\ snaps'[op.old] = config
          /\ \A r \in Release : r # op.old => snaps'[r] = snaps[r]
          /\ UNCHANGED <<current, previous, dirs, running, checked, enabled, netstate, tx,
                         config, torn>>
      BY <1>0, <2>a DEF SnapshotCurrent, Go, Call, DeployTypes
    <2>5. DeployTypes' /\ Lasting'
      <3>1. DeployTypes'
        BY <1>0, <2>3, <2>4, <2>a DEF DeployTypes, Links
      <3>2. Recoverable'
        BY <1>0, <2>4, <2>a DEF OpFacts, Lasting, Recoverable
      <3>3. Lasting'
        BY <1>0, <2>4, <3>2, <2>a DEF OpFacts, Lasting
      <3> QED BY <3>1, <3>3
    <2>6. OpFacts'
      BY <1>0, <2>1, <2>3, <2>4, <2>a, <2>b DEF OpFacts
    <2> QED BY <1>0, <2>1, <2>5, <2>6, NoReport
  <1> QED BY <1>1

\* The transaction of a rollback, while nothing runs.
LEMMA RollbackTransactionKeeps ==
    ASSUME DeployInv, RollbackTransaction
    PROVE  DeployInv'
  <1>0. /\ op \in Jobs /\ op # NoOp /\ op.pc = "rtransaction"
        /\ op.ret \in Rets /\ op.kind \in Kinds
        /\ DeployTypes /\ Lasting /\ OpFacts /\ op.old \in Links /\ op.target \in Links
    BY JobFields DEF RollbackTransaction, At, DeployInv, DeployTypes
  <1>1. DeployInv'
    <2>a. op.old \in Links /\ op.target \in Release
      BY <1>0, TxIs DEF OpFacts, Links, DeployTypes, Lasting, Recoverable
    <2>b. Quiet
      BY <1>0 DEF OpFacts, Lasting, Recoverable, DeployTypes
    <2>1. op' = [op EXCEPT !.pc = "rconfig", !.started = TRUE] /\ outcome' = outcome
      BY <1>0 DEF RollbackTransaction
    <2>2. "rconfig" \in Steps
      BY DEF Steps, Guarded
    <2>3. /\ op' \in Jobs /\ op' # NoOp /\ op'.pc = "rconfig" /\ op'.ret = op.ret
          /\ SameJob /\ op'.started = TRUE /\ op'.snapped = op.snapped
      BY <1>0, <2>1, <2>2, Noted
    <2>4. /\ tx' \in Transactions /\ tx' # NoTx /\ tx'.old = op.old /\ tx'.new = op.target
          /\ tx'.state = "prepared"
          /\ UNCHANGED <<current, previous, dirs, running, checked, enabled, netstate, snaps,
                         config, torn>>
      <3>1. /\ tx' = [old |-> op.old, new |-> op.target, state |-> "prepared"]
            /\ UNCHANGED <<current, previous, dirs, running, checked, enabled, netstate, snaps,
                           config, torn>>
        BY DEF RollbackTransaction
      <3>2. /\ tx' \in Transactions /\ tx' # NoTx /\ tx'.old = op.old
            /\ tx'.new = op.target /\ tx'.state = "prepared"
        BY <2>a, <3>1, TxWritten
      <3> QED BY <3>1, <3>2
    <2>5. DeployTypes' /\ Lasting'
      <3>1. DeployTypes'
        BY <1>0, <2>3, <2>4, <2>a, <2>b, TxIs DEF DeployTypes, Links
      <3>2. Recoverable'
        BY <1>0, <2>4, <2>a, <2>b, TxIs DEF OpFacts, Lasting, Recoverable
      <3>3. Lasting'
        BY <1>0, <2>4, <3>2, <2>a, <2>b, TxIs DEF OpFacts, Lasting
      <3> QED BY <3>1, <3>3
    <2>6. OpFacts'
      BY <1>0, <2>1, <2>3, <2>4 DEF OpFacts
    <2> QED BY <1>0, <2>1, <2>5, <2>6, NoReport
  <1> QED BY <1>1

\* The configuration that goes with the release rolled back to.
LEMMA RollbackConfigKeeps ==
    ASSUME DeployInv, RollbackConfig
    PROVE  DeployInv'
  <1>0. /\ op \in Jobs /\ op # NoOp /\ op.pc = "rconfig" /\ op.ret \in Rets /\ op.kind \in Kinds
        /\ DeployTypes /\ Lasting /\ OpFacts /\ op.old \in Links /\ op.target \in Links
    BY JobFields DEF RollbackConfig, At, DeployInv, DeployTypes
  <1>1. CASE snaps[op.target].set
    <2>a. snaps[op.target] \in Confs
      BY <1>0, <1>1, TxIs DEF DeployTypes, OpFacts, Links
    <2>1. Call("switch", "activate") /\ outcome' = outcome
      BY <1>0, <1>1 DEF RollbackConfig
    <2>2. "switch" \in Steps /\ "activate" \in Rets
      BY DEF Steps, Rets, Settling, Reverting, Guarded
    <2>3. /\ op' \in Jobs /\ op' # NoOp /\ op'.pc = "switch" /\ op'.ret = "activate"
          /\ SameJob /\ SameMarks
      BY <1>0, <2>1, <2>2, Called
    <2>4. /\ config' \in Confs /\ config'.v = snaps[op.target].v
          /\ config'.set = snaps[op.target].set
          /\ UNCHANGED <<current, previous, dirs, running, checked, enabled, netstate, tx,
                         snaps, torn>>
      BY <1>0, <1>1, <2>a, HttpIs DEF RollbackConfig, Go, Call
    <2>5. DeployTypes' /\ Lasting'
      <3>1. DeployTypes'
        BY <1>0, <1>1, <2>3, <2>4, <2>a, HttpIs DEF DeployTypes, Links
      <3>2. Recoverable'
        BY <1>0, <1>1, <2>4, <2>a, HttpIs DEF OpFacts, Lasting, Recoverable
      <3>3. Lasting'
        BY <1>0, <1>1, <2>4, <3>2, <2>a, HttpIs DEF OpFacts, Lasting
      <3> QED BY <3>1, <3>3
    <2>6. OpFacts'
      BY <1>0, <1>1, <2>1, <2>3, <2>4 DEF OpFacts
    <2> QED BY <1>0, <2>1, <2>5, <2>6, NoReport
  <1>2. CASE ~snaps[op.target].set
    <2>1. Go("undo") /\ outcome' = outcome
      BY <1>0, <1>2 DEF RollbackConfig
    <2>2. "undo" \in Steps
      BY DEF Steps, Rets, Settling, Reverting, Guarded
    <2>3. /\ op' \in Jobs /\ op' # NoOp /\ op'.pc = "undo" /\ op'.ret = op.ret
          /\ SameJob /\ SameMarks
      BY <1>0, <2>1, <2>2, WentTo
    <2>4. UNCHANGED lasting
      BY <1>0, <1>2 DEF RollbackConfig
    <2>5. DeployTypes' /\ Lasting'
      BY <1>0, <2>3, <2>4, LastingStays
    <2>6. OpFacts'
      BY <1>0, <1>2, <2>1, <2>3, <2>4 DEF OpFacts
    <2> QED BY <1>0, <2>1, <2>5, <2>6, NoReport
  <1> QED BY <1>1, <1>2

\* The except clause: the configuration, then the links, as they were.
LEMMA UndoKeeps ==
    ASSUME DeployInv, Undo
    PROVE  DeployInv'
  <1>0. /\ op \in Jobs /\ op # NoOp /\ op.pc = "undo" /\ op.ret \in Rets /\ op.kind \in Kinds
        /\ DeployTypes /\ Lasting /\ OpFacts /\ op.old \in Links /\ op.target \in Links
    BY JobFields DEF Undo, At, DeployInv, DeployTypes
  <1>1. CASE (IF op.kind = "install" THEN op.old # None ELSE op.snapped) /\ ~snaps[op.old].set
    <2>1. /\ Unwind /\ op.pc # "starting"
          /\ UNCHANGED <<current, previous, dirs, enabled, netstate, tx, snaps, config, torn>>
          /\ running' = running /\ checked' = checked
      BY <1>0, <1>1 DEF Undo
    <2> QED BY <1>0, <2>1, Unwound
  <1>2. CASE op.started /\ (IF op.kind = "install" THEN op.old # None ELSE op.snapped)
        /\ snaps[op.old].set
    <2>z. op.old # None
      BY <1>0, <1>2 DEF OpFacts
    <2>a. snaps[op.old] \in Confs
      BY <1>0, <1>2, <2>z, TxIs DEF DeployTypes, OpFacts, Links
    <2>b. config' = Http(snaps[op.old])
      BY <1>0, <1>2 DEF Undo
    <2>1. Call("vcurrent", "restart") /\ outcome' = outcome
      BY <1>0, <1>2 DEF Undo
    <2>2. "vcurrent" \in Steps /\ "restart" \in Rets
      BY DEF Steps, Rets, Settling, Reverting, Guarded
    <2>3. /\ op' \in Jobs /\ op' # NoOp /\ op'.pc = "vcurrent" /\ op'.ret = "restart"
          /\ SameJob /\ SameMarks
      BY <1>0, <2>1, <2>2, Called
    <2>4. /\ config' \in Confs /\ config'.v = snaps[op.old].v /\ config'.set = snaps[op.old].set
          /\ UNCHANGED <<current, previous, dirs, running, checked, enabled, netstate, tx,
                         snaps, torn>>
      BY <1>0, <1>2, <2>a, <2>b, HttpIs, TxIs DEF Undo, Go, Call
    <2>5. DeployTypes' /\ Lasting'
      <3>1. DeployTypes'
        BY <1>0, <1>2, <2>3, <2>4, <2>a, <2>b, HttpIs, TxIs DEF DeployTypes, Links
      <3>2. Recoverable'
        BY <1>0, <1>2, <2>4, <2>a, <2>b, HttpIs, TxIs DEF OpFacts, Lasting, Recoverable
      <3>3. Lasting'
        BY <1>0, <1>2, <2>4, <3>2, <2>a, <2>b, HttpIs, TxIs DEF OpFacts, Lasting
      <3> QED BY <3>1, <3>3
    <2>6. OpFacts'
      BY <1>0, <1>2, <2>1, <2>3, <2>4 DEF OpFacts
    <2> QED BY <1>0, <2>1, <2>5, <2>6, NoReport
  <1>3. CASE op.started /\ ~(IF op.kind = "install" THEN op.old # None ELSE op.snapped)
    <2>1. Call("vcurrent", "restart") /\ outcome' = outcome
      BY <1>0, <1>3 DEF Undo
    <2>2. "vcurrent" \in Steps /\ "restart" \in Rets
      BY DEF Steps, Rets, Settling, Reverting, Guarded
    <2>3. /\ op' \in Jobs /\ op' # NoOp /\ op'.pc = "vcurrent" /\ op'.ret = "restart"
          /\ SameJob /\ SameMarks
      BY <1>0, <2>1, <2>2, Called
    <2>4. UNCHANGED lasting
      BY <1>0, <1>3 DEF Undo
    <2>5. DeployTypes' /\ Lasting'
      BY <1>0, <2>3, <2>4, LastingStays
    <2>6. OpFacts'
      BY <1>0, <1>3, <2>1, <2>3, <2>4 DEF OpFacts
    <2> QED BY <1>0, <2>1, <2>5, <2>6, NoReport
  <1>4. CASE ~op.started /\ (IF op.kind = "install" THEN op.old # None ELSE op.snapped)
        /\ snaps[op.old].set
    <2>z. op.old # None
      BY <1>0, <1>4 DEF OpFacts
    <2>a. snaps[op.old] \in Confs
      BY <1>0, <1>4, <2>z, TxIs DEF DeployTypes, OpFacts, Links
    <2>b. config' = Http(snaps[op.old])
      BY <1>0, <1>4 DEF Undo
    <2>1. Call("restart", "restart") /\ outcome' = outcome
      BY <1>0, <1>4 DEF Undo
    <2>2. "restart" \in Steps /\ "restart" \in Rets
      BY DEF Steps, Rets, Settling, Reverting, Guarded
    <2>3. /\ op' \in Jobs /\ op' # NoOp /\ op'.pc = "restart" /\ op'.ret = "restart"
          /\ SameJob /\ SameMarks
      BY <1>0, <2>1, <2>2, Called
    <2>4. /\ config' \in Confs /\ config'.v = snaps[op.old].v /\ config'.set = snaps[op.old].set
          /\ UNCHANGED <<current, previous, dirs, running, checked, enabled, netstate, tx,
                         snaps, torn>>
      BY <1>0, <1>4, <2>a, <2>b, HttpIs, TxIs DEF Undo, Go, Call
    <2>5. DeployTypes' /\ Lasting'
      <3>1. DeployTypes'
        BY <1>0, <1>4, <2>3, <2>4, <2>a, <2>b, HttpIs, TxIs DEF DeployTypes, Links
      <3>2. Recoverable'
        BY <1>0, <1>4, <2>4, <2>a, <2>b, HttpIs, TxIs DEF OpFacts, Lasting, Recoverable
      <3>3. Lasting'
        BY <1>0, <1>4, <2>4, <3>2, <2>a, <2>b, HttpIs, TxIs DEF OpFacts, Lasting
      <3> QED BY <3>1, <3>3
    <2>6. OpFacts'
      BY <1>0, <1>4, <2>1, <2>3, <2>4 DEF OpFacts
    <2> QED BY <1>0, <2>1, <2>5, <2>6, NoReport
  <1>5. CASE ~op.started /\ ~(IF op.kind = "install" THEN op.old # None ELSE op.snapped)
    <2>1. Call("restart", "restart") /\ outcome' = outcome
      BY <1>0, <1>5 DEF Undo
    <2>2. "restart" \in Steps /\ "restart" \in Rets
      BY DEF Steps, Rets, Settling, Reverting, Guarded
    <2>3. /\ op' \in Jobs /\ op' # NoOp /\ op'.pc = "restart" /\ op'.ret = "restart"
          /\ SameJob /\ SameMarks
      BY <1>0, <2>1, <2>2, Called
    <2>4. UNCHANGED lasting
      BY <1>0, <1>5 DEF Undo
    <2>5. DeployTypes' /\ Lasting'
      BY <1>0, <2>3, <2>4, LastingStays
    <2>6. OpFacts'
      BY <1>0, <1>5, <2>1, <2>3, <2>4 DEF OpFacts
    <2> QED BY <1>0, <2>1, <2>5, <2>6, NoReport
  <1> QED BY <1>1, <1>2, <1>3, <1>4, <1>5

\* What was stopped is started again.
LEMMA RestartOldKeeps ==
    ASSUME DeployInv, RestartOld
    PROVE  DeployInv'
  <1>0. /\ op \in Jobs /\ op # NoOp /\ op.pc = "restart" /\ op.ret \in Rets /\ op.kind \in Kinds
        /\ DeployTypes /\ Lasting /\ OpFacts /\ op.old \in Links /\ op.target \in Links
    BY JobFields DEF RestartOld, At, DeployInv, DeployTypes
  <1>1. CASE Quiesces
    <2>1. Call("starting", "undone") /\ outcome' = outcome
      BY <1>0, <1>1 DEF RestartOld
    <2>2. "starting" \in Steps /\ "undone" \in Rets
      BY DEF Steps, Rets, Settling, Reverting, Guarded
    <2>3. /\ op' \in Jobs /\ op' # NoOp /\ op'.pc = "starting" /\ op'.ret = "undone"
          /\ SameJob /\ SameMarks
      BY <1>0, <2>1, <2>2, Called
    <2>4. enabled' = TRUE /\ UNCHANGED <<current, previous, dirs, running, checked, netstate,
                                         tx, snaps, config, torn>>
      BY <1>0, <1>1 DEF RestartOld, Go, Call
    <2>5. DeployTypes' /\ Lasting'
      <3>1. DeployTypes'
        BY <1>0, <1>1, <2>3, <2>4 DEF DeployTypes, Links
      <3>2. Recoverable'
        BY <1>0, <1>1, <2>4 DEF OpFacts, Lasting, Recoverable
      <3>3. Lasting'
        BY <1>0, <1>1, <2>4, <3>2 DEF OpFacts, Lasting
      <3> QED BY <3>1, <3>3
    <2>6. OpFacts'
      BY <1>0, <1>1, <2>1, <2>3, <2>4 DEF OpFacts
    <2> QED BY <1>0, <2>1, <2>5, <2>6, NoReport
  <1>2. CASE ~Quiesces
    <2>1. End("failed") /\ UNCHANGED lasting
      BY <1>0, <1>2 DEF RestartOld
    <2>2. op' \in Jobs \cup {NoOp}
      BY <2>1 DEF End
    <2>3. DeployTypes' /\ Lasting'
      BY <1>0, <2>1, <2>2, LastingStays
    <2>4. op.kind \in {"install", "rollback"} =>
            /\ current = op.old /\ (op.snapped => config.v = op.before.v)
            /\ tx # NoTx => op.old = None /\ tx.old = None /\ tx.new = op.target
      BY <1>0, <1>2 DEF OpFacts
    <2> QED BY <1>0, <2>1, <2>3, <2>4, Ended
  <1> QED BY <1>1, <1>2

\* The new release is started, if it is to be.
LEMMA ActivateKeeps ==
    ASSUME DeployInv, Activate
    PROVE  DeployInv'
  <1>0. /\ op \in Jobs /\ op # NoOp /\ op.pc = "activate" /\ op.ret \in Rets /\ op.kind \in Kinds
        /\ DeployTypes /\ Lasting /\ OpFacts /\ op.old \in Links /\ op.target \in Links
    BY JobFields DEF Activate, At, DeployInv, DeployTypes
  <1>1. CASE op.act
    <2>a. op.target # None
      BY <1>0, ReleaseAssumption DEF OpFacts, DeployTypes
    <2>1. Call("starting", "healthy") /\ outcome' = outcome
      BY <1>0, <1>1 DEF Activate
    <2>2. "starting" \in Steps /\ "healthy" \in Rets
      BY DEF Steps, Rets, Settling, Reverting, Guarded
    <2>3. /\ op' \in Jobs /\ op' # NoOp /\ op'.pc = "starting" /\ op'.ret = "healthy"
          /\ SameJob /\ SameMarks
      BY <1>0, <2>1, <2>2, Called
    <2>4. enabled' = TRUE /\ UNCHANGED <<current, previous, dirs, running, checked, netstate,
                                         tx, snaps, config, torn>>
      BY <1>0, <1>1, <2>a DEF Activate, Go, Call
    <2>5. DeployTypes' /\ Lasting'
      <3>1. DeployTypes'
        BY <1>0, <1>1, <2>3, <2>4, <2>a DEF DeployTypes, Links
      <3>2. Recoverable'
        BY <1>0, <1>1, <2>4, <2>a DEF OpFacts, Lasting, Recoverable
      <3>3. Lasting'
        BY <1>0, <1>1, <2>4, <3>2, <2>a DEF OpFacts, Lasting
      <3> QED BY <3>1, <3>3
    <2>6. OpFacts'
      BY <1>0, <1>1, <2>1, <2>3, <2>4 DEF OpFacts
    <2> QED BY <1>0, <2>1, <2>5, <2>6, NoReport
  <1>2. CASE ~op.act
    <2>1. End("ok") /\ UNCHANGED lasting
      BY <1>0, <1>2 DEF Activate
    <2>2. op' \in Jobs \cup {NoOp}
      BY <2>1 DEF End
    <2>3. DeployTypes' /\ Lasting'
      BY <1>0, <2>1, <2>2, LastingStays
    <2>4. op.kind \in {"install", "rollback"} =>
            tx = NoTx /\ current = op.target /\ (op.kind = "install" => config.v = op.before.v)
      BY <1>0, <1>2 DEF OpFacts
    <2> QED BY <1>0, <2>1, <2>3, <2>4, Ended
  <1> QED BY <1>1, <1>2

\* The services are up.
LEMMA StartedKeeps ==
    ASSUME DeployInv, Started
    PROVE  DeployInv'
  <1>0. /\ op \in Jobs /\ op # NoOp /\ op.pc = "starting" /\ op.ret \in Rets /\ op.kind \in Kinds
        /\ DeployTypes /\ Lasting /\ OpFacts /\ op.old \in Links /\ op.target \in Links
    BY JobFields DEF Started, At, DeployInv, DeployTypes
  <1>1. CASE op.ret = "healthy"
    <2>1. End("ok") /\ UNCHANGED lasting
      BY <1>0, <1>1 DEF Started
    <2>2. op' \in Jobs \cup {NoOp}
      BY <2>1 DEF End
    <2>3. DeployTypes' /\ Lasting'
      BY <1>0, <2>1, <2>2, LastingStays
    <2>4. op.kind \in {"install", "rollback"} =>
            tx = NoTx /\ current = op.target /\ (op.kind = "install" => config.v = op.before.v)
      BY <1>0, <1>1 DEF OpFacts
    <2> QED BY <1>0, <2>1, <2>3, <2>4, Ended
  <1>2. CASE op.ret # "healthy"
    <2>1. End("failed") /\ UNCHANGED lasting
      BY <1>0, <1>2 DEF Started
    <2>2. op' \in Jobs \cup {NoOp}
      BY <2>1 DEF End
    <2>3. DeployTypes' /\ Lasting'
      BY <1>0, <2>1, <2>2, LastingStays
    <2>4. op.kind \in {"install", "rollback"} =>
            tx = NoTx /\ current = op.old /\ (op.snapped => config.v = op.before.v)
      BY <1>0, <1>2 DEF OpFacts, Lasting, Started
    <2> QED BY <1>0, <2>1, <2>3, <2>4, Ended
  <1> QED BY <1>1, <1>2

\* The new release does not run: the way back depends on what there was before.
LEMMA ActivationFailedKeeps ==
    ASSUME DeployInv, ActivationFailed
    PROVE  DeployInv'
  <1>0. /\ op \in Jobs /\ op # NoOp /\ op.pc = "failed" /\ op.ret \in Rets /\ op.kind \in Kinds
        /\ DeployTypes /\ Lasting /\ OpFacts /\ op.old \in Links /\ op.target \in Links
    BY JobFields DEF ActivationFailed, At, DeployInv, DeployTypes
  <1>1. CASE op.old # None /\ Changed
    <2>1. Call("quiesce", "restoretx") /\ outcome' = outcome
      BY <1>0, <1>1 DEF ActivationFailed
    <2>2. "quiesce" \in Steps /\ "restoretx" \in Rets
      BY DEF Steps, Rets, Settling, Reverting, Guarded
    <2>3. /\ op' \in Jobs /\ op' # NoOp /\ op'.pc = "quiesce" /\ op'.ret = "restoretx"
          /\ SameJob /\ SameMarks
      BY <1>0, <2>1, <2>2, Called
    <2>4. UNCHANGED lasting
      BY <1>0, <1>1 DEF ActivationFailed
    <2>5. DeployTypes' /\ Lasting'
      BY <1>0, <2>3, <2>4, LastingStays
    <2>6. OpFacts'
      BY <1>0, <1>1, <2>1, <2>3, <2>4 DEF OpFacts
    <2> QED BY <1>0, <2>1, <2>5, <2>6, NoReport
  <1>2. CASE ~(op.old # None /\ Changed) /\ op.old = None
    <2>1. Go("aunlink") /\ outcome' = outcome
      BY <1>0, <1>2 DEF ActivationFailed
    <2>2. "aunlink" \in Steps
      BY DEF Steps, Rets, Settling, Reverting, Guarded
    <2>3. /\ op' \in Jobs /\ op' # NoOp /\ op'.pc = "aunlink" /\ op'.ret = op.ret
          /\ SameJob /\ SameMarks
      BY <1>0, <2>1, <2>2, WentTo
    <2>4. /\ running' = None /\ checked' = FALSE /\ enabled' = FALSE
          /\ UNCHANGED <<current, previous, dirs, netstate, tx, snaps, config, torn>>
      BY <1>0, <1>2 DEF ActivationFailed, Go, Call
    <2>5. DeployTypes' /\ Lasting'
      <3>1. DeployTypes'
        BY <1>0, <1>2, <2>3, <2>4 DEF DeployTypes, Links
      <3>2. Recoverable'
        BY <1>0, <1>2, <2>4 DEF OpFacts, Lasting, Recoverable
      <3>3. Lasting'
        BY <1>0, <1>2, <2>4, <3>2 DEF OpFacts, Lasting
      <3> QED BY <3>1, <3>3
    <2>6. OpFacts'
      BY <1>0, <1>2, <2>1, <2>3, <2>4 DEF OpFacts
    <2> QED BY <1>0, <2>1, <2>5, <2>6, NoReport
  <1>3. CASE ~(op.old # None /\ Changed) /\ op.old # None
    <2>1. End("failed")
      BY <1>0, <1>3 DEF ActivationFailed
    <2>2. op' \in Jobs \cup {NoOp}
      BY <2>1 DEF End
    <2>3. /\ running' = None /\ checked' = FALSE /\ enabled' = FALSE
          /\ UNCHANGED <<current, previous, dirs, netstate, tx, snaps, config, torn>>
      BY <1>0, <1>3 DEF ActivationFailed
    <2>4. DeployTypes' /\ Lasting'
      <3>1. DeployTypes'
        BY <1>0, <1>3, <2>2, <2>3 DEF DeployTypes, Links, OpFacts
      <3>2. Recoverable'
        BY <1>0, <1>3, <2>3 DEF OpFacts, Lasting, Recoverable
      <3>3. Lasting'
        BY <1>0, <1>3, <2>3, <3>2, TxIs DEF OpFacts, Lasting
      <3> QED BY <3>1, <3>3
    <2>5. op.kind \in {"install", "rollback"} =>
            tx' = NoTx /\ current' = op.old /\ (op.snapped => config'.v = op.before.v)
      BY <1>0, <1>3, <2>3 DEF OpFacts
    <2> QED BY <1>0, <2>1, <2>4, <2>5, Ended
  <1> QED BY <1>1, <1>2, <1>3

\* A first installation is taken back.
LEMMA FirstUnlinkKeeps ==
    ASSUME DeployInv, FirstUnlink
    PROVE  DeployInv'
  <1>0. /\ op \in Jobs /\ op # NoOp /\ op.pc = "aunlink" /\ op.ret \in Rets /\ op.kind \in Kinds
        /\ DeployTypes /\ Lasting /\ OpFacts /\ op.old \in Links /\ op.target \in Links
    BY JobFields DEF FirstUnlink, At, DeployInv, DeployTypes
  <1>1. DeployInv'
    <2>1. Go("aprevious") /\ outcome' = outcome
      BY <1>0 DEF FirstUnlink
    <2>2. "aprevious" \in Steps
      BY DEF Steps, Rets, Settling, Reverting, Guarded
    <2>3. /\ op' \in Jobs /\ op' # NoOp /\ op'.pc = "aprevious" /\ op'.ret = op.ret
          /\ SameJob /\ SameMarks
      BY <1>0, <2>1, <2>2, WentTo
    <2>4. current' = None /\ UNCHANGED <<previous, dirs, running, checked, enabled, netstate,
                                         tx, snaps, config, torn>>
      BY <1>0 DEF FirstUnlink, Go, Call
    <2>5. DeployTypes' /\ Lasting'
      <3>1. DeployTypes'
        BY <1>0, <2>3, <2>4 DEF DeployTypes, Links
      <3>2. Recoverable'
        BY <1>0, <2>4 DEF OpFacts, Lasting, Recoverable
      <3>3. Lasting'
        BY <1>0, <2>4, <3>2 DEF OpFacts, Lasting
      <3> QED BY <3>1, <3>3
    <2>6. OpFacts'
      BY <1>0, <2>1, <2>3, <2>4 DEF OpFacts
    <2> QED BY <1>0, <2>1, <2>5, <2>6, NoReport
  <1> QED BY <1>1

\* It stays as the previous one.
LEMMA FirstPreviousKeeps ==
    ASSUME DeployInv, FirstPrevious
    PROVE  DeployInv'
  <1>0. /\ op \in Jobs /\ op # NoOp /\ op.pc = "aprevious" /\ op.ret \in Rets /\ op.kind \in Kinds
        /\ DeployTypes /\ Lasting /\ OpFacts /\ op.old \in Links /\ op.target \in Links
    BY JobFields DEF FirstPrevious, At, DeployInv, DeployTypes
  <1>1. DeployInv'
    <2>1. End("failed")
      BY <1>0 DEF FirstPrevious
    <2>2. op' \in Jobs \cup {NoOp}
      BY <2>1 DEF End
    <2>3. previous' = op.target /\ UNCHANGED <<current, dirs, running, checked, enabled,
                                               netstate, tx, snaps, config, torn>>
      BY <1>0 DEF FirstPrevious
    <2>4. DeployTypes' /\ Lasting'
      <3>1. DeployTypes'
        BY <1>0, <2>2, <2>3 DEF DeployTypes, Links, OpFacts
      <3>2. Recoverable'
        BY <1>0, <2>3 DEF OpFacts, Lasting, Recoverable
      <3>3. Lasting'
        BY <1>0, <2>3, <3>2, TxIs DEF OpFacts, Lasting
      <3> QED BY <3>1, <3>3
    <2>5. op.kind \in {"install", "rollback"} =>
            tx' = NoTx /\ current' = op.old /\ (op.snapped => config'.v = op.before.v)
      BY <1>0, <2>3 DEF OpFacts
    <2> QED BY <1>0, <2>1, <2>4, <2>5, Ended
  <1> QED BY <1>1

\* The transaction that leads back.
LEMMA RestoreTransactionKeeps ==
    ASSUME DeployInv, RestoreTransaction
    PROVE  DeployInv'
  <1>0. /\ op \in Jobs /\ op # NoOp /\ op.pc = "restoretx" /\ op.ret \in Rets /\ op.kind \in Kinds
        /\ DeployTypes /\ Lasting /\ OpFacts /\ op.old \in Links /\ op.target \in Links
    BY JobFields DEF RestoreTransaction, At, DeployInv, DeployTypes
  <1>1. DeployInv'
    <2>a. op.target \in Release /\ op.old \in Release /\ Quiet /\ op.old # None
      BY <1>0 DEF OpFacts, Links, DeployTypes
    <2>1. Go("restoreconfig") /\ outcome' = outcome
      BY <1>0 DEF RestoreTransaction
    <2>2. "restoreconfig" \in Steps
      BY DEF Steps, Rets, Settling, Reverting, Guarded
    <2>3. /\ op' \in Jobs /\ op' # NoOp /\ op'.pc = "restoreconfig" /\ op'.ret = op.ret
          /\ SameJob /\ SameMarks
      BY <1>0, <2>1, <2>2, WentTo
    <2>4. /\ tx' \in Transactions /\ tx' # NoTx /\ tx'.old = op.target /\ tx'.new = op.old
          /\ tx'.state = "prepared"
          /\ UNCHANGED <<current, previous, dirs, running, checked, enabled, netstate, snaps,
                         config, torn>>
      <3>1. /\ tx' = [old |-> op.target, new |-> op.old, state |-> "prepared"]
            /\ UNCHANGED <<current, previous, dirs, running, checked, enabled, netstate, snaps,
                           config, torn>>
        BY <1>0 DEF RestoreTransaction
      <3>2. PICK o \in Links, n \in Release : o = op.target /\ n = op.old
        BY <1>0, <2>a
      <3>3. tx' = [old |-> o, new |-> n, state |-> "prepared"]
        BY <3>1, <3>2
      <3>4. tx' \in Transactions /\ tx' # NoTx /\ tx'.old = o /\ tx'.new = n
            /\ tx'.state = "prepared"
        BY <3>3, TxIs
      <3> QED BY <3>1, <3>2, <3>4
    <2>5. DeployTypes' /\ Lasting'
      <3>1. DeployTypes'
        BY <1>0, <2>3, <2>4, <2>a, TxIs, ReleaseAssumption DEF DeployTypes, Links
      <3>2. Recoverable'
        BY <1>0, <2>4, <2>a, TxIs, ReleaseAssumption DEF OpFacts, Lasting, Recoverable
      <3>3. Lasting'
        BY <1>0, <2>4, <3>2, <2>a, TxIs, ReleaseAssumption DEF OpFacts, Lasting
      <3> QED BY <3>1, <3>3
    <2>6. OpFacts'
      BY <1>0, <2>1, <2>3, <2>4 DEF OpFacts
    <2> QED BY <1>0, <2>1, <2>5, <2>6, NoReport
  <1> QED BY <1>1

\* The old configuration is put back.
LEMMA RestoreConfigKeeps ==
    ASSUME DeployInv, RestoreConfig
    PROVE  DeployInv'
  <1>0. /\ op \in Jobs /\ op # NoOp /\ op.pc = "restoreconfig"
        /\ op.ret \in Rets /\ op.kind \in Kinds
        /\ DeployTypes /\ Lasting /\ OpFacts /\ op.old \in Links /\ op.target \in Links
    BY JobFields DEF RestoreConfig, At, DeployInv, DeployTypes
  <1>1. DeployInv'
    <2>a. snaps[op.old] \in Confs
      BY <1>0, TxIs DEF DeployTypes, OpFacts, Links
    <2>1. Call("switch", "restored") /\ outcome' = outcome
      BY <1>0 DEF RestoreConfig
    <2>2. "switch" \in Steps /\ "restored" \in Rets
      BY DEF Steps, Rets, Settling, Reverting, Guarded
    <2>3. /\ op' \in Jobs /\ op' # NoOp /\ op'.pc = "switch" /\ op'.ret = "restored"
          /\ SameJob /\ SameMarks
      BY <1>0, <2>1, <2>2, Called
    <2>4. /\ config' \in Confs /\ config'.v = snaps[op.old].v /\ config'.set = snaps[op.old].set
          /\ UNCHANGED <<current, previous, dirs, running, checked, enabled, netstate, tx,
                         snaps, torn>>
      BY <1>0, <2>a, HttpIs DEF RestoreConfig, Go, Call
    <2>5. DeployTypes' /\ Lasting'
      <3>1. DeployTypes'
        BY <1>0, <2>3, <2>4, <2>a, HttpIs DEF DeployTypes, Links
      <3>2. Recoverable'
        BY <1>0, <2>4, <2>a, HttpIs DEF OpFacts, Lasting, Recoverable
      <3>3. Lasting'
        BY <1>0, <2>4, <3>2, <2>a, HttpIs DEF OpFacts, Lasting
      <3> QED BY <3>1, <3>3
    <2>6. OpFacts'
      BY <1>0, <2>1, <2>3, <2>4 DEF OpFacts
    <2> QED BY <1>0, <2>1, <2>5, <2>6, NoReport
  <1> QED BY <1>1

\* The old release is started again.
LEMMA RestoreStartKeeps ==
    ASSUME DeployInv, RestoreStart
    PROVE  DeployInv'
  <1>0. /\ op \in Jobs /\ op # NoOp /\ op.pc = "restored" /\ op.ret \in Rets /\ op.kind \in Kinds
        /\ DeployTypes /\ Lasting /\ OpFacts /\ op.old \in Links /\ op.target \in Links
    BY JobFields DEF RestoreStart, At, DeployInv, DeployTypes
  <1>1. DeployInv'
    <2>1. Go("starting") /\ outcome' = outcome
      BY <1>0 DEF RestoreStart
    <2>2. "starting" \in Steps
      BY DEF Steps, Rets, Settling, Reverting, Guarded
    <2>3. /\ op' \in Jobs /\ op' # NoOp /\ op'.pc = "starting" /\ op'.ret = op.ret
          /\ SameJob /\ SameMarks
      BY <1>0, <2>1, <2>2, WentTo
    <2>4. enabled' = TRUE /\ UNCHANGED <<current, previous, dirs, running, checked, netstate,
                                         tx, snaps, config, torn>>
      BY <1>0 DEF RestoreStart, Go, Call
    <2>5. DeployTypes' /\ Lasting'
      <3>1. DeployTypes'
        BY <1>0, <2>3, <2>4 DEF DeployTypes, Links
      <3>2. Recoverable'
        BY <1>0, <2>4 DEF OpFacts, Lasting, Recoverable
      <3>3. Lasting'
        BY <1>0, <2>4, <3>2 DEF OpFacts, Lasting
      <3> QED BY <3>1, <3>3
    <2>6. OpFacts'
      BY <1>0, <2>1, <2>3, <2>4 DEF OpFacts
    <2> QED BY <1>0, <2>1, <2>5, <2>6, NoReport
  <1> QED BY <1>1

\* The services are stopped and disabled.
LEMMA UninstallUnitsKeeps ==
    ASSUME DeployInv, UninstallUnits
    PROVE  DeployInv'
  <1>0. /\ op \in Jobs /\ op # NoOp /\ op.pc = "deactivate"
        /\ op.ret \in Rets /\ op.kind \in Kinds
        /\ DeployTypes /\ Lasting /\ OpFacts /\ op.old \in Links /\ op.target \in Links
    BY JobFields DEF UninstallUnits, At, DeployInv, DeployTypes
  <1>1. DeployInv'
    <2>1. Go("delete") /\ outcome' = outcome
      BY <1>0 DEF UninstallUnits
    <2>2. "delete" \in Steps
      BY DEF Steps, Rets, Settling, Reverting, Guarded
    <2>3. /\ op' \in Jobs /\ op' # NoOp /\ op'.pc = "delete" /\ op'.ret = op.ret
          /\ SameJob /\ SameMarks
      BY <1>0, <2>1, <2>2, WentTo
    <2>4. /\ running' = None /\ checked' = FALSE /\ enabled' = FALSE
          /\ UNCHANGED <<current, previous, dirs, netstate, tx, snaps, config, torn>>
      BY <1>0 DEF UninstallUnits, Go, Call
    <2>5. DeployTypes' /\ Lasting'
      <3>1. DeployTypes'
        BY <1>0, <2>3, <2>4 DEF DeployTypes, Links
      <3>2. Recoverable'
        BY <1>0, <2>4 DEF OpFacts, Lasting, Recoverable
      <3>3. Lasting'
        BY <1>0, <2>4, <3>2 DEF OpFacts, Lasting
      <3> QED BY <3>1, <3>3
    <2>6. OpFacts'
      BY <1>0, <2>1, <2>3, <2>4 DEF OpFacts
    <2> QED BY <1>0, <2>1, <2>5, <2>6, NoReport
  <1> QED BY <1>1

\* The releases and links are deleted, one by one.
LEMMA UninstallDeleteKeeps ==
    ASSUME DeployInv, UninstallDelete
    PROVE  DeployInv'
  <1>0. /\ op \in Jobs /\ op # NoOp /\ op.pc = "delete" /\ op.ret \in Rets /\ op.kind \in Kinds
        /\ DeployTypes /\ Lasting /\ OpFacts /\ op.old \in Links /\ op.target \in Links
    BY JobFields DEF UninstallDelete, At, DeployInv, DeployTypes
  <1>1. /\ torn' = TRUE /\ dirs' \subseteq dirs
        /\ current' \in {current, None} /\ previous' \in {previous, None}
        /\ \/ Go("forget") /\ dirs' = {} /\ current' = None /\ previous' = None
           \/ op' = op
        /\ outcome' = outcome
        /\ UNCHANGED <<running, checked, enabled, netstate, tx, snaps, config>>
    BY DEF UninstallDelete
  <1>2. /\ op' \in Jobs /\ op' # NoOp /\ op'.pc \in {"delete", "forget"} /\ op'.ret = op.ret
        /\ op'.pc = "forget" => dirs' = {} /\ current' = None /\ previous' = None
        /\ SameJob /\ SameMarks
    <2>1. CASE Go("forget") /\ dirs' = {} /\ current' = None /\ previous' = None
      <3>1. "forget" \in Steps
        BY DEF Steps
      <3> QED BY <1>0, <2>1, <3>1, WentTo
    <2>2. CASE op' = op
      BY <1>0, <2>2
    <2> QED BY <1>1, <2>1, <2>2
  <1>3. DeployTypes' /\ Lasting'
    <2>1. DeployTypes'
      BY <1>0, <1>1, <1>2 DEF DeployTypes, Links
    <2>2. Recoverable'
      BY <1>1 DEF Recoverable
    <2>3. Lasting'
      BY <1>0, <1>1, <2>2 DEF OpFacts, Lasting
    <2> QED BY <2>1, <2>3
  <1>4. OpFacts'
    BY <1>0, <1>1, <1>2 DEF OpFacts
  <1> QED BY <1>0, <1>1, <1>3, <1>4, NoReport

\* And so is the transaction.
LEMMA UninstallForgetKeeps ==
    ASSUME DeployInv, UninstallForget
    PROVE  DeployInv'
  <1>0. /\ op \in Jobs /\ op # NoOp /\ op.pc = "forget" /\ op.ret \in Rets /\ op.kind \in Kinds
        /\ DeployTypes /\ Lasting /\ OpFacts /\ op.old \in Links /\ op.target \in Links
    BY JobFields DEF UninstallForget, At, DeployInv, DeployTypes
  <1>1. /\ op.kind = "uninstall" /\ dirs = {} /\ current = None /\ previous = None
        /\ Quiet /\ ~enabled
    BY <1>0 DEF OpFacts
  <1>2. Go("remove") /\ outcome' = outcome
    BY DEF UninstallForget
  <1>3. "remove" \in Steps
    BY DEF Steps
  <1>4. /\ op' \in Jobs /\ op' # NoOp /\ op'.pc = "remove" /\ op'.ret = op.ret
        /\ SameJob /\ SameMarks
    BY <1>0, <1>2, <1>3, WentTo
  <1>5. tx' = NoTx /\ torn' = FALSE /\ UNCHANGED <<current, previous, dirs, running, checked,
                                                   enabled, netstate, snaps, config>>
    BY DEF UninstallForget
  <1>6. DeployTypes' /\ Lasting'
    <2>1. DeployTypes'
      BY <1>0, <1>4, <1>5, TxIs DEF DeployTypes
    <2>2. Recoverable'
      BY <1>1, <1>5 DEF Recoverable
    <2>3. Lasting'
      BY <1>0, <1>1, <1>5, <2>2, TxIs DEF Lasting
    <2> QED BY <2>1, <2>3
  <1>7. OpFacts'
    BY <1>0, <1>1, <1>2, <1>4, <1>5 DEF OpFacts
  <1> QED BY <1>0, <1>2, <1>6, <1>7, NoReport

\* And the assets and the updater.
LEMMA UninstallAssetsKeeps ==
    ASSUME DeployInv, UninstallAssets
    PROVE  DeployInv'
  <1>0. /\ op \in Jobs /\ op # NoOp /\ op.pc = "remove"
        /\ DeployTypes /\ Lasting /\ OpFacts
    BY JobFields DEF UninstallAssets, At, DeployInv, DeployTypes
  <1>1. op.kind = "uninstall"
    BY <1>0 DEF OpFacts
  <1>2. End("ok") /\ UNCHANGED lasting
    BY DEF UninstallAssets
  <1>3. op' \in Jobs \cup {NoOp}
    BY <1>2 DEF End
  <1>4. DeployTypes' /\ Lasting'
    BY <1>0, <1>2, <1>3, LastingStays
  <1> QED BY <1>0, <1>1, <1>2, <1>4, Ended

\* A transaction whose write raised after it took effect: the handler takes back what it knows
\* of, and leaves the transaction.
LEMMA WroteAndRaised ==
    ASSUME DeployInv, op \in Jobs, op # NoOp, op.pc \in {"transaction", "rtransaction"}, Unwind,
           tx' = Document, UNCHANGED <<current, previous, dirs, running, checked, enabled,
                                       netstate, snaps, config, torn>>
    PROVE  DeployInv'
  <1>0. /\ op.ret \in Rets /\ op.kind \in Kinds /\ op.old \in Links /\ op.target \in Links
        /\ DeployTypes /\ Lasting /\ OpFacts
    BY JobFields DEF DeployInv
  <1>1. op.old \in Links /\ op.target \in Release /\ Quiet
    BY <1>0, TxIs DEF OpFacts, Links, DeployTypes, Lasting, Recoverable
  <1>2. Go("undo") /\ outcome' = outcome
    BY DEF Unwind
  <1>3. "undo" \in Steps
    BY DEF Steps
  <1>4. /\ op' \in Jobs /\ op' # NoOp /\ op'.pc = "undo" /\ op'.ret = op.ret
        /\ SameJob /\ SameMarks
    BY <1>2, <1>3, WentTo
  <1>5. tx' = [old |-> op.old, new |-> op.target, state |-> "prepared"]
    OBVIOUS
  <1>6. /\ tx' \in Transactions /\ tx' # NoTx /\ tx'.old = op.old /\ tx'.new = op.target
        /\ tx'.state = "prepared"
    BY <1>1, <1>5, TxWritten
  <1>7. DeployTypes' /\ Lasting'
    <2>1. DeployTypes'
      BY <1>0, <1>4, <1>6 DEF DeployTypes
    <2>2. Recoverable'
      BY <1>0, <1>1, <1>6 DEF OpFacts, Lasting, Recoverable
    <2>3. Lasting'
      BY <1>0, <1>1, <1>6, <2>2 DEF OpFacts, Lasting
    <2> QED BY <2>1, <2>3
  <1>8. OpFacts'
    <2>1. ~op.started /\ current = op.old /\ op.target \in dirs /\ (op.old # None => Quiesces)
      BY <1>0 DEF OpFacts
    <2>2. UndoAt'
      BY <1>4, <1>6, <2>1
    <2>3. DeployingAt'
      BY <1>0, <1>4 DEF OpFacts
    <2>4. outcome' = NoOp
      BY <1>0, <1>2 DEF OpFacts
    <2> QED BY <1>4, <2>2, <2>3, <2>4 DEF OpFacts
  <1> QED BY <1>0, <1>2, <1>7, <1>8, NoReport

\* A transaction whose unlink raised after it took effect, in the new release's activation: the
\* handler goes back without it; elsewhere the operation ends there.
LEMMA UnlinkedAndRaised ==
    ASSUME DeployInv, op \in Jobs, op # NoOp, op.pc = "unlink", Unwind,
           tx' = NoTx, UNCHANGED <<current, previous, dirs, running, checked, enabled,
                                   netstate, snaps, config, torn>>
    PROVE  DeployInv'
  <1>0. /\ op.ret \in Rets /\ op.kind \in Kinds /\ op.old \in Links /\ op.target \in Links
        /\ DeployTypes /\ Lasting /\ OpFacts
    BY JobFields DEF DeployInv
  <1>1. op' \in Jobs \cup {NoOp} => DeployTypes' /\ Lasting'
    <2>1. op' \in Jobs \cup {NoOp} => DeployTypes'
      BY <1>0, TxIs DEF DeployTypes
    <2>2. Recoverable'
      BY <1>0, TxIs DEF OpFacts, Lasting, Recoverable
    <2>3. Lasting'
      BY <1>0, <2>2, TxIs DEF OpFacts, Lasting
    <2> QED BY <2>1, <2>3
  <1>2. CASE op.ret = "activate"
    <2>1. Go("undo") /\ outcome' = outcome
      BY <1>2 DEF Unwind
    <2>2. "undo" \in Steps
      BY DEF Steps
    <2>3. /\ op' \in Jobs /\ op' # NoOp /\ op'.pc = "undo" /\ op'.ret = op.ret
          /\ SameJob /\ SameMarks
      BY <2>1, <2>2, WentTo
    <2>4. /\ op.started /\ current = op.target /\ op.target \in dirs /\ Quiet
          /\ op.old = None => ~enabled
      BY <1>0, <1>2 DEF OpFacts, Lasting
    <2>5. OpFacts'
      <3>1. UndoAt'
        BY <2>3, <2>4
      <3>2. DeployingAt'
        BY <1>0, <1>2, <2>3 DEF OpFacts
      <3>3. outcome' = NoOp
        BY <1>0, <2>1 DEF OpFacts
      <3> QED BY <2>3, <3>1, <3>2, <3>3 DEF OpFacts
    <2> QED BY <1>0, <1>1, <2>1, <2>3, <2>5, NoReport
  <1>3. CASE op.ret # "activate"
    <2>1. End("stuck")
      BY <1>3 DEF Unwind
    <2>2. op' \in Jobs \cup {NoOp}
      BY <2>1 DEF End
    <2> QED BY <1>1, <2>1, <2>2, Ended
  <1> QED BY <1>2, <1>3

\* A snapshot of a rollback that was written and raised: it is not noted.
LEMMA SnappedAndRaised ==
    ASSUME DeployInv, op \in Jobs, op # NoOp, op.pc = "snapcurrent", Unwind,
           snaps' = [snaps EXCEPT ![op.old] = config],
           UNCHANGED <<current, previous, dirs, running, checked, enabled, netstate, tx, config,
                       torn>>
    PROVE  DeployInv'
  <1>0. /\ op.ret \in Rets /\ op.kind \in Kinds /\ op.old \in Links /\ op.target \in Links
        /\ DeployTypes /\ Lasting /\ OpFacts
    BY JobFields DEF DeployInv
  <1>1. op.old \in Release /\ config.set /\ tx = NoTx
    BY <1>0 DEF OpFacts, Links, Lasting
  <1>2. Go("undo") /\ outcome' = outcome
    BY DEF Unwind
  <1>3. "undo" \in Steps
    BY DEF Steps
  <1>4. /\ op' \in Jobs /\ op' # NoOp /\ op'.pc = "undo" /\ op'.ret = op.ret
        /\ SameJob /\ SameMarks
    BY <1>2, <1>3, WentTo
  <1>5. snaps' \in [Release -> Confs]
    BY <1>0, <1>1 DEF DeployTypes
  <1>6. DeployTypes' /\ Lasting'
    <2>1. DeployTypes'
      BY <1>0, <1>4, <1>5 DEF DeployTypes
    <2>2. Recoverable'
      BY <1>0, <1>1 DEF Lasting, Recoverable
    <2>3. Lasting'
      BY <1>0, <1>1, <2>2 DEF Lasting
    <2> QED BY <2>1, <2>3
  <1>7. OpFacts'
    <2>1. ~op.started /\ ~op.snapped /\ current = op.old /\ op.target \in dirs
      BY <1>0 DEF OpFacts
    <2>2. UndoAt'
      BY <1>1, <1>4, <2>1
    <2>3. DeployingAt'
      BY <1>0, <1>4, <2>1 DEF OpFacts
    <2>4. outcome' = NoOp
      BY <1>0, <1>2 DEF OpFacts
    <2> QED BY <1>4, <2>2, <2>3, <2>4 DEF OpFacts
  <1> QED BY <1>0, <1>2, <1>6, <1>7, NoReport

\* A step that raises, with what it may have stopped or done.
LEMMA RaiseKeeps ==
    ASSUME DeployInv, Raise
    PROVE  DeployInv'
  <1>1. op \in Jobs /\ op # NoOp /\ op.pc # "starting" /\ Unwind
    BY DEF Raise, DeployInv, DeployTypes
  <1>2. PICK stopped \in (IF op.pc \in {"quiesce", "failed", "deactivate"} THEN BOOLEAN
                          ELSE {FALSE}) :
           /\ running' = IF stopped THEN None ELSE running
           /\ checked' = (checked /\ ~stopped)
    BY DEF Raise
  <1>3. checked \in BOOLEAN
    BY DEF DeployInv, DeployTypes
  <1>4. \/ running' = running /\ checked' = checked
        \/ running' = None /\ checked' = FALSE
    BY <1>2, <1>3
  <1>5. UNCHANGED <<current, previous, dirs, enabled, netstate, config, torn>>
    BY DEF Raise
  <1>6. op.pc \notin {"quiesce", "failed", "deactivate"} => running' = running /\ checked' = checked
    BY <1>2, <1>3
  <1>7. CASE UNCHANGED <<tx, snaps>>
    BY <1>1, <1>4, <1>5, <1>7, Unwound
  <1>8. CASE Landed
    <2>1. CASE op.pc \in {"transaction", "rtransaction"}
      BY <1>1, <1>5, <1>6, <1>8, <2>1, WroteAndRaised DEF Landed
    <2>2. CASE op.pc = "unlink"
      BY <1>1, <1>5, <1>6, <1>8, <2>2, UnlinkedAndRaised DEF Landed
    <2>3. CASE op.pc = "snapcurrent"
      BY <1>1, <1>5, <1>6, <1>8, <2>3, SnappedAndRaised DEF Landed
    <2>4. CASE op.pc \notin {"transaction", "rtransaction", "unlink", "snapcurrent"}
      BY <1>7, <1>8, <2>4 DEF Landed
    <2> QED BY <2>1, <2>2, <2>3, <2>4
  <1> QED BY <1>7, <1>8 DEF Raise

\* Services that do not start, or are not healthy.
LEMMA StartRaiseKeeps ==
    ASSUME DeployInv, StartRaise
    PROVE  DeployInv'
  <1>0. /\ op \in Jobs /\ op # NoOp /\ op.pc = "starting"
        /\ DeployTypes /\ Lasting /\ OpFacts
    BY JobFields DEF StartRaise, StartFails, At, DeployInv, DeployTypes
  <1>1. UNCHANGED lasting
    BY DEF StartRaise, StartFails
  <1>2. CASE op.ret = "healthy" /\ Go("failed") /\ outcome' = outcome
    <2>1. "failed" \in Steps
      BY DEF Steps
    <2>2. /\ op' \in Jobs /\ op' # NoOp /\ op'.pc = "failed" /\ op'.ret = op.ret
          /\ SameJob /\ SameMarks
      BY <1>0, <1>2, <2>1, WentTo
    <2>3. DeployTypes' /\ Lasting'
      BY <1>0, <1>1, <2>2, LastingStays
    <2>4. OpFacts'
      BY <1>0, <1>1, <1>2, <2>2 DEF OpFacts
    <2> QED BY <1>0, <1>2, <2>3, <2>4, NoReport
  <1>3. CASE End("stuck")
    <2>1. op' \in Jobs \cup {NoOp}
      BY <1>3 DEF End
    <2>2. DeployTypes' /\ Lasting'
      BY <1>0, <1>1, <2>1, LastingStays
    <2> QED BY <1>0, <1>3, <2>2, Ended
  <1> QED BY <1>2, <1>3 DEF StartRaise, StartFails

\* A deployer that begins has changed nothing.
LEMMA BeginKeeps ==
    ASSUME DeployInv, NEW kind \in Kinds, NEW target \in Links, NEW act \in BOOLEAN,
           Begin(kind, target, act), UNCHANGED lasting,
           kind = "install" => target \in Release,
           kind = "servicestart" => enabled
    PROVE  DeployInv'
  <1>1. config \in Confs
    BY DEF DeployInv, DeployTypes
  <1>2. /\ op' \in Jobs /\ op'.kind = kind /\ op'.target = target
        /\ op'.pc = IF kind = "uninstall" THEN "deactivate" ELSE "recover"
        /\ op'.ret = None /\ op'.started = FALSE /\ op'.snapped = FALSE
    BY <1>1 DEF Begin, Jobs, Steps, Rets, Links
  <1>3. op' # NoOp /\ outcome' = NoOp
    BY <1>2, JobFields DEF Begin
  <1>4. DeployTypes' /\ Lasting'
    BY <1>2, LastingStays DEF DeployInv
  <1>5. OpFacts'
    BY <1>2, <1>3 DEF OpFacts, None
  <1> QED BY <1>3, <1>4, <1>5 DEF DeployInv, OutcomeTruth

\* The four operations that are asked for.
LEMMA DeployBeginKeeps ==
    ASSUME DeployInv, NEW kind \in {"install", "rollback", "uninstall", "recover"},
           NEW target \in Links, NEW act \in BOOLEAN,
           DeployBegin(kind, target, act), kind = "install" => target \in Release
    PROVE  DeployInv'
  <1>1. kind \in Kinds /\ Begin(kind, target, act) /\ UNCHANGED lasting
    BY DEF DeployBegin, Kinds
  <1> QED BY <1>1, BeginKeeps

\* systemd checks, under the recovery lock, what a service is about to run.
LEMMA ServiceStartKeeps ==
    ASSUME DeployInv, ServiceStart
    PROVE  DeployInv'
  <1>1. CASE Idle /\ enabled /\ Begin("servicestart", None, FALSE) /\ UNCHANGED checked
    <2>1. UNCHANGED lasting
      BY <1>1 DEF ServiceStart
    <2> QED BY <1>1, <2>1, BeginKeeps DEF Kinds, Links
  <1>2. CASE At("starting") /\ tx = NoTx /\ current # None /\ Complete(current)
             /\ checked' = TRUE /\ UNCHANGED <<op, outcome>>
    <2>1. UNCHANGED <<current, previous, dirs, running, enabled, netstate, tx, snaps, config,
                      torn>>
      BY DEF ServiceStart
    <2>2. DeployTypes'
      BY <1>2, <2>1 DEF DeployInv, DeployTypes
    <2>3. Recoverable'
      BY <2>1 DEF DeployInv, Lasting, Recoverable
    <2>4. Lasting'
      BY <1>2, <2>1, <2>3 DEF DeployInv, Lasting
    <2>5. OpFacts'
      BY <1>2, <2>1 DEF DeployInv, OpFacts, At
    <2> QED BY <1>2, <2>1, <2>2, <2>4, <2>5, NoReport DEF DeployInv, At
  <1> QED BY <1>1, <1>2 DEF ServiceStart

\* The service that was checked runs, whatever the deployer does meanwhile.
LEMMA ServiceRunKeeps ==
    ASSUME DeployInv, ServiceRun
    PROVE  DeployInv'
  <1>1. /\ checked /\ current # None /\ current \in dirs /\ running' = current
        /\ checked' = FALSE
        /\ UNCHANGED <<current, previous, dirs, enabled, netstate, tx, snaps, config, torn,
                       op, outcome>>
    BY DEF ServiceRun
  <1>2. DeployTypes'
    BY <1>1 DEF DeployInv, DeployTypes
  <1>3. Recoverable'
    BY <1>1 DEF DeployInv, Lasting, Recoverable
  <1>4. Lasting'
    BY <1>1, <1>3 DEF DeployInv, Lasting
  <1>5. OpFacts'
    BY <1>1 DEF DeployInv, OpFacts
  <1>6. OutcomeTruth'
    BY <1>1 DEF DeployInv, OutcomeTruth
  <1> QED BY <1>2, <1>4, <1>5, <1>6 DEF DeployInv

\* A service ends by itself.
LEMMA ServiceExitKeeps ==
    ASSUME DeployInv, ServiceExit
    PROVE  DeployInv'
  <1>1. /\ running' = None
        /\ UNCHANGED <<current, previous, dirs, checked, enabled, netstate, tx, snaps,
                       config, torn, op, outcome>>
    BY DEF ServiceExit
  <1>2. DeployTypes'
    BY <1>1 DEF DeployInv, DeployTypes, Links
  <1>3. Recoverable'
    BY <1>1 DEF DeployInv, Lasting, Recoverable
  <1>4. Lasting'
    BY <1>1, <1>3 DEF DeployInv, Lasting
  <1>5. OpFacts'
    BY <1>1 DEF DeployInv, OpFacts
  <1>6. OutcomeTruth'
    BY <1>1 DEF DeployInv, OutcomeTruth
  <1> QED BY <1>2, <1>4, <1>5, <1>6 DEF DeployInv

\* The administrator edits the configuration between two deployments.
LEMMA EditConfigKeeps ==
    ASSUME DeployInv, EditConfig
    PROVE  DeployInv'
  <1>1. /\ op = NoOp /\ config.set /\ config' = [config EXCEPT !.v = @ + 1]
        /\ outcome' = NoOp /\ config \in Confs
        /\ UNCHANGED <<current, previous, dirs, running, checked, enabled, netstate, tx,
                       snaps, torn, op>>
    BY DEF EditConfig, Idle, DeployInv, DeployTypes
  <1>2. config.v \in Nat
    BY <1>1 DEF Confs
  <1>3. config.v + 1 \in Nat
    BY <1>2
  <1>4. config' \in Confs /\ config'.set = config.set
    BY <1>1, <1>3 DEF Confs
  <1>5. DeployTypes'
    BY <1>1, <1>4 DEF DeployInv, DeployTypes
  <1>6. Recoverable'
    BY <1>1 DEF DeployInv, Lasting, Recoverable
  <1>7. Lasting'
    BY <1>1, <1>4, <1>6 DEF DeployInv, Lasting
  <1> QED BY <1>1, <1>5, <1>7 DEF DeployInv, OpFacts, OutcomeTruth

\* The deployer is gone, with the services when the power failed.
LEMMA GoneDeployer ==
    ASSUME DeployInv, op' = NoOp, outcome' = NoOp,
           UNCHANGED <<current, previous, dirs, enabled, netstate, tx, snaps, config, torn>>,
           \/ running' = running /\ checked' = checked
           \/ running' = None /\ checked' = FALSE
    PROVE  DeployInv'
  <1>1. DeployTypes' /\ Lasting'
    BY LastingQuiet DEF DeployInv
  <1> QED BY <1>1 DEF DeployInv, OpFacts, OutcomeTruth

\* Steps of others leave the deployer alone.
LEMMA DeployerLeft ==
    ASSUME DeployInv, UNCHANGED <<lasting, op, outcome>>
    PROVE  DeployInv'
  <1>1. DeployTypes' /\ Lasting'
    BY LastingStays DEF DeployInv, DeployTypes
  <1>2. OpFacts'
    BY DEF DeployInv, OpFacts
  <1>3. OutcomeTruth'
    BY DEF DeployInv, OutcomeTruth
  <1> QED BY <1>1, <1>2, <1>3 DEF DeployInv

\* The device before and after its first installation.
LEMMA DeployStarts ==
    ASSUME DeployInit
    PROVE  DeployInv
  <1>1. DeployTypes
    <2>1. NoConfig \in Confs /\ [v |-> 0, tls |-> TRUE, set |-> TRUE] \in Confs
      BY DEF NoConfig, Confs
    <2> QED BY <2>1, TxIs DEF DeployInit, DeployTypes, Links
  <1>2. Lasting
    BY TxIs DEF DeployInit, Lasting, Recoverable
  <1> QED BY <1>1, <1>2 DEF DeployInit, DeployInv, OpFacts, OutcomeTruth

HIDE DEF RecoveringAt, Recovering, PreparingAt, Preparing, InstallingAt, Installing,
         RollingBackAt, RollingBack, SettlingAt, RevertingAt, SwitchingAt, ActivatingAt,
         Activating, UnlinkedAt, UndoAt, UndoingAt, RestoringAt, OldAgainAt, RemovingAt,
         DeployingAt, Deploying, Settling, Reverting, Guarded, Quiet, Saved, Kept, OldThere,
         Pending, NewConfig, Changed, Quiesces, SameJob, SameMarks, Complete, lasting, links,
         units, files

\* A step of an operation.
LEMMA DeployStepKeeps ==
    ASSUME DeployInv, DeployStep
    PROVE  DeployInv'
  <1>1. CASE \/ Recover \/ RecoverSnapshot \/ RecoverOld \/ Recovered
             \/ SettleCurrent \/ SettleMark \/ SettlePrevious \/ SettlePrune \/ SettleUnlink
             \/ RevertCurrent \/ RevertPrevious \/ RevertUnlink
    BY <1>1, RecoverKeeps, RecoverSnapshotKeeps, RecoverOldKeeps, RecoveredKeeps,
       SettleCurrentKeeps, SettleMarkKeeps, SettlePreviousKeeps, SettlePruneKeeps,
       SettleUnlinkKeeps, RevertCurrentKeeps, RevertPreviousKeeps, RevertUnlinkKeeps
  <1>2. CASE \/ LoadBundle \/ StageRelease \/ PrepareRelease \/ Quiesce \/ InstallAssets
             \/ SnapshotOld \/ CopyNetworkState \/ MarkNetworkState \/ WriteTransaction
             \/ EnsureConfig \/ SnapshotNew \/ Reload
    BY <1>2, LoadBundleKeeps, StageReleaseKeeps, PrepareReleaseKeeps, QuiesceKeeps,
       InstallAssetsKeeps, SnapshotOldKeeps, CopyNetworkStateKeeps, MarkNetworkStateKeeps,
       WriteTransactionKeeps, EnsureConfigKeeps, SnapshotNewKeeps, ReloadKeeps
  <1>3. CASE \/ RollbackAdmitted \/ SnapshotCurrent \/ RollbackTransaction \/ RollbackConfig
             \/ Undo \/ RestartOld \/ Activate \/ Started \/ StartRaise \/ ActivationFailed
    BY <1>3, RollbackAdmittedKeeps, SnapshotCurrentKeeps, RollbackTransactionKeeps,
       RollbackConfigKeeps, UndoKeeps, RestartOldKeeps, ActivateKeeps, StartedKeeps,
       StartRaiseKeeps, ActivationFailedKeeps
  <1>4. CASE \/ FirstUnlink \/ FirstPrevious \/ RestoreTransaction \/ RestoreConfig
             \/ RestoreStart \/ UninstallUnits \/ UninstallDelete \/ UninstallForget
             \/ UninstallAssets \/ Raise
    BY <1>4, FirstUnlinkKeeps, FirstPreviousKeeps, RestoreTransactionKeeps, RestoreConfigKeeps,
       RestoreStartKeeps, UninstallUnitsKeeps, UninstallDeleteKeeps, UninstallForgetKeeps,
       UninstallAssetsKeeps, RaiseKeeps
  <1> QED BY <1>1, <1>2, <1>3, <1>4 DEF DeployStep

\* A step of a deployer or of systemd.
LEMMA LocalKeeps ==
    ASSUME DeployInv, Local
    PROVE  DeployInv'
  <1>1. CASE Deploys
    <2>1. CASE \E r \in Release, act \in BOOLEAN : DeployBegin("install", r, act)
      BY <2>1, DeployBeginKeeps DEF Links
    <2>2. CASE \E act \in BOOLEAN : DeployBegin("rollback", None, act)
      BY <2>2, DeployBeginKeeps DEF Links
    <2>3. CASE DeployBegin("uninstall", None, FALSE)
      BY <2>3, DeployBeginKeeps DEF Links
    <2>4. CASE DeployBegin("recover", None, FALSE)
      BY <2>4, DeployBeginKeeps DEF Links
    <2> QED BY <1>1, <2>1, <2>2, <2>3, <2>4 DEF Deploys
  <1>2. CASE Kill
    BY <1>2, GoneDeployer DEF Kill, Crashed, links, files
  <1> QED BY <1>1, <1>2, DeployStepKeeps, ServiceStartKeeps, ServiceRunKeeps,
          ServiceExitKeeps, EditConfigKeeps DEF Local

\* The power fails.
LEMMA PowerLossKeeps ==
    ASSUME DeployInv, PowerLoss
    PROVE  DeployInv'
  BY GoneDeployer DEF PowerLoss, Crashed, links, files

-----------------------------------------------------------------------------
(* The supervisor: what holds at every step *)

SupervisorTypes ==
    /\ {alive, savePending, loadPending} \subseteq BOOLEAN
    /\ {task, taskFile, request} \subseteq Tasks
    /\ receipts \in [Key -> Tasks]
    /\ worker \in {"none", "admitted", "run", "wait"}
    /\ launched \in [Key -> Nat]

\* A receipt is of its key, and a terminal one says what t says.
Agrees(t) == receipts[t.id].status \in Terminal => receipts[t.id] = t

\* What was launched or answered has a receipt, and was launched once.
Recorded == \A k \in Key :
    /\ receipts[k] # NoTask => receipts[k].id = k
    /\ launched[k] \in {0, 1}
    /\ launched[k] # 0 => receipts[k] # NoTask
    /\ k \in answered => receipts[k] # NoTask

\* Whoever is not alive remembers nothing; whoever has not read task.json has no task.
Memory ==
    /\ ~alive => ~loadPending /\ ~savePending /\ task = NoTask
    /\ loadPending => ~savePending /\ task = NoTask
    /\ savePending => task # NoTask
    /\ worker # "none" \/ request # NoTask => alive /\ ~loadPending /\ ~savePending

\* The admitted task is the one on disk; it has not been launched before its worker is.
AdmittedOnce ==
    worker # "none" =>
        /\ request = NoTask /\ task # NoTask
        /\ task.status = (IF worker = "admitted" THEN "accepted" ELSE "running")
        /\ worker # "wait" => launched[task.id] = 0

\* A request between the two sections of start() is unknown.
RequestNew ==
    request # NoTask => request.status = "accepted" /\ receipts[request.id] = NoTask

\* Without a worker the task in memory has ended.
TaskEnded == worker = "none" => task = NoTask \/ task.status \in Terminal

\* What is saved is on disk; what is not yet contradicts no result, and neither does what a
\* restart would make of task.json.
OnDisk ==
    /\ alive /\ ~loadPending /\ ~savePending =>
          taskFile = task /\ (task # NoTask => receipts[task.id] = task)
    /\ savePending => Agrees(task)
    /\ taskFile # NoTask => Agrees(Restored)
    /\ alive /\ ~loadPending /\ taskFile # NoTask /\ taskFile.id # task.id =>
          taskFile.status \in Terminal /\ receipts[taskFile.id] = taskFile
    /\ task.status = "succeeded" => receipts[task.id] # NoTask
    /\ taskFile.status = "succeeded" => receipts[taskFile.id] # NoTask

SupervisorInv == /\ SupervisorTypes /\ Recorded /\ Memory /\ AdmittedOnce /\ RequestNew
                 /\ TaskEnded /\ OnDisk

\* What a step may never do: change the result that a receipt has.
ResultsKept ==
    \A j \in Key : receipts[j].status \in Terminal => receipts'[j] \in {receipts[j], NoTask}

\* What a save does to a request that it is not of: nothing, or it prunes its records.
Spared(k) == /\ receipts'[k] = receipts[k] /\ launched'[k] = launched[k]
             /\ k \in answered' => k \in answered
Pruned(k) == receipts'[k] = NoTask /\ launched'[k] = 0 /\ k \notin answered'
OthersKept(k0) == \A k \in Key : k # k0 => Spared(k) \/ Pruned(k)

-----------------------------------------------------------------------------
(* The supervisor: step by step *)

\* What a task is made of.
LEMMA TaskFields ==
    /\ NoTask \in Tasks /\ NoTask.status = None /\ NoTask.status \notin Terminal \cup Unfinished
    /\ \A t \in Tasks : t # NoTask => t.id \in Key /\ t.status \in Unfinished \cup Terminal
  BY DEF Tasks, NoTask, None, Terminal, Unfinished, Actions

\* A task that is given another status is the same task otherwise.
LEMMA FinishedIs ==
    ASSUME NEW t \in Tasks, t # NoTask, NEW s \in Unfinished \cup Terminal
    PROVE  /\ Finished(t, s) \in Tasks /\ Finished(t, s) # NoTask
           /\ Finished(t, s).id = t.id /\ Finished(t, s).status = s
  BY DEF Finished, Tasks, NoTask, None, Terminal, Unfinished, Actions

\* The restored task, if there is one, is the one in task.json and has ended.
LEMMA RestoredIs ==
    ASSUME taskFile \in Tasks
    PROVE  /\ Restored \in Tasks /\ (Restored = NoTask <=> taskFile = NoTask)
           /\ taskFile # NoTask => /\ Restored.id = taskFile.id /\ Restored.status \in Terminal
                                   /\ Restored.status = "succeeded" =>
                                        taskFile.status = "succeeded"
           /\ taskFile.status \in Terminal => Restored = taskFile
  <1>1. CASE taskFile.status \in Unfinished
    <2>1. taskFile # NoTask /\ Restored = Finished(taskFile, "failed")
      BY <1>1, TaskFields DEF Restored
    <2>2. "failed" \in Unfinished \cup Terminal /\ "failed" \in Terminal
          /\ taskFile.status \notin Terminal
      BY <1>1 DEF Terminal, Unfinished
    <2> QED BY <2>1, <2>2, FinishedIs
  <1>2. CASE taskFile.status \notin Unfinished
    BY <1>2, TaskFields DEF Restored
  <1> QED BY <1>1, <1>2

\* A step that leaves the supervisor and its records alone preserves what holds of them.
LEMMA SupervisorLeft ==
    ASSUME SupervisorInv, UNCHANGED <<supervisorVars, recordVars>>
    PROVE  SupervisorInv' /\ ResultsKept
  BY DEF supervisorVars, recordVars, receiptVars, SupervisorInv, SupervisorTypes, Recorded,
         Memory, AdmittedOnce, RequestNew, TaskEnded, OnDisk, Agrees, Restored, ResultsKept

\* What a step that leaves the receipts alone does to the results.
LEMMA ResultsLeft ==
    ASSUME receipts' = receipts
    PROVE  ResultsKept
  BY DEF ResultsKept

\* A receipt that is written, and the old ones that are pruned.
LEMMA RecordDoes ==
    ASSUME SupervisorTypes, NEW r \in Tasks, r # NoTask, NEW told \in SUBSET {r.id},
           NEW gone \in SUBSET (Key \ {r.id}), Record(r, told, gone)
    PROVE  /\ receipts' \in [Key -> Tasks] /\ launched' \in [Key -> Nat]
           /\ OthersKept(r.id)
           /\ receipts'[r.id] = r /\ launched'[r.id] = launched[r.id]
           /\ r.id \in answered' => r.id \in answered \cup told
  <1> DEFINE k0 == r.id
  <1>1. k0 \in Key /\ k0 \notin gone /\ told \subseteq {k0} /\ NoTask \in Tasks
        /\ receipts \in [Key -> Tasks] /\ launched \in [Key -> Nat]
    BY TaskFields DEF SupervisorTypes
  <1>2. /\ receipts' = [k \in Key |-> IF k = k0 THEN r ELSE
                                      IF k \in gone THEN NoTask ELSE receipts[k]]
        /\ launched' = [k \in Key |-> IF k \in gone THEN 0 ELSE launched[k]]
        /\ answered' = (answered \ gone) \cup told
    BY DEF Record
  <1> HIDE DEF k0
  <1>3. receipts' \in [Key -> Tasks] /\ launched' \in [Key -> Nat]
    <2>1. \A k \in Key : receipts[k] \in Tasks /\ launched[k] \in Nat
      BY <1>1
    <2>2. \A k \in Key : (IF k \in gone THEN 0 ELSE launched[k]) \in Nat
      BY <2>1
    <2> QED BY <1>1, <1>2, <2>1, <2>2
  <1>4. receipts'[k0] = r /\ launched'[k0] = launched[k0]
        /\ (k0 \in answered' => k0 \in answered \cup told)
    BY <1>1, <1>2
  <1>5. ASSUME NEW k \in Key, k # k0
        PROVE  Spared(k) \/ Pruned(k)
    <2>1. CASE k \in gone
      BY <1>1, <1>2, <1>5, <2>1 DEF Pruned
    <2>2. CASE k \notin gone
      BY <1>1, <1>2, <1>5, <2>2 DEF Spared
    <2> QED BY <2>1, <2>2
  <1> QED BY <1>3, <1>4, <1>5 DEF OthersKept, k0

\* Without a receipt that is written nothing of the others changes.
LEMMA ReceiptsLeft ==
    ASSUME UNCHANGED receiptVars
    PROVE  \A k0 : OthersKept(k0)
  BY DEF OthersKept, Spared, receiptVars

\* A save, whole or not.
LEMMA SaveDoes ==
    ASSUME SupervisorTypes, NEW t \in Tasks, t # NoTask, NEW done \in 0..3,
           NEW told \in SUBSET {t.id}, Save(t, done, told)
    PROVE  /\ taskFile' = (IF done > 0 THEN t ELSE taskFile) /\ taskFile' \in Tasks
           /\ savePending' = (done < 3)
           /\ receipts' \in [Key -> Tasks] /\ launched' \in [Key -> Nat]
           /\ OthersKept(t.id)
           /\ receipts'[t.id] = (IF done > 1 THEN t ELSE receipts[t.id])
           /\ launched'[t.id] = launched[t.id]
           /\ t.id \in answered' => t.id \in answered \/ (t.id \in told /\ done > 1)
           /\ done < 2 => receipts' = receipts
  <1>1. /\ taskFile' = (IF done > 0 THEN t ELSE taskFile) /\ savePending' = (done < 3)
        /\ taskFile' \in Tasks
    BY DEF Save, Whole, SupervisorTypes
  <1>2. CASE done < 2
    <2>1. UNCHANGED receiptVars
      BY <1>2 DEF Save
    <2>2. ~(done > 1)
      BY <1>2
    <2> QED BY <1>1, <2>1, <2>2, ReceiptsLeft DEF receiptVars, SupervisorTypes
  <1>3. CASE ~(done < 2)
    <2>1. PICK gone \in (IF done = Whole THEN Prunable(t) ELSE {{}}) : Record(t, told, gone)
      BY <1>3 DEF Save
    <2>2. gone \in SUBSET (Key \ {t.id})
      BY DEF Prunable
    <2>3. done > 1
      BY <1>3
    <2> QED BY <1>1, <1>3, <2>1, <2>2, <2>3, RecordDoes
  <1> QED BY <1>2, <1>3

\* A save that failed: nothing of it, or the failure of its task, is on disk, in part.
LEMMA SaveFailedDoes ==
    ASSUME SupervisorTypes, NEW first \in Tasks, first # NoTask, NEW t \in Tasks, t # NoTask,
           t.id = first.id, NEW history \in SUBSET SUBSET (Key \ {t.id}),
           SaveFailed(first, t, history)
    PROVE  /\ taskFile' \in Tasks /\ savePending' \in BOOLEAN
           /\ receipts' \in [Key -> Tasks] /\ launched' \in [Key -> Nat]
           /\ OthersKept(t.id)
           /\ receipts'[t.id] \in {receipts[t.id], first, t}
           /\ launched'[t.id] = launched[t.id]
           /\ t.id \in answered' => t.id \in answered
           /\ taskFile' \in {first, t} \/ (taskFile' = taskFile /\ receipts' = receipts)
           /\ ~savePending' => taskFile' = t /\ receipts'[t.id] = t
  <1>1. ASSUME NEW done \in 0..3, Save(t, done, {})
        PROVE  /\ taskFile' \in Tasks /\ savePending' \in BOOLEAN
               /\ receipts' \in [Key -> Tasks] /\ launched' \in [Key -> Nat]
               /\ OthersKept(t.id)
               /\ receipts'[t.id] \in {receipts[t.id], first, t}
               /\ launched'[t.id] = launched[t.id]
               /\ t.id \in answered' => t.id \in answered
               /\ taskFile' \in {first, t} \/ (taskFile' = taskFile /\ receipts' = receipts)
               /\ ~savePending' => taskFile' = t /\ receipts'[t.id] = t
    <2>1. /\ taskFile' = (IF done > 0 THEN t ELSE taskFile) /\ taskFile' \in Tasks
          /\ savePending' = (done < 3)
          /\ receipts' \in [Key -> Tasks] /\ launched' \in [Key -> Nat]
          /\ OthersKept(t.id)
          /\ receipts'[t.id] = (IF done > 1 THEN t ELSE receipts[t.id])
          /\ launched'[t.id] = launched[t.id]
          /\ t.id \in answered' => t.id \in answered
          /\ done < 2 => receipts' = receipts
      BY <1>1, SaveDoes
    <2>2. done > 0 \/ done < 2
      OBVIOUS
    <2>3. CASE done < 3
      <3>1. savePending' = TRUE
        BY <2>1, <2>3
      <3> QED BY <2>1, <2>2, <3>1
    <2>4. CASE ~(done < 3)
      <3>1. done > 0 /\ done > 1
        BY <2>4
      <3>2. (done < 3) = FALSE
        BY <2>4
      <3>3. savePending' = FALSE
        BY <2>1, <3>2, Zenon
      <3> QED BY <2>1, <3>1, <3>3
    <2> QED BY <2>3, <2>4
  <1>2. ASSUME taskFile' \in {first, t}, savePending' = TRUE,
               \/ UNCHANGED receiptVars
               \/ \E r \in {first, taskFile'}, gone \in history : Record(r, {}, gone)
        PROVE  /\ taskFile' \in Tasks /\ savePending' \in BOOLEAN
               /\ receipts' \in [Key -> Tasks] /\ launched' \in [Key -> Nat]
               /\ OthersKept(t.id)
               /\ receipts'[t.id] \in {receipts[t.id], first, t}
               /\ launched'[t.id] = launched[t.id]
               /\ t.id \in answered' => t.id \in answered
    <2>1. CASE UNCHANGED receiptVars
      BY <1>2, <2>1, ReceiptsLeft DEF receiptVars, SupervisorTypes
    <2>2. CASE \E r \in {first, taskFile'}, gone \in history : Record(r, {}, gone)
      <3>1. PICK r \in {first, t}, gone \in history : Record(r, {}, gone)
        BY <1>2, <2>2
      <3>2. r \in Tasks /\ r # NoTask /\ r.id = t.id /\ gone \in SUBSET (Key \ {r.id})
        OBVIOUS
      <3> QED BY <1>2, <3>1, <3>2, RecordDoes
    <2> QED BY <1>2, <2>1, <2>2
  <1>3. \/ \E done \in 0..3 : Save(t, done, {})
        \/ /\ taskFile' \in {first, t} /\ savePending' = TRUE
           /\ \/ UNCHANGED receiptVars
              \/ \E r \in {first, taskFile'}, gone \in history : Record(r, {}, gone)
    BY DEF SaveFailed, Whole
  <1>4. CASE \E done \in 0..3 : Save(t, done, {})
    BY <1>1, <1>4
  <1>5. CASE ~(\E done \in 0..3 : Save(t, done, {}))
    BY <1>2, <1>3, <1>5
  <1> QED BY <1>4, <1>5

\* What is recorded of a request stays true of it if its receipt stays or is written, and of
\* the others if they are left alone or pruned.
LEMMA RecordedKept ==
    ASSUME Recorded, NEW k0 \in Key, OthersKept(k0), launched'[k0] = launched[k0],
           receipts'[k0] = receipts[k0] \/ (receipts'[k0] # NoTask /\ receipts'[k0].id = k0),
           k0 \in answered' => k0 \in answered \/ receipts'[k0] # NoTask
    PROVE  Recorded'
  <1>1. ASSUME NEW k \in Key
        PROVE  /\ receipts'[k] # NoTask => receipts'[k].id = k
               /\ launched'[k] \in {0, 1}
               /\ launched'[k] # 0 => receipts'[k] # NoTask
               /\ k \in answered' => receipts'[k] # NoTask
    <2>1. CASE k = k0
      BY <2>1 DEF Recorded
    <2>2. CASE k # k0 /\ Spared(k)
      BY <2>2 DEF Recorded, Spared
    <2>3. CASE k # k0 /\ Pruned(k)
      BY <2>3 DEF Pruned
    <2> QED BY <2>1, <2>2, <2>3 DEF OthersKept
  <1> QED BY <1>1 DEF Recorded

\* And no result is changed.
LEMMA ResultsAreKept ==
    ASSUME NEW k0 \in Key, OthersKept(k0),
           receipts[k0].status \in Terminal => receipts'[k0] = receipts[k0]
    PROVE  ResultsKept
  BY DEF ResultsKept, OthersKept, Spared, Pruned

\* What a save leaves: of its task, whole or not, and of the others nothing new.
LEMMA SaveKeeps ==
    ASSUME SupervisorInv, NEW t \in Tasks, t # NoTask, NEW done \in 0..3, Save(t, done, {}),
           Agrees(t), task' = t, loadPending' = FALSE,
           t.status = "succeeded" => receipts[t.id] # NoTask,
           taskFile = NoTask \/ taskFile.id = t.id
              \/ (taskFile.status \in Terminal /\ receipts[taskFile.id] = taskFile),
           t.status \in Terminal
    PROVE  /\ taskFile' \in Tasks /\ receipts' \in [Key -> Tasks] /\ savePending' \in BOOLEAN
           /\ launched' \in [Key -> Nat]
           /\ Recorded' /\ ResultsKept /\ OnDisk'
  <1> DEFINE k0 == t.id
  <1>1. /\ k0 \in Key /\ taskFile \in Tasks /\ receipts \in [Key -> Tasks] /\ Recorded
        /\ SupervisorTypes
    BY TaskFields DEF SupervisorInv, SupervisorTypes
  <1>2. /\ taskFile' = (IF done > 0 THEN t ELSE taskFile) /\ taskFile' \in Tasks
        /\ savePending' = (done < 3)
        /\ receipts' \in [Key -> Tasks] /\ launched' \in [Key -> Nat]
        /\ OthersKept(k0)
        /\ receipts'[k0] = (IF done > 1 THEN t ELSE receipts[k0])
        /\ launched'[k0] = launched[k0]
        /\ k0 \in answered' => k0 \in answered
        /\ done < 2 => receipts' = receipts
    BY <1>1, SaveDoes
  <1>3. receipts[k0].status \in Terminal => receipts[k0] = t
    BY DEF Agrees
  <1>4. t.id = k0
    OBVIOUS
  <1> HIDE DEF k0
  <1>5. receipts'[k0].status \in Terminal => receipts'[k0] = t
    BY <1>2, <1>3
  <1>6. Recorded'
    <2>1. receipts'[k0] = receipts[k0] \/ (receipts'[k0] # NoTask /\ receipts'[k0].id = k0)
      BY <1>2, <1>4
    <2> QED BY <1>1, <1>2, <2>1, RecordedKept
  <1>7. ResultsKept
    <2>1. receipts[k0].status \in Terminal => receipts'[k0] = receipts[k0]
      BY <1>2, <1>3
    <2> QED BY <1>1, <1>2, <2>1, ResultsAreKept
  <1>8. Restored' = (IF done > 0 THEN t ELSE Restored)
    BY <1>2, TaskFields DEF Restored, Terminal, Unfinished
  <1>9. CASE done > 0
    <2>1. taskFile' = t /\ Restored' = t
      BY <1>2, <1>8, <1>9
    <2>2. ~savePending' => receipts'[k0] = t
      <3>1. CASE done < 3
        BY <1>2, <3>1
      <3>2. CASE ~(done < 3)
        <4>1. done > 1
          BY <3>2
        <4> QED BY <1>2, <4>1
      <3> QED BY <3>1, <3>2
    <2>3. t.status = "succeeded" => receipts'[k0] # NoTask
      BY <1>2, <1>4
    <2>4. Agrees(t)'
      BY <1>4, <1>5 DEF Agrees
    <2>5. OnDisk'
      BY <1>4, <2>1, <2>2, <2>3, <2>4 DEF OnDisk, Agrees
    <2>6. savePending' \in BOOLEAN
      BY <1>2
    <2> QED BY <1>2, <1>6, <1>7, <2>5, <2>6
  <1>10. CASE ~(done > 0)
    <2>1. taskFile' = taskFile /\ Restored' = Restored /\ receipts' = receipts
      <3>1. done < 2
        BY <1>10
      <3> QED BY <1>2, <1>8, <1>10, <3>1
    <2>2. savePending' = TRUE
      <3>1. (done < 3) = TRUE
        BY <1>10
      <3> QED BY <1>2, <3>1, Zenon
    <2>3. Agrees(t)' /\ (taskFile # NoTask => Agrees(Restored)')
      BY <2>1 DEF Agrees, SupervisorInv, OnDisk
    <2>4. OnDisk'
      <3>1. taskFile.status = "succeeded" => receipts[taskFile.id] # NoTask
        BY DEF SupervisorInv, OnDisk
      <3> QED BY <2>1, <2>2, <2>3, <3>1 DEF OnDisk, Agrees
    <2> QED BY <1>2, <1>6, <1>7, <2>2, <2>4
  <1> QED BY <1>9, <1>10

\* A (re)start that restores the task of task.json.
LEMMA RestoreKeeps ==
    ASSUME SupervisorInv, Restore, worker = "none", request = NoTask, task = NoTask, ~savePending,
           alive', UNCHANGED <<worker, request>>
    PROVE  SupervisorInv' /\ ResultsKept
  <1>1. CASE loadPending' = TRUE /\ UNCHANGED <<task, recordVars, savePending>>
    <2>1. ~savePending' /\ task' = NoTask /\ task.status # "succeeded"
      BY <1>1, TaskFields DEF Terminal
    <2> QED BY <1>1, <2>1 DEF recordVars, receiptVars, SupervisorInv, SupervisorTypes, Recorded,
              Memory, AdmittedOnce, RequestNew, TaskEnded, OnDisk, Agrees, Restored, ResultsKept
  <1>2. CASE loadPending' = FALSE /\ task' = Restored /\ Restored = NoTask
             /\ UNCHANGED <<recordVars, savePending>>
    <2>1. taskFile = NoTask /\ task' = NoTask
      BY <1>2, RestoredIs DEF SupervisorInv, SupervisorTypes
    <2>2. Restored' = NoTask
      BY <1>2, <2>1 DEF recordVars, Restored
    <2> QED BY <1>2, <2>1, TaskFields DEF recordVars, receiptVars, SupervisorInv,
              SupervisorTypes, Recorded, Memory, AdmittedOnce, RequestNew, TaskEnded, OnDisk,
              Agrees, Terminal, ResultsKept
  <1>3. ASSUME loadPending' = FALSE, task' = Restored, Restored # NoTask,
               NEW done \in 0..3, Save(Restored, done, {})
        PROVE  SupervisorInv' /\ ResultsKept
    <2>1. /\ Restored \in Tasks /\ taskFile # NoTask /\ Restored.id = taskFile.id
          /\ Restored.status \in Terminal
          /\ Restored.status = "succeeded" => taskFile.status = "succeeded"
      BY <1>3, RestoredIs DEF SupervisorInv, SupervisorTypes
    <2>2. Agrees(Restored) /\ (Restored.status = "succeeded" => receipts[Restored.id] # NoTask)
      BY <2>1 DEF SupervisorInv, OnDisk
    <2> DEFINE t == Restored
    <2>3. /\ taskFile' \in Tasks /\ receipts' \in [Key -> Tasks] /\ savePending' \in BOOLEAN
          /\ launched' \in [Key -> Nat]
          /\ Recorded' /\ ResultsKept /\ OnDisk'
      <3>1. /\ t \in Tasks /\ t # NoTask /\ Save(t, done, {}) /\ Agrees(t)
            /\ t.status \in Terminal /\ task' = t /\ loadPending' = FALSE
            /\ t.status = "succeeded" => receipts[t.id] # NoTask
            /\ taskFile.id = t.id
        BY <1>3, <2>1, <2>2
      <3> HIDE DEF t
      <3> QED BY <3>1, SaveKeeps
    <2> QED BY <1>3, <2>1, <2>3 DEF SupervisorInv, SupervisorTypes, Memory, AdmittedOnce,
              RequestNew, TaskEnded
  <1>4. Outcome \subseteq 0..3
    BY DEF Outcome, Whole
  <1> QED BY <1>1, <1>2, <1>3, <1>4 DEF Restore

\* start() of a known request answers, and fails a receipt that says it is not over.
LEMMA KnownKeeps ==
    ASSUME SupervisorInv, NEW k \in Key, NEW action \in Actions, NEW target \in Release,
           StartKnown(k, action, target)
    PROVE  SupervisorInv' /\ ResultsKept
  <1>1. /\ alive /\ request = NoTask /\ ~loadPending
        /\ UNCHANGED <<supervisorVars, taskFile, launched>>
    BY DEF StartKnown
  <1>2. CASE task.id = k /\ task.action = action /\ Answer(k, task) /\ UNCHANGED receipts
    <2>1. answered' = answered \/ (answered' = answered \cup {k} /\ task.status # "failed")
      BY <1>2 DEF Answer
    <2>2. task # NoTask
      BY <1>2 DEF NoTask, Actions, None
    <2>3. task.status # "failed" => receipts[k] # NoTask
      <3>1. CASE worker = "none"
        <4>1. task.status \in Terminal
          BY <2>2, <3>1 DEF SupervisorInv, TaskEnded
        <4> QED BY <1>2, <4>1 DEF SupervisorInv, OnDisk, Terminal
      <3>2. CASE worker # "none"
        <4>1. receipts[task.id] = task
          BY <3>2, <2>2, <1>1 DEF SupervisorInv, Memory, OnDisk
        <4> QED BY <1>2, <2>2, <4>1
      <3> QED BY <3>1, <3>2
    <2> QED BY <1>1, <1>2, <2>1, <2>3 DEF supervisorVars, SupervisorInv, SupervisorTypes,
              Recorded, Memory, AdmittedOnce, RequestNew, TaskEnded, OnDisk, Agrees, Restored,
              ResultsKept
  <1>3. CASE /\ task.id # k /\ receipts[k] # NoTask
             /\ receipts' = [receipts EXCEPT ![k] =
                    IF @.status \in Unfinished THEN Finished(@, "failed") ELSE @]
             /\ Answer(k, receipts'[k])
    <2> DEFINE r == IF receipts[k].status \in Unfinished THEN Finished(receipts[k], "failed")
                                                         ELSE receipts[k]
    <2>1. receipts[k] \in Tasks /\ receipts \in [Key -> Tasks] /\ receipts[k].id = k
      BY <1>3 DEF SupervisorInv, SupervisorTypes, Recorded
    <2>2. /\ r \in Tasks /\ r # NoTask /\ r.id = k
          /\ receipts[k].status \in Terminal => r = receipts[k]
      <3>1. CASE receipts[k].status \in Unfinished
        <4>1. "failed" \in Unfinished \cup Terminal /\ receipts[k].status \notin Terminal
          BY <3>1 DEF Terminal, Unfinished
        <4> QED BY <1>3, <2>1, <3>1, <4>1, FinishedIs
      <3>2. CASE receipts[k].status \notin Unfinished
        BY <1>3, <2>1, <3>2
      <3> QED BY <3>1, <3>2
    <2>3. /\ receipts' = [receipts EXCEPT ![k] = r]
          /\ receipts' \in [Key -> Tasks] /\ receipts'[k] = r
          /\ \A j \in Key : j # k => receipts'[j] = receipts[j]
      BY <1>3, <2>1, <2>2
    <2> HIDE DEF r
    <2>4. \A j \in Key : /\ receipts'[j] # NoTask => receipts'[j].id = j
                         /\ receipts[j] # NoTask => receipts'[j] # NoTask
                         /\ receipts[j].status \in Terminal => receipts'[j] = receipts[j]
      BY <1>3, <2>2, <2>3 DEF SupervisorInv, Recorded
    <2>5. answered' \subseteq answered \cup {k}
      BY <1>3 DEF Answer
    <2>6. Recorded'
      BY <1>1, <2>2, <2>3, <2>4, <2>5 DEF SupervisorInv, Recorded
    \* the receipts of the two tasks that are known stay
    <2>7. /\ task # NoTask => task.id \in Key /\ receipts'[task.id] = receipts[task.id]
          /\ taskFile # NoTask => taskFile.id \in Key
          /\ taskFile # NoTask =>
               receipts'[taskFile.id] = receipts[taskFile.id]
      <3>1. task # NoTask => task.id \in Key
        BY TaskFields DEF SupervisorInv, SupervisorTypes
      <3>2. taskFile # NoTask => taskFile.id \in Key
        BY TaskFields DEF SupervisorInv, SupervisorTypes
      <3>3. taskFile # NoTask /\ taskFile.id # task.id =>
              taskFile.status \in Terminal /\ receipts[taskFile.id] = taskFile
        BY <1>1 DEF SupervisorInv, OnDisk
      <3> QED BY <1>3, <2>3, <2>4, <3>1, <3>2, <3>3
    <2>8. OnDisk'
      <3>1. Restored' = Restored /\ taskFile' = taskFile /\ task' = task
        BY <1>1 DEF Restored, supervisorVars
      <3>2. taskFile # NoTask => Agrees(Restored)'
        <4>1. taskFile # NoTask => Restored.id = taskFile.id
          BY RestoredIs DEF SupervisorInv, SupervisorTypes
        <4> QED BY <2>7, <3>1, <4>1 DEF SupervisorInv, OnDisk, Agrees
      <3>3. savePending => task # NoTask /\ Agrees(task)'
        BY <2>7, <3>1 DEF SupervisorInv, Memory, OnDisk, Agrees
      <3>4. /\ task.status = "succeeded" => task # NoTask
            /\ taskFile.status = "succeeded" => taskFile # NoTask
        BY TaskFields DEF Terminal
      <3> QED BY <1>1, <2>7, <3>1, <3>2, <3>3, <3>4 DEF supervisorVars, SupervisorInv, OnDisk
    <2> QED BY <1>1, <2>3, <2>4, <2>6, <2>8 DEF supervisorVars, SupervisorInv, SupervisorTypes,
              Memory, AdmittedOnce, RequestNew, TaskEnded, ResultsKept
  <1> QED BY <1>2, <1>3 DEF StartKnown

\* The start of the process, the repair of an unfinished save and a failed callback.
LEMMA RepairKeeps ==
    ASSUME SupervisorInv, SupervisorBoot \/ Repair \/ CallbackFails
    PROVE  SupervisorInv' /\ ResultsKept
  <1>1. CASE SupervisorBoot
    <2>1. worker = "none" /\ request = NoTask /\ task = NoTask /\ ~savePending
      BY <1>1 DEF SupervisorBoot, SupervisorInv, Memory
    <2> QED BY <1>1, <2>1, RestoreKeeps DEF SupervisorBoot
  <1>2. CASE Repair /\ loadPending
    <2>1. worker = "none" /\ request = NoTask /\ task = NoTask /\ ~savePending
      BY <1>2 DEF Repair, SupervisorInv, Memory
    <2> QED BY <1>2, <2>1, RestoreKeeps DEF Repair
  <1>3. CASE Repair /\ ~loadPending /\ savePending
    <2>1. PICK done \in 0..3 : Save(task, done, {})
      BY <1>3 DEF Repair, Outcome, Whole
    <2>2. /\ alive /\ request = NoTask /\ worker = "none"
          /\ UNCHANGED <<alive, task, loadPending, worker, request>>
      BY <1>3 DEF Repair, SupervisorInv, Memory
    <2>3. /\ task \in Tasks /\ task # NoTask /\ task.status \in Terminal /\ Agrees(task)
          /\ task.status = "succeeded" => receipts[task.id] # NoTask
          /\ taskFile = NoTask \/ taskFile.id = task.id
              \/ (taskFile.status \in Terminal /\ receipts[taskFile.id] = taskFile)
      BY <1>3, <2>2 DEF SupervisorInv, SupervisorTypes, Memory, TaskEnded, OnDisk
    <2>4. /\ taskFile' \in Tasks /\ receipts' \in [Key -> Tasks] /\ savePending' \in BOOLEAN
          /\ launched' \in [Key -> Nat]
          /\ Recorded' /\ ResultsKept /\ OnDisk'
      <3>1. task' = task /\ loadPending' = FALSE
        BY <1>3, <2>2 DEF SupervisorInv, SupervisorTypes
      <3> QED BY <2>1, <2>3, <3>1, SaveKeeps
    <2> QED BY <1>3, <2>2, <2>3, <2>4 DEF SupervisorInv, SupervisorTypes, Memory, AdmittedOnce,
              RequestNew, TaskEnded
  <1>4. CASE (Repair /\ ~loadPending /\ ~savePending) \/ CallbackFails
    <2>1. UNCHANGED <<alive, task, savePending, loadPending, worker, request, recordVars>>
      BY <1>4 DEF Repair, CallbackFails
    <2> QED BY <2>1 DEF recordVars, receiptVars, SupervisorInv, SupervisorTypes, Recorded,
              Memory, AdmittedOnce, RequestNew, TaskEnded, OnDisk, Agrees, Restored, ResultsKept
  <1> QED BY <1>1, <1>2, <1>3, <1>4

\* A request that is admitted is not known yet.
LEMMA AdmitKeeps ==
    ASSUME SupervisorInv, NEW k \in Key, NEW action \in Actions, NEW target \in Release,
           StartAdmit(k, action, target)
    PROVE  SupervisorInv' /\ ResultsKept
  <1>1. /\ request' \in Tasks /\ request'.id = k /\ request'.status = "accepted"
        /\ receipts[k] = NoTask /\ worker = "none"
        /\ alive /\ ~loadPending /\ ~savePending
        /\ UNCHANGED <<alive, task, savePending, loadPending, worker, recordVars>>
    BY DEF StartAdmit, Clean, Tasks
  <1> QED BY <1>1 DEF recordVars, receiptVars, SupervisorInv, SupervisorTypes, Recorded, Memory,
            AdmittedOnce, RequestNew, TaskEnded, OnDisk, Agrees, Restored, ResultsKept

\* What the second section of start() leaves of the records of its request.
LEMMA RequestFacts ==
    ASSUME SupervisorInv, request # NoTask
    PROVE  /\ request \in Tasks /\ request.id \in Key /\ request.status = "accepted"
           /\ receipts[request.id] = NoTask /\ worker = "none" /\ launched[request.id] = 0
           /\ alive /\ ~loadPending /\ ~savePending /\ request.id \notin answered
           /\ taskFile = task /\ (task # NoTask => receipts[task.id] = task /\ task.id \in Key
                                                   /\ task.status \in Terminal)
           /\ receipts \in [Key -> Tasks] /\ task \in Tasks
  <1>1. /\ request \in Tasks /\ request.id \in Key /\ request.status = "accepted"
        /\ receipts[request.id] = NoTask /\ alive /\ ~loadPending /\ ~savePending
        /\ worker = "none" /\ task \in Tasks /\ receipts \in [Key -> Tasks]
    BY TaskFields DEF SupervisorInv, SupervisorTypes, RequestNew, Memory, AdmittedOnce
  <1>2. launched[request.id] = 0 /\ request.id \notin answered
    BY <1>1 DEF SupervisorInv, Recorded
  <1>3. taskFile = task /\ (task # NoTask => receipts[task.id] = task)
    BY <1>1 DEF SupervisorInv, OnDisk
  <1>4. task # NoTask => task.id \in Key /\ task.status \in Terminal
    BY <1>1, TaskFields DEF SupervisorInv, TaskEnded
  <1> QED BY <1>1, <1>2, <1>3, <1>4

\* A save that succeeds.
LEMMA SavedWhole ==
    ASSUME SupervisorTypes, NEW t \in Tasks, t # NoTask, NEW told \in SUBSET {t.id},
           Save(t, Whole, told)
    PROVE  /\ taskFile' = t /\ savePending' = FALSE
           /\ receipts' \in [Key -> Tasks] /\ launched' \in [Key -> Nat]
           /\ OthersKept(t.id)
           /\ receipts'[t.id] = t /\ launched'[t.id] = launched[t.id]
  <1>1. /\ 3 \in 0..3 /\ 3 > 0 /\ 3 > 1 /\ (3 < 3) = FALSE
    BY SMT
  <1>2. Save(t, 3, told)
    BY DEF Whole
  <1>3. /\ taskFile' = t /\ savePending' = (3 < 3)
        /\ receipts' \in [Key -> Tasks] /\ launched' \in [Key -> Nat]
        /\ OthersKept(t.id)
        /\ receipts'[t.id] = t /\ launched'[t.id] = launched[t.id]
    BY <1>1, <1>2, SaveDoes
  <1>4. savePending' = FALSE
    BY <1>1, <1>3, Zenon
  <1> QED BY <1>3, <1>4

\* The request becomes the task, accepted and on disk.
LEMMA AcceptKeeps ==
    ASSUME SupervisorInv, StartAccept
    PROVE  SupervisorInv' /\ ResultsKept
  <1> DEFINE k0 == request.id
             t == request
  <1>1. /\ t # NoTask /\ t \in Tasks /\ k0 \in Key /\ t.status = "accepted" /\ t.id = k0
        /\ receipts[k0] = NoTask /\ launched[k0] = 0
        /\ alive /\ ~loadPending /\ ~savePending /\ receipts \in [Key -> Tasks]
    BY RequestFacts DEF StartAccept
  <1>2. /\ taskFile' = t /\ savePending' = FALSE
        /\ receipts' \in [Key -> Tasks] /\ launched' \in [Key -> Nat]
        /\ OthersKept(k0) /\ receipts'[k0] = t /\ launched'[k0] = launched[k0]
    <2>1. Save(t, Whole, {t.id}) /\ SupervisorTypes
      BY DEF StartAccept, SupervisorInv
    <2> HIDE DEF t
    <2> QED BY <1>1, <2>1, SavedWhole
  <1>3. /\ task' = t /\ worker' = "admitted" /\ request' = NoTask
        /\ UNCHANGED <<alive, loadPending>>
    BY DEF StartAccept
  <1> HIDE DEF k0, t
  <1>4. t.status \notin Terminal /\ t.status # "succeeded" /\ NoTask.status \notin Terminal
    BY <1>1, TaskFields DEF Terminal
  <1>5. Recorded' /\ ResultsKept
    BY <1>1, <1>2, <1>4, RecordedKept, ResultsAreKept DEF SupervisorInv
  <1>6. OnDisk'
    <2>1. Restored' = Finished(t, "failed")
      BY <1>1, <1>2 DEF Restored, Unfinished
    <2>2. Agrees(Restored)'
      <3>1. "failed" \in Unfinished \cup Terminal
        BY DEF Terminal
      <3>2. Restored'.id = k0
        BY <1>1, <2>1, <3>1, FinishedIs
      <3> QED BY <1>2, <1>4, <3>2 DEF Agrees
    <2> QED BY <1>1, <1>2, <1>3, <1>4, <2>2 DEF OnDisk
  <1> QED BY <1>1, <1>2, <1>3, <1>5, <1>6, TaskFields DEF SupervisorInv, SupervisorTypes,
            Memory, AdmittedOnce, RequestNew, TaskEnded

\* The request failed; how much of it is on disk is open.
LEMMA RefusedKeeps ==
    ASSUME SupervisorInv, StartRefused
    PROVE  SupervisorInv' /\ ResultsKept
  <1> DEFINE k0 == request.id
             q == request
             t == Finished(request, "failed")
  <1>1. /\ q # NoTask /\ q \in Tasks /\ k0 \in Key /\ q.status = "accepted" /\ q.id = k0
        /\ receipts[k0] = NoTask /\ worker = "none" /\ k0 \notin answered
        /\ alive /\ ~loadPending /\ ~savePending /\ receipts \in [Key -> Tasks]
        /\ taskFile = task /\ task \in Tasks
        /\ task # NoTask => receipts[task.id] = task /\ task.id \in Key
           /\ task.status \in Terminal
    BY RequestFacts DEF StartRefused
  <1>2. /\ t \in Tasks /\ t # NoTask /\ t.id = k0
        /\ t.status = "failed" /\ t = Finished(q, "failed")
    BY <1>1, FinishedIs DEF Terminal
  <1>3. /\ task' = t /\ request' = NoTask
        /\ UNCHANGED <<alive, loadPending, worker>>
    BY DEF StartRefused
  <1>4. /\ taskFile' \in Tasks /\ savePending' \in BOOLEAN
        /\ receipts' \in [Key -> Tasks] /\ launched' \in [Key -> Nat]
        /\ OthersKept(k0)
        /\ receipts'[k0] \in {receipts[k0], q, t}
        /\ launched'[k0] = launched[k0]
        /\ k0 \in answered' => k0 \in answered
        /\ taskFile' \in {q, t} \/ (taskFile' = taskFile /\ receipts' = receipts)
        /\ ~savePending' => taskFile' = t /\ receipts'[k0] = t
    <2>1. SaveFailed(q, t, Prunable(q)) /\ SupervisorTypes
      BY DEF StartRefused, SupervisorInv
    <2>2. Prunable(q) \in SUBSET SUBSET (Key \ {t.id})
      BY <1>1, <1>2 DEF Prunable
    <2> HIDE DEF q, t, k0
    <2> QED BY <1>1, <1>2, <2>1, <2>2, SaveFailedDoes
  <1> HIDE DEF k0, q, t
  <1>6. /\ NoTask.status \notin Terminal /\ t.status \in Terminal /\ t.status # "succeeded"
        /\ q.status # "succeeded" /\ q.status \notin Terminal
    BY <1>1, <1>2, TaskFields DEF Terminal
  <1>7. Recorded'
    <2>1. receipts'[k0] = receipts[k0] \/ (receipts'[k0] # NoTask /\ receipts'[k0].id = k0)
      BY <1>1, <1>2, <1>4
    <2> QED BY <1>1, <1>4, <2>1, RecordedKept DEF SupervisorInv
  <1>8. ResultsKept
    BY <1>1, <1>4, <1>6, ResultsAreKept
  <1>9. OnDisk'
    <2>1. Agrees(task)'
      BY <1>1, <1>2, <1>3, <1>4, <1>6 DEF Agrees
    <2>2. CASE taskFile' \in {q, t}
      <3>1. Restored' = t
        BY <1>1, <1>2, <2>2 DEF Restored, Unfinished
      <3>2. Agrees(Restored)'
        BY <1>3, <2>1, <3>1 DEF Agrees
      <3>3. taskFile'.id = task'.id /\ taskFile'.status # "succeeded"
        BY <1>1, <1>2, <1>3, <1>6, <2>2
      <3> QED BY <1>2, <1>3, <1>4, <1>6, <2>1, <3>2, <3>3 DEF OnDisk
    <2>3. CASE taskFile' \notin {q, t}
      <3>1. taskFile' = task /\ receipts' = receipts /\ savePending' = TRUE
        BY <1>1, <1>4, <2>3
      <3>2. Restored' = Restored
        BY <1>1, <3>1 DEF Restored
      <3>3. taskFile' # NoTask => Agrees(Restored)'
        BY <1>1, <3>1, <3>2 DEF Agrees, SupervisorInv, OnDisk
      <3>4. task.status = "succeeded" => task # NoTask
        BY TaskFields DEF Terminal
      <3> QED BY <1>1, <1>2, <1>3, <1>6, <2>1, <3>1, <3>3, <3>4 DEF OnDisk
    <2> QED BY <2>2, <2>3
  <1> QED BY <1>1, <1>2, <1>3, <1>4, <1>6, <1>7, <1>8, <1>9, TaskFields DEF SupervisorInv,
            SupervisorTypes, Memory, AdmittedOnce, RequestNew, TaskEnded

\* What a worker knows of its task and of the records.
LEMMA WorkerFacts ==
    ASSUME SupervisorInv, worker # "none"
    PROVE  /\ task \in Tasks /\ task # NoTask /\ task.id \in Key /\ taskFile = task
           /\ receipts[task.id] = task /\ receipts \in [Key -> Tasks]
           /\ task.status = (IF worker = "admitted" THEN "accepted" ELSE "running")
           /\ worker # "wait" => launched[task.id] = 0
           /\ alive /\ ~loadPending /\ ~savePending /\ request = NoTask
  <1>1. /\ task \in Tasks /\ task # NoTask /\ receipts \in [Key -> Tasks]
        /\ task.status = (IF worker = "admitted" THEN "accepted" ELSE "running")
        /\ worker # "wait" => launched[task.id] = 0
        /\ alive /\ ~loadPending /\ ~savePending /\ request = NoTask
    BY DEF SupervisorInv, SupervisorTypes, Memory, AdmittedOnce
  <1>2. taskFile = task /\ receipts[task.id] = task
    BY <1>1 DEF SupervisorInv, OnDisk
  <1> QED BY <1>1, <1>2, TaskFields

\* The task ends, with whatever of it is on disk.
LEMMA EndKeeps ==
    ASSUME SupervisorInv, worker # "none", NEW status \in Terminal, NEW done \in 0..3,
           Finish(status, done), worker' = "none", UNCHANGED <<alive, loadPending, request>>
    PROVE  SupervisorInv' /\ ResultsKept
  <1> DEFINE t == Finished(task, status)
  <1>1. /\ task \in Tasks /\ task # NoTask /\ task.id \in Key /\ taskFile = task
        /\ receipts[task.id] = task /\ alive /\ ~loadPending /\ request = NoTask
        /\ task.status \notin Terminal
    BY WorkerFacts DEF Terminal
  <1>2. t \in Tasks /\ t # NoTask /\ t.id = task.id /\ t.status = status
    BY <1>1, FinishedIs
  <1>3. /\ Agrees(t) /\ task' = t /\ loadPending' = FALSE /\ Save(t, done, {})
        /\ taskFile.id = t.id /\ receipts[t.id] # NoTask
    BY <1>1, <1>2 DEF Agrees, SupervisorInv, SupervisorTypes, Finish
  <1> HIDE DEF t
  <1>4. /\ taskFile' \in Tasks /\ receipts' \in [Key -> Tasks] /\ savePending' \in BOOLEAN
        /\ launched' \in [Key -> Nat]
        /\ Recorded' /\ ResultsKept /\ OnDisk'
    BY <1>2, <1>3, SaveKeeps
  <1> QED BY <1>1, <1>2, <1>3, <1>4 DEF SupervisorInv, SupervisorTypes, Memory, AdmittedOnce,
            RequestNew, TaskEnded

\* The worker writes that its task runs, or fails it.
LEMMA RunningKeeps ==
    ASSUME SupervisorInv, ExecuteRunning
    PROVE  SupervisorInv' /\ ResultsKept
  <1> DEFINE k0 == task.id
             run == Finished(task, "running")
             failed == Finished(task, "failed")
  <1>0. worker = "admitted" /\ UNCHANGED <<alive, loadPending, request>> /\ SupervisorTypes
    BY DEF ExecuteRunning, SupervisorInv
  <1>1. /\ task \in Tasks /\ task # NoTask /\ k0 \in Key /\ taskFile = task
        /\ receipts[k0] = task /\ receipts \in [Key -> Tasks] /\ task.id = k0
        /\ alive /\ ~loadPending /\ ~savePending /\ request = NoTask
        /\ task.status = "accepted" /\ launched[k0] = 0
    BY <1>0, WorkerFacts
  <1>2. /\ run \in Tasks /\ run # NoTask /\ run.id = k0 /\ run.status = "running"
        /\ failed \in Tasks /\ failed # NoTask /\ failed.id = k0 /\ failed.status = "failed"
        /\ Finished(run, "failed").id = k0
    <2>1. {"running", "failed"} \subseteq Unfinished \cup Terminal
      BY DEF Unfinished, Terminal
    <2> QED BY <1>1, <2>1, FinishedIs
  <1>3. /\ task.status \notin Terminal /\ run.status \notin Terminal /\ failed.status \in Terminal
        /\ run.status # "succeeded" /\ failed.status # "succeeded" /\ task.status # "succeeded"
        /\ NoTask.status \notin Terminal
    BY <1>1, <1>2, TaskFields DEF Terminal
  <1>4. \/ Save(run, Whole, {}) /\ task' = run /\ worker' = "run"
        \/ SaveFailed(run, failed, {{}}) /\ task' = failed /\ worker' = "none"
    BY DEF ExecuteRunning
  <1> HIDE DEF k0, run, failed
  <1>5. CASE Save(run, Whole, {}) /\ task' = run /\ worker' = "run"
    <2>1. /\ taskFile' = run /\ savePending' = FALSE
          /\ receipts' \in [Key -> Tasks] /\ launched' \in [Key -> Nat]
          /\ OthersKept(k0) /\ receipts'[k0] = run /\ launched'[k0] = launched[k0]
      BY <1>0, <1>2, <1>5, SavedWhole
    <2>2. Recorded' /\ ResultsKept
      BY <1>1, <1>2, <1>3, <2>1, RecordedKept, ResultsAreKept DEF SupervisorInv
    <2>3. OnDisk'
      <3>1. Restored' = Finished(run, "failed")
        BY <1>2, <2>1 DEF Restored, Unfinished
      <3>2. Agrees(Restored)'
        BY <1>2, <1>3, <2>1, <3>1 DEF Agrees
      <3> QED BY <1>2, <1>3, <1>5, <2>1, <3>2 DEF OnDisk
    <2> QED BY <1>0, <1>1, <1>2, <1>5, <2>1, <2>2, <2>3 DEF SupervisorInv, SupervisorTypes,
              Memory, AdmittedOnce, RequestNew, TaskEnded
  <1>6. CASE SaveFailed(run, failed, {{}}) /\ task' = failed /\ worker' = "none"
    <2>1. /\ taskFile' \in Tasks /\ savePending' \in BOOLEAN
          /\ receipts' \in [Key -> Tasks] /\ launched' \in [Key -> Nat]
          /\ OthersKept(k0)
          /\ receipts'[k0] \in {task, run, failed}
          /\ launched'[k0] = launched[k0]
          /\ taskFile' \in {run, failed} \/ taskFile' = taskFile
          /\ ~savePending' => taskFile' = failed /\ receipts'[k0] = failed
      <3>1. {{}} \in SUBSET SUBSET (Key \ {k0})
        OBVIOUS
      <3> QED BY <1>0, <1>1, <1>2, <1>6, <3>1, SaveFailedDoes
    <2>2. Recorded'
      <3>1. receipts'[k0] # NoTask /\ receipts'[k0].id = k0
        BY <1>1, <1>2, <2>1
      <3> QED BY <1>1, <2>1, <3>1, RecordedKept DEF SupervisorInv
    <2>3. ResultsKept
      BY <1>1, <1>3, <2>1, ResultsAreKept
    <2>4. Agrees(task)' /\ Agrees(Restored)'
      <3>1. CASE taskFile' = failed
        <4>1. Restored' = failed
          BY <1>2, <3>1 DEF Restored, Unfinished
        <4> QED BY <1>2, <1>3, <1>6, <2>1, <4>1 DEF Agrees
      <3>2. CASE taskFile' \in {task, run}
        <4>1. Restored' = Finished(taskFile', "failed")
          BY <1>1, <1>2, <3>2 DEF Restored, Unfinished
        <4>2. Restored' = failed
          BY <1>1, <3>2, <4>1 DEF run, failed, Finished, Tasks
        <4> QED BY <1>2, <1>3, <1>6, <2>1, <4>2 DEF Agrees
      <3> QED BY <1>1, <2>1, <3>1, <3>2
    <2>5. OnDisk'
      <3>1. taskFile'.id = k0 /\ taskFile'.status # "succeeded"
        BY <1>1, <1>2, <1>3, <2>1
      <3> QED BY <1>2, <1>3, <1>6, <2>1, <2>4, <3>1 DEF OnDisk
    <2> QED BY <1>0, <1>1, <1>2, <1>3, <1>6, <2>1, <2>2, <2>3, <2>5 DEF SupervisorInv,
              SupervisorTypes, Memory, AdmittedOnce, RequestNew, TaskEnded
  <1> QED BY <1>4, <1>5, <1>6

\* The installer is launched for a task that it was not launched for.
LEMMA LaunchKeeps ==
    ASSUME SupervisorInv, Launch
    PROVE  SupervisorInv' /\ ResultsKept
  <1> DEFINE k0 == task.id
  <1>1. /\ k0 \in Key /\ receipts[k0] = task /\ task # NoTask /\ launched[k0] = 0
        /\ task.status = "running" /\ worker = "run"
    BY WorkerFacts DEF Launch
  <1>2. /\ worker' = "wait" /\ launched' = [launched EXCEPT ![k0] = @ + 1]
        /\ UNCHANGED <<alive, task, savePending, loadPending, request, taskFile, receipts,
                       answered>>
    BY DEF Launch
  <1> HIDE DEF k0
  <1>3. /\ launched' \in [Key -> Nat] /\ launched'[k0] = 1
        /\ \A k \in Key : k # k0 => launched'[k] = launched[k]
    BY <1>1, <1>2 DEF SupervisorInv, SupervisorTypes
  <1>4. Recorded'
    BY <1>1, <1>2, <1>3 DEF SupervisorInv, Recorded
  <1> QED BY <1>1, <1>2, <1>3, <1>4, ResultsLeft DEF SupervisorInv, SupervisorTypes, Memory,
            AdmittedOnce, RequestNew, TaskEnded, OnDisk, Agrees, Restored

\* The supervisor dies; what it had written stays.
LEMMA GoneKeeps ==
    ASSUME SupervisorInv, alive' = FALSE, task' = NoTask, savePending' = FALSE,
           loadPending' = FALSE, worker' = "none", request' = NoTask,
           UNCHANGED recordVars
    PROVE  SupervisorInv' /\ ResultsKept
  <1>1. NoTask \in Tasks /\ NoTask.status # "succeeded"
    BY TaskFields DEF Terminal
  <1> QED BY <1>1 DEF recordVars, receiptVars, SupervisorInv, SupervisorTypes, Recorded, Memory,
            AdmittedOnce, RequestNew, TaskEnded, OnDisk, Agrees, Restored, ResultsKept

\* Every step of the device keeps what holds of the supervisor, and every result.
LEMMA SupervisorStep ==
    ASSUME SupervisorInv, [MaintenanceNext]_maintenanceVars
    PROVE  SupervisorInv' /\ ResultsKept
  <1>1. CASE UNCHANGED <<supervisorVars, recordVars>>
    BY <1>1, SupervisorLeft
  <1>2. "failed" \in Terminal /\ "succeeded" \in Terminal /\ Outcome \subseteq 0..3
        /\ Whole = 3
    BY DEF Terminal, Outcome, Whole
  <1>3. CASE Repairs
    <2>1. CASE ExecuteEnd \/ LaunchFails
      <3>1. PICK done \in 0..3, status \in Terminal : Finish(status, done)
        BY <1>2, <2>1 DEF ExecuteEnd, LaunchFails
      <3>2. worker # "none" /\ worker' = "none" /\ UNCHANGED <<alive, loadPending, request>>
        BY <2>1 DEF ExecuteEnd, LaunchFails
      <3> QED BY <3>1, <3>2, EndKeeps
    <2> QED BY <1>3, <2>1, RepairKeeps, RefusedKeeps, RunningKeeps DEF Repairs
  <1>4. CASE Requests
    BY <1>4, KnownKeeps, AdmitKeeps, AcceptKeeps, LaunchKeeps DEF Requests
  <1>5. CASE ExecuteTimeout
    <2>1. PICK done \in 0..3 : Finish("failed", done)
      BY <1>2, <1>5 DEF ExecuteTimeout
    <2>2. /\ worker # "none" /\ worker' = "none"
          /\ UNCHANGED <<alive, loadPending, request>>
      BY <1>5 DEF ExecuteTimeout
    <2> QED BY <1>2, <2>1, <2>2, EndKeeps
  <1>6. CASE ReloadSupervisor \/ SupervisorCrash \/ DevicePowerLoss
    BY <1>6, GoneKeeps DEF ReloadSupervisor, SupervisorCrash, SupervisorGone, DevicePowerLoss
  <1> QED BY <1>1, <1>3, <1>4, <1>5, <1>6 DEF MaintenanceNext, DeployerStep, SupervisedStep,
            maintenanceVars, firmwareVars

\* The device after its first installation, and the one before it.
LEMMA SupervisorStarts ==
    ASSUME MaintenanceInit
    PROVE  SupervisorInv
  <1>1. /\ task = NoTask /\ taskFile = NoTask /\ request = NoTask /\ worker = "none"
        /\ receipts = [k \in Key |-> NoTask] /\ launched = [k \in Key |-> 0] /\ answered = {}
        /\ alive \in BOOLEAN /\ savePending = FALSE /\ loadPending = FALSE
    BY DEF MaintenanceInit, FirmwareInit
  <1>2. NoTask.status # "succeeded"
    BY TaskFields DEF Terminal
  <1> QED BY <1>1, <1>2, TaskFields DEF SupervisorInv, SupervisorTypes, Recorded, Memory,
            AdmittedOnce, RequestNew, TaskEnded, OnDisk, Agrees

\* Every reachable state of the device satisfies the supervisor's invariant
\* (firmware_control.py).
THEOREM SupervisorInvHolds == MaintenanceSpec => []SupervisorInv
  <1>1. MaintenanceInit => SupervisorInv
    BY SupervisorStarts
  <1>2. SupervisorInv /\ [MaintenanceNext]_maintenanceVars => SupervisorInv'
    BY SupervisorStep
  <1> QED BY <1>1, <1>2, PTL DEF MaintenanceSpec

\* As long as its receipt is kept a request is executed at most once; one that was answered,
\* and the one that is being executed, has a receipt (start, _save_task, _execute).
THEOREM AtMostOnceCorrect == MaintenanceSpec => []TaskAtMostOnce
  <1>1. SupervisorInv => TaskAtMostOnce
    <2>1. SupervisorInv /\ worker # "none" => receipts[task.id] # NoTask
      BY WorkerFacts
    <2> QED BY <2>1 DEF SupervisorInv, Recorded, TaskAtMostOnce
  <1> QED BY <1>1, SupervisorInvHolds, PTL

\* No step changes the result in a receipt; it is pruned with its receipt alone (_save_task,
\* _repair_task_state, start).
THEOREM ReceiptFinalCorrect == MaintenanceSpec => ReceiptFinal
  <1>1. SupervisorInv /\ [MaintenanceNext]_maintenanceVars =>
          [\A k \in Key : receipts[k].status \in Terminal =>
                            receipts'[k] \in {receipts[k], NoTask}]_maintenanceVars
    BY SupervisorStep DEF ResultsKept
  <1> QED BY <1>1, SupervisorInvHolds, PTL DEF MaintenanceSpec, ReceiptFinal

-----------------------------------------------------------------------------
(* The device: the supervisor, the update it runs and the deployer *)

UpdaterSteps == {"lock", "fetch", "bundle", "ready", "waiting", "verify", "exit0", "exit1"}
\* A take needs the service that records it, and no update runs into it.
TakesSpared == (capture => running # None) /\ UpdateSparesTakes

\* An update knows its release once it has the manifest of the channel.
Aimed == /\ channel \in Release
         /\ updater.action = "update" /\ updater.pc \in {"bundle", "ready"} =>
               updater.target \in Release

DeviceInv == SupervisorInv /\ DeployInv /\ updater \in Updater /\ Aimed /\ TakesSpared

\* An update that goes to its next step.
LEMMA UpdateWentTo ==
    ASSUME updater \in Updater, updater # NoUpdater, NEW step \in UpdaterSteps,
           updater' = [updater EXCEPT !.pc = step]
    PROVE  /\ updater' \in Updater /\ updater'.pc = step
           /\ updater'.action = updater.action /\ updater'.target = updater.target
  BY DEF Updater, UpdaterSteps

\* The release that the channel offers is a release.
LEMMA ChannelKept ==
    ASSUME channel \in Release, [MaintenanceNext]_maintenanceVars
    PROVE  channel' \in Release
  <1>1. CASE Publish
    BY <1>1 DEF Publish
  <1>2. CASE channel' = channel
    BY <1>2
  <1>3. Publish \/ channel' = channel
    <2>1. CASE SupervisedStep
      <3>1. CASE Repairs
        BY <3>1 DEF Repairs, SupervisorBoot, Repair, CallbackFails, StartRefused,
                    ExecuteRunning, LaunchFails, ExecuteEnd, worldVars
      <3>2. CASE Requests
        BY <3>2 DEF Requests, StartKnown, StartAdmit, StartAccept, Launch, worldVars
      <3>3. CASE ExecuteTimeout \/ ReloadSupervisor \/ SupervisorCrash
        BY <3>3 DEF ExecuteTimeout, ReloadSupervisor, SupervisorCrash, SupervisorGone, worldVars
      <3> QED BY <2>1, <3>1, <3>2, <3>3 DEF SupervisedStep, CaptureStart, CaptureStop, worldVars
    <2>2. CASE DeployerStep \/ DevicePowerLoss
      BY <2>2 DEF DeployerStep, DevicePowerLoss
    <2>3. CASE UNCHANGED maintenanceVars
      BY <2>3 DEF maintenanceVars, firmwareVars, worldVars
    <2> QED BY <2>1, <2>2, <2>3 DEF MaintenanceNext
  <1> QED BY <1>1, <1>2, <1>3

\* Nothing but update.py's own steps leads to its wait for the deployer.
LEMMA UpdaterSteady ==
    ASSUME SupervisorInv, updater \in Updater, Aimed, [MaintenanceNext]_maintenanceVars
    PROVE  /\ updater' \in Updater /\ Aimed'
           /\ updater'.pc = "waiting" => updater.pc = "waiting" \/ (~direct /\ UpdaterDeploys)
  <1> USE DEF NoUpdater, None
  <1>1. updater.pc # "none" => updater # NoUpdater
    OBVIOUS
  <1>2. NoUpdater \in Updater /\ NoUpdater.pc \notin {"waiting", "bundle", "ready"}
    BY DEF Updater
  <1>0. channel \in Release /\ channel' \in Release
    BY ChannelKept DEF Aimed
  <1>3. CASE updater' \in {updater, NoUpdater}
    BY <1>0, <1>2, <1>3 DEF Aimed
  \* a step that does not lead to the bundle, and from the bundle alone to the deployer
  <1>4. ASSUME updater.pc # "none", NEW step \in UpdaterSteps \ {"bundle"},
               updater' = [updater EXCEPT !.pc = step],
               step = "ready" => updater.pc = "bundle" \/ updater.action # "update",
               step = "waiting" => ~direct /\ UpdaterDeploys
        PROVE  /\ updater' \in Updater /\ Aimed'
               /\ updater'.pc = "waiting" => ~direct /\ UpdaterDeploys
    <2>1. /\ updater' \in Updater /\ updater'.pc = step
          /\ updater'.action = updater.action /\ updater'.target = updater.target
      BY <1>1, <1>4, UpdateWentTo
    <2> QED BY <1>0, <1>4, <2>1 DEF Aimed
  <1>5. CASE DeployerStep
    <2>1. \/ updater' = updater
          \/ updater.pc = "waiting" /\ \E step \in {"verify", "exit1"} :
                updater' = [updater EXCEPT !.pc = step]
      BY <1>5 DEF DeployerStep
    <2> QED BY <1>3, <1>4, <2>1 DEF UpdaterSteps
  <1>6. CASE UpdaterDeploys /\ ~direct
    BY <1>4, <1>6 DEF UpdaterDeploys, UpdateGo, UpdaterSteps
  <1>7. CASE Launch
    <2>1. task.action \in Actions /\ task.target \in Release
      BY <1>7, WorkerFacts DEF Launch, SupervisorInv, SupervisorTypes, Tasks
    <2>2. updater' = [pc |-> "lock", by |-> "worker", action |-> task.action,
                      target |-> task.target]
      BY <1>7 DEF Launch
    <2> QED BY <1>0, <2>1, <2>2 DEF Updater, Aimed
  <1>8. CASE UpdaterStep
    <2>1. CASE \E a \in Actions : CliUpdate(a)
      BY <1>0, <2>1 DEF CliUpdate, Updater, Aimed
    <2>2. CASE CliEnd
      BY <1>3, <2>2 DEF CliEnd
    <2>3. CASE UpdaterFetch /\ Expected(channel)
      <3>1. PICK step \in {"exit0", "bundle"} :
              updater' = [updater EXCEPT !.target = channel, !.pc = step]
        BY <2>3 DEF UpdaterFetch
      <3>2. updater # NoUpdater
        BY <1>1, <2>3 DEF UpdaterFetch
      <3>3. /\ updater' \in Updater /\ updater'.pc = step /\ updater'.target = channel
        BY <1>0, <3>1, <3>2 DEF Updater
      <3> QED BY <1>0, <3>3 DEF Aimed
    <2>4. CASE UpdaterFetch /\ ~Expected(channel)
      BY <1>4, <2>4 DEF UpdaterFetch, UpdateGo, UpdaterSteps
    <2>5. CASE UpdaterLock
      <3>1. updater.pc # "none"
        BY <2>5 DEF UpdaterLock
      <3>2. PICK step \in {"exit1", "ready", "fetch"} :
              /\ updater' = [updater EXCEPT !.pc = step]
              /\ step = "ready" => updater.action = "rollback"
        BY <2>5 DEF UpdaterLock, UpdateGo
      <3> QED BY <1>4, <3>1, <3>2 DEF UpdaterSteps
    <2>6. CASE UpdaterBundle
      <3>1. updater.pc = "bundle" /\ \E step \in {"ready", "exit1"} :
               updater' = [updater EXCEPT !.pc = step]
        BY <2>6 DEF UpdaterBundle, UpdateGo
      <3> QED BY <1>4, <3>1 DEF UpdaterSteps
    <2>7. CASE UpdaterRefused \/ UpdaterVerify
      <3>1. updater.pc # "none" /\ \E step \in {"exit0", "exit1"} :
               updater' = [updater EXCEPT !.pc = step]
        BY <2>7 DEF UpdaterRefused, UpdaterVerify, UpdateGo
      <3> QED BY <1>4, <3>1 DEF UpdaterSteps
    <2> QED BY <1>8, <2>1, <2>2, <2>3, <2>4, <2>5, <2>6, <2>7 DEF UpdaterStep
  <1>9. CASE Repairs
    BY <1>3, <1>9 DEF Repairs, SupervisorBoot, Repair, CallbackFails, StartRefused,
                      ExecuteRunning, LaunchFails, ExecuteEnd
  <1>10. CASE Requests
    <2>1. Launch \/ updater' = updater
      BY <1>10 DEF Requests, StartKnown, StartAdmit, StartAccept
    <2> QED BY <1>3, <1>7, <2>1
  <1>11. CASE UNCHANGED updater \/ UpdateDies \/ DevicePowerLoss
    BY <1>3, <1>11 DEF UpdateDies, DevicePowerLoss
  <1> QED BY <1>5, <1>6, <1>8, <1>9, <1>10, <1>11 DEF MaintenanceNext, SupervisedStep,
          ReloadSupervisor, SupervisorCrash, maintenanceVars, firmwareVars

\* Every step of the device keeps what holds of its deployer.
LEMMA DeployerKept ==
    ASSUME DeployInv, updater \in Updater, Aimed, [MaintenanceNext]_maintenanceVars
    PROVE  DeployInv'
  <1> USE DEF restVars, links, units, files, counts, lasting, deployVars
  <1>1. CASE DeployerStep \/ DevicePowerLoss
    BY <1>1, LocalKeeps, PowerLossKeeps DEF DeployerStep, DevicePowerLoss
  <1>2. CASE UNCHANGED <<restVars, op, outcome>>
    BY <1>2, DeployerLeft
  <1>3. CASE UpdaterDeploys
    <2>1. updater # NoUpdater
      BY <1>3 DEF UpdaterDeploys, NoUpdater, None
    <2>2. CASE DeployBegin("rollback", None, TRUE)
      BY <2>2, DeployBeginKeeps DEF Links
    <2>3. CASE updater.action = "update" /\ DeployBegin("install", updater.target, TRUE)
      <3>1. updater.target \in Release
        BY <1>3, <2>3 DEF UpdaterDeploys, Aimed
      <3> QED BY <2>3, <3>1, DeployBeginKeeps DEF Links
    <2>4. updater.action \in Actions
      BY <2>1 DEF Updater
    <2> QED BY <1>3, <2>2, <2>3, <2>4 DEF UpdaterDeploys, Actions
  <1>4. CASE UpdateDies /\ UNCHANGED restVars
    <2>1. (op' = NoOp /\ outcome' = NoOp) \/ UNCHANGED <<op, outcome>>
      BY <1>4 DEF UpdateDies
    <2> QED BY <1>2, <1>4, <2>1, GoneDeployer
  <1>5. CASE SupervisedStep
    <2>1. \/ UNCHANGED <<restVars, op, outcome>>
          \/ UpdaterDeploys
          \/ UpdateDies /\ UNCHANGED restVars
      BY <1>5 DEF SupervisedStep, ReloadSupervisor, SupervisorCrash
    <2> QED BY <1>2, <1>3, <1>4, <2>1
  <1>6. CASE UNCHANGED maintenanceVars
    BY <1>2, <1>6 DEF maintenanceVars
  <1> QED BY <1>1, <1>5, <1>6 DEF MaintenanceNext

\* And that no update runs into a take.
LEMMA TakesSparedKept ==
    ASSUME DeviceInv, [MaintenanceNext]_maintenanceVars
    PROVE  TakesSpared'
  <1>1. /\ updater'.pc = "waiting" => updater.pc = "waiting" \/ (~direct /\ UpdaterDeploys)
        /\ running # None => current # None
        /\ TakesSpared
    BY UpdaterSteady DEF DeviceInv, DeployInv, Lasting
  <1>2. CASE DeployerStep
    <2>1. /\ capture' = (capture /\ running' # None)
          /\ updater'.pc = "waiting" => updater.pc = "waiting" \/ capture' = capture
      BY <1>1, <1>2 DEF DeployerStep
    <2>2. UpdaterDeploys => ~capture'
      BY <1>1, <2>1 DEF UpdaterDeploys, RequireIdle, TakesSpared
    <2> QED BY <1>1, <2>1, <2>2 DEF TakesSpared, UpdateSparesTakes
  <1>3. CASE capture' = capture /\ running' = running
    <2>1. UpdaterDeploys => ~capture
      BY <1>1 DEF UpdaterDeploys, RequireIdle, TakesSpared
    <2> QED BY <1>1, <1>3, <2>1 DEF TakesSpared, UpdateSparesTakes
  <1>4. CASE capture' = FALSE
    BY <1>4 DEF TakesSpared, UpdateSparesTakes
  <1>5. CASE CaptureStart /\ UNCHANGED <<updater, deployVars>>
    BY <1>5 DEF CaptureStart, UpdaterHolds, deployVars, units, TakesSpared, UpdateSparesTakes
  <1>6. DeployerStep \/ (capture' = capture /\ running' = running) \/ capture' = FALSE
        \/ (CaptureStart /\ UNCHANGED <<updater, deployVars>>)
    <2>1. CASE SupervisedStep
      <3>1. CASE Repairs /\ UNCHANGED restVars
        BY <3>1 DEF Repairs, SupervisorBoot, Repair, CallbackFails, StartRefused,
                    ExecuteRunning, LaunchFails, ExecuteEnd, worldVars, restVars, units
      <3>2. CASE Requests /\ UNCHANGED restVars
        BY <3>2 DEF Requests, StartKnown, StartAdmit, StartAccept, Launch, worldVars, restVars,
                    units
      <3>3. CASE UpdaterStep /\ UNCHANGED <<worldVars, deployVars>>
        BY <3>3 DEF worldVars, deployVars, units
      <3>4. CASE UpdaterDeploys /\ UNCHANGED worldVars
        BY <3>4 DEF UpdaterDeploys, DeployBegin, worldVars, units
      <3>5. CASE (Publish \/ CaptureStart \/ CaptureStop) /\ UNCHANGED <<updater, deployVars>>
        BY <3>5 DEF Publish, CaptureStop, deployVars, units
      <3>6. CASE (ExecuteTimeout \/ ReloadSupervisor \/ SupervisorCrash) /\ UNCHANGED restVars
        BY <3>6 DEF ExecuteTimeout, ReloadSupervisor, SupervisorCrash, SupervisorGone, worldVars,
                    restVars, units
      <3> QED BY <2>1, <3>1, <3>2, <3>3, <3>4, <3>5, <3>6 DEF SupervisedStep
    <2>2. CASE DevicePowerLoss
      BY <2>2 DEF DevicePowerLoss
    <2>3. CASE UNCHANGED maintenanceVars
      BY <2>3 DEF maintenanceVars, firmwareVars, worldVars, deployVars, units
    <2> QED BY <2>1, <2>2, <2>3 DEF MaintenanceNext
  <1> QED BY <1>2, <1>3, <1>4, <1>5, <1>6

\* The device as it is delivered, and before its first installation.
LEMMA DeviceStarts ==
    ASSUME MaintenanceInit
    PROVE  DeviceInv
  <1>1. SupervisorInv
    BY SupervisorStarts
  <1>2. DeployInv
    <2>1. CASE DeployInit
      BY <2>1, DeployStarts
    <2>2. CASE \E r \in Release : Installed(r)
      <3>1. PICK r \in Release : Installed(r)
        BY <2>2
      <3>2. /\ [NoConfig EXCEPT !.set = TRUE] \in Confs /\ NoConfig \in Confs
            /\ [NoConfig EXCEPT !.set = TRUE].set = TRUE
        BY DEF NoConfig, Confs
      <3>3. r # None
        BY ReleaseAssumption
      <3>4. DeployTypes
        BY <3>1, <3>2, TxIs DEF Installed, DeployTypes, Links
      <3>5. Lasting
        BY <3>1, <3>2, <3>3, TxIs DEF Installed, Lasting, Recoverable, Complete, Quiet
      <3> QED BY <3>1, <3>4, <3>5 DEF Installed, DeployInv, OpFacts, OutcomeTruth
    <2> QED BY <2>1, <2>2 DEF MaintenanceInit
  <1>3. updater \in Updater /\ Aimed /\ TakesSpared
    BY DEF MaintenanceInit, FirmwareInit, Updater, NoUpdater, None, Aimed, TakesSpared,
           UpdateSparesTakes
  <1> QED BY <1>1, <1>2, <1>3 DEF DeviceInv

\* Every reachable state of the device satisfies the invariant of its parts (deployment.py,
\* firmware_control.py, update.py).
THEOREM DeviceInvHolds == MaintenanceSpec => []DeviceInv
  <1>1. MaintenanceInit => DeviceInv
    BY DeviceStarts
  <1>2. DeviceInv /\ [MaintenanceNext]_maintenanceVars => DeviceInv'
    BY SupervisorStep, UpdaterSteady, DeployerKept, TakesSparedKept DEF DeviceInv
  <1> QED BY <1>1, <1>2, PTL DEF MaintenanceSpec

\* Whatever a deployer does, fails at or is killed in: the services run the committed
\* release, a recovery can finish, and what was reported is what was left (install,
\* rollback, recover).
THEOREM DeploymentCorrect == MaintenanceSpec => []DeploymentSafe
  <1>1. DeviceInv => DeploymentSafe
    BY DEF DeviceInv, DeployInv, Lasting, DeploymentSafe, ServicesOnCommitted, Complete
  <1> QED BY <1>1, DeviceInvHolds, PTL

\* An update that was admitted never cuts a take short (update.py).
THEOREM UpdateSparesTakesCorrect == MaintenanceSpec => []UpdateSparesTakes
  <1>1. DeviceInv => UpdateSparesTakes
    BY DEF DeviceInv, TakesSpared
  <1> QED BY <1>1, DeviceInvHolds, PTL
=============================================================================
