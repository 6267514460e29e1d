----------------------------- MODULE NetworkStream -----------------------------
(***************************************************************************)
(* The network event stream of the gateway: the status the device projects *)
(* from the network controller, or from disk under an authority of its own *)
(* when the controller does not answer, the replay buffer that decides     *)
(* whether a status is news, and the readers that sample the status        *)
(* outside the buffer's lock and apply it later.                           *)
(***************************************************************************)
EXTENDS Naturals, Sequences

CONSTANTS
    Follower,          \* SSE readers of network events
    NetWindow,         \* events kept for replay (128 in the code)
    MaxChanges,        \* bound: changes of the network of a behaviour
    MaxAuthority       \* bound: authorities of the controller's state store

ASSUME NetStreamBounds == NetWindow \in Nat \ {0} /\ MaxChanges \in Nat /\ MaxAuthority \in Nat \ {0}

VARIABLES
    authority,         \* controller: [epoch, revision, tx, up]
    observed,          \* what the device observes beside the controller's state
    changes,           \* history: changes made so far
    log,               \* buffer: events kept, oldest first
    nextDelivery,      \* buffer: next delivery identity
    lastStatus,        \* buffer: status published last
    retired,           \* buffer: authorities that another one replaced
    follower,          \* reader: [at, sample]
    seen,              \* reader: delivery identity it saw last, 0 for none
    shown,             \* reader: status of the event it saw last
    outgrown           \* history: authorities a reader was shown and left

sourceVars == <<authority, observed, changes>>
logVars == <<log, nextDelivery, lastStatus, retired>>
followerVars == <<follower, seen, shown, outgrown>>
netStreamVars == <<sourceVars, logVars, followerVars>>

Nothing == [epoch |-> 0, revision |-> 0, tx |-> FALSE, observed |-> 0]

(* The authority that stands in for a controller that does not answer. *)
StandIn == 100

(* network_status_v1. *)
Status ==
    IF authority.up
      THEN [epoch |-> authority.epoch, revision |-> authority.revision,
            tx |-> authority.tx, observed |-> observed]
      ELSE [epoch |-> StandIn, revision |-> 0, tx |-> FALSE, observed |-> observed]

NetStreamInit ==
    /\ authority = [epoch |-> 1, revision |-> 0, tx |-> FALSE, up |-> TRUE]
    /\ observed = 0
    /\ changes = 0
    /\ log = <<>>
    /\ nextDelivery = 1
    /\ lastStatus = Nothing
    /\ retired = {}
    /\ follower = [f \in Follower |-> [at |-> "off", sample |-> Nothing]]
    /\ seen = [f \in Follower |-> 0]
    /\ shown = [f \in Follower |-> Nothing]
    /\ outgrown = [f \in Follower |-> {}]

-----------------------------------------------------------------------------
(* The controller and the network.                                          *)

Changing == changes < MaxChanges /\ changes' = changes + 1

(* A transaction, or the controller by itself, takes a new revision. *)
Revise ==
    /\ Changing
    /\ authority.up
    /\ \E tx \in BOOLEAN :
         authority' = [authority EXCEPT !.revision = @ + 1, !.tx = tx]
    /\ UNCHANGED <<observed, logVars, followerVars>>

(* What is observed changes under the same revision. *)
Observe ==
    /\ Changing
    /\ observed' = 1 - observed
    /\ UNCHANGED <<authority, logVars, followerVars>>

(* The controller does not answer one status request, or many. *)
ControllerSilent ==
    /\ Changing
    /\ authority.up
    /\ authority' = [authority EXCEPT !.up = FALSE]
    /\ UNCHANGED <<observed, logVars, followerVars>>

ControllerAnswers ==
    /\ ~authority.up
    /\ authority' = [authority EXCEPT !.up = TRUE]
    /\ UNCHANGED <<observed, changes, logVars, followerVars>>

(* A controller that finds no state store begins a new authority. *)
ControllerReset ==
    /\ Changing
    /\ ~authority.up
    /\ authority.epoch < MaxAuthority
    /\ authority' = [epoch |-> authority.epoch + 1, revision |-> 0, tx |-> FALSE, up |-> TRUE]
    /\ UNCHANGED <<observed, logVars, followerVars>>

-----------------------------------------------------------------------------
(* The buffer.                                                              *)

Relation_Trusting(s) ==
    IF lastStatus = Nothing THEN "new"
    ELSE IF s.epoch = lastStatus.epoch
      THEN IF s.revision # lastStatus.revision THEN "new"
           ELSE IF s # lastStatus THEN "projection" ELSE "same"
    ELSE IF s.epoch \in retired THEN "stale" ELSE "new_authority"

(* How a status stands to the one published last. *)
Relation(s) ==
    IF lastStatus = Nothing THEN "new"
    ELSE IF s.epoch = lastStatus.epoch
      THEN IF s.revision < lastStatus.revision THEN "stale"
           ELSE IF s.revision > lastStatus.revision THEN "new"
           ELSE IF s # lastStatus THEN "projection" ELSE "same"
    ELSE IF s.epoch \in retired THEN "stale" ELSE "new_authority"

NetEvent(id, s, snapshot) ==
    [id |-> id, status |-> s, kind |-> IF s.tx /\ ~snapshot THEN "transaction" ELSE "snapshot"]

NetPublish(id, s, snapshot) ==
    LET grown == Append(log, NetEvent(id, s, snapshot))
    IN  /\ log' = IF Len(grown) > NetWindow THEN Tail(grown) ELSE grown
        /\ nextDelivery' = id + 1
        /\ lastStatus' = s
        /\ retired' = IF lastStatus # Nothing /\ lastStatus.epoch # s.epoch
                        THEN retired \cup {lastStatus.epoch} ELSE retired

(* A snapshot for a reader whose cursor is not in the window: of the status  *)
(* it sampled unless that one is old.                                        *)
PublishSnapshot(s) ==
    NetPublish(nextDelivery,
               IF Relation(s) \in {"same", "stale"} THEN lastStatus ELSE s, TRUE)

(* What observing a status publishes. *)
ObserveStatus(s) ==
    IF Relation(s) \in {"same", "stale"}
      THEN UNCHANGED logVars
      ELSE NetPublish(nextDelivery, s, Relation(s) # "new")

Known(id) == \E i \in 1 .. Len(log) : log[i].id = id

-----------------------------------------------------------------------------
(* The readers: _network_events.                                            *)

Sample(f) ==
    /\ follower[f].at \in {"off", "on"}
    /\ follower' = [follower EXCEPT ![f] =
                      [at |-> IF @.at = "off" THEN "open" ELSE "poll", sample |-> Status]]
    /\ UNCHANGED <<sourceVars, logVars, seen, shown, outgrown>>

(* A prefix of the events after the cursor reaches the reader: up to the n-th *)
(* of the log, or none of them.                                              *)
NetReceive(f) ==
    LET unread == {i \in 1 .. Len(log') : log'[i].id > seen[f]}
    IN  \E n \in {0} \cup unread :
          /\ follower' = [follower EXCEPT ![f].at =
                             IF \A i \in unread : i <= n THEN "on" ELSE "off"]
          /\ seen' = IF n = 0 THEN seen ELSE [seen EXCEPT ![f] = log'[n].id]
          /\ shown' = IF n = 0 THEN shown ELSE [shown EXCEPT ![f] = log'[n].status]
          /\ outgrown' = [outgrown EXCEPT ![f] =
                (@ \cup {shown[f].epoch} \cup {log'[i].status.epoch : i \in unread \cap 1 .. n})
                  \ {0, shown'[f].epoch}]

NetReplay(f) ==
    /\ follower[f].at \in {"open", "poll"}
    /\ IF Known(seen[f])
         THEN ObserveStatus(follower[f].sample)
         ELSE PublishSnapshot(follower[f].sample)
    /\ NetReceive(f)
    /\ UNCHANGED sourceVars

NetDisconnect(f) ==
    /\ follower[f].at \in {"on", "open", "poll"}
    /\ follower' = [follower EXCEPT ![f].at = "off"]
    /\ UNCHANGED <<sourceVars, logVars, seen, shown, outgrown>>

NetStreamNext ==
    \/ Revise \/ Observe \/ ControllerSilent \/ ControllerAnswers \/ ControllerReset
    \/ \E f \in Follower : Sample(f) \/ NetReplay(f) \/ NetDisconnect(f)

(* Every reconnection may publish: a bound for the model checker. *)
NetStreamBound == nextDelivery <= MaxChanges + 3

NetStreamSpec == NetStreamInit /\ [][NetStreamNext]_netStreamVars

-----------------------------------------------------------------------------
(* Properties.                                                              *)

NetStreamTypeOK ==
    /\ Len(log) <= NetWindow
    /\ \A i \in 1 .. Len(log) : log[i].id < nextDelivery
    /\ \A f \in Follower : follower[f].at \in {"off", "open", "on", "poll"} /\ seen[f] < nextDelivery

(* Readers sample the status without the buffer's lock, so an old sample may *)
(* be applied after a newer one; what a reader is shown never goes back to an*)
(* older revision, nor to an authority it has left.                          *)
NetworkStreamForward ==
    [][\A f \in Follower :
         shown'[f] # shown[f] =>
           /\ shown'[f].epoch = shown[f].epoch => shown'[f].revision >= shown[f].revision
           /\ shown'[f].epoch \notin outgrown[f]]_netStreamVars

(* The stream carries the changes of the network status: a reader that just  *)
(* polled, and whose sample is the status in force, shows its authority.     *)
NetworkStreamCurrent ==
    \A f \in Follower :
      follower[f].at = "on" /\ follower[f].sample = Status => shown[f].epoch = Status.epoch

=============================================================================
