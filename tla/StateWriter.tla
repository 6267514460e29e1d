----------------------------- MODULE StateWriter -----------------------------
(***************************************************************************)
(* _persist_local_state and the command receipts it makes durable.         *)
(*                                                                         *)
(* A writer snapshots the state under the capture lock, numbers the        *)
(* snapshot and releases the lock; the SQLite transaction runs later under *)
(* a lock of its own.  Checkpoints of the recorder, the stop worker, stop  *)
(* acceptances and idempotent commands write concurrently, so a write may  *)
(* be delayed past a newer one, may raise, and the process may be killed   *)
(* between any two steps.                                                  *)
(***************************************************************************)
EXTENDS Naturals, FiniteSets

CONSTANTS
    Keys,         \* command scopes
    Writers,      \* threads that persist the state
    CacheSize,    \* receipts kept in memory (1024 in the code)
    MaxReceipts,  \* bound: receipts created in one behaviour
    MaxVersion,   \* bound: changes of the lifecycle state
    Duplicates,   \* TRUE when a client repeats a stop that is still being accepted
    None          \* Python's None

ASSUME WriterAssumption ==
    /\ CacheSize \in Nat \ {0}
    /\ MaxReceipts \in Nat /\ MaxVersion \in Nat
    /\ Duplicates \in BOOLEAN
    /\ None \notin Keys \cup Writers

VARIABLES
    version,      \* the in-memory lifecycle state, numbered by its changes
    commands,     \* _commands: the identity of the receipt cached per key
    nextId,       \* identity of the next receipt object
    lock,         \* the thread that holds _lock across its write, or None
    accept,       \* _stop_acceptance_inflight
    saved,        \* old_commands, captured by the acceptance in flight
    seq,          \* _state_write_sequence
    pseq,         \* _state_persisted_sequence
    persisted,    \* _persisted_commands
    doc,          \* SQLite: the capture document, by its version
    rows,         \* SQLite: table capture_commands
    pc,           \* where a writer is
    job,          \* "idempotent", "accept" or "background"
    key,          \* the key a writer serves, or None
    snap,         \* the snapshot a writer holds
    answered      \* receipts clients were answered with

memVars == <<version, commands, nextId, lock, accept, saved>>
seqVars == <<seq, pseq, persisted>>
dbVars == <<doc, rows>>
writerVars == <<pc, job, key, snap>>
vars == <<memVars, seqVars, dbVars, writerVars, answered>>

Empty == [k \in Keys |-> 0]
Cache == [Keys -> Nat]
Snapshots == [seq : Nat, version : Nat, commands : Cache]
NoSnapshot == [seq |-> 0, version |-> 0, commands |-> Empty]

TypeOK ==
    /\ version \in Nat /\ nextId \in Nat \ {0}
    /\ commands \in Cache /\ saved \in Cache /\ persisted \in Cache /\ rows \in Cache
    /\ answered \in Cache
    /\ lock \in Writers \cup {None}
    /\ accept \in Keys \cup {None}
    /\ seq \in Nat /\ pseq \in Nat /\ doc \in Nat
    /\ pc \in [Writers -> {"idle", "snap", "write", "reply", "accepted", "rollback"}]
    /\ job \in [Writers -> {"idempotent", "accept", "background"}]
    /\ key \in [Writers -> Keys \cup {None}]
    /\ snap \in [Writers -> Snapshots]

\* A daemon that has just started with an empty database.
Init ==
    /\ version = 0 /\ commands = Empty /\ nextId = 1
    /\ lock = None /\ accept = None /\ saved = Empty
    /\ seq = 1 /\ pseq = 1 /\ persisted = Empty
    /\ doc = 0 /\ rows = Empty
    /\ pc = [w \in Writers |-> "idle"]
    /\ job = [w \in Writers |-> "background"]
    /\ key = [w \in Writers |-> None]
    /\ snap = [w \in Writers |-> NoSnapshot]
    /\ answered = Empty

-----------------------------------------------------------------------------
Held(c) == {k \in Keys : c[k] # 0}
Oldest(c) == CHOOSE k \in Held(c) : \A j \in Held(c) : c[k] <= c[j]

\* _cache_command: insert, then drop the oldest receipt of a full cache.
Cached(c, k) ==
    LET d == [c EXCEPT ![k] = nextId]
    IN  IF Cardinality(Held(d)) > CacheSize THEN [d EXCEPT ![Oldest(d)] = 0] ELSE d

\* Clients of an evicted key hold no promise any more.
Retired(c) == [k \in Keys |-> IF c[k] = 0 THEN 0 ELSE answered[k]]

\* _local_state_write, under the capture lock.
TakeSnapshot(w, v, c) ==
    /\ seq' = seq + 1
    /\ snap' = [snap EXCEPT ![w] = [seq |-> seq + 1, version |-> v, commands |-> c]]

Become(w, step, what, k) ==
    /\ pc' = [pc EXCEPT ![w] = step]
    /\ job' = [job EXCEPT ![w] = what]
    /\ key' = [key EXCEPT ![w] = k]

-----------------------------------------------------------------------------
(* Commands.                                                                *)

\* Any change of the lifecycle state under the lock, to be persisted later.
Change ==
    /\ lock = None /\ version < MaxVersion
    /\ version' = version + 1
    /\ UNCHANGED <<commands, nextId, lock, accept, saved, seqVars, dbVars, writerVars, answered>>

ExecuteAdmitted_DuringAcceptance(k) == lock = None /\ commands[k] = 0

\* _idempotent refuses a new command while a stop is being accepted.
ExecuteAdmitted(k) == lock = None /\ accept = None /\ commands[k] = 0

\* _idempotent: execute, remember the receipt, and write with the lock held.
Execute(w, k) ==
    /\ pc[w] = "idle"
    /\ ExecuteAdmitted(k)
    /\ nextId <= MaxReceipts /\ version < MaxVersion
    /\ version' = version + 1
    /\ commands' = Cached(commands, k)
    /\ answered' = Retired(Cached(commands, k))
    /\ nextId' = nextId + 1
    /\ lock' = w
    /\ TakeSnapshot(w, version + 1, Cached(commands, k))
    /\ Become(w, "write", "idempotent", k)
    /\ UNCHANGED <<accept, saved, pseq, persisted, dbVars>>

ReplayAdmitted_Cached(k) == commands[k] # 0

\* _idempotent and _prepare_stop_request replay only a durable receipt.
ReplayAdmitted(k) == commands[k] # 0 /\ persisted[k] = commands[k]

Replay(k) ==
    /\ lock = None
    /\ ReplayAdmitted(k)
    /\ accept = k => Duplicates
    /\ answered' = [answered EXCEPT ![k] = commands[k]]
    /\ UNCHANGED <<memVars, seqVars, dbVars, writerVars>>

\* _idempotent: a cached receipt whose write failed is written again.
RetryWrite(w, k) ==
    /\ pc[w] = "idle" /\ lock = None /\ accept = None
    /\ commands[k] # 0 /\ persisted[k] # commands[k]
    /\ lock' = w
    /\ TakeSnapshot(w, version, commands)
    /\ Become(w, "write", "idempotent", k)
    /\ UNCHANGED <<version, commands, nextId, accept, saved, pseq, persisted, dbVars, answered>>

\* _prepare_stop_request caches the receipt and releases the lock.
AcceptStop(w, k) ==
    /\ pc[w] = "idle" /\ lock = None /\ accept = None /\ commands[k] = 0
    /\ nextId <= MaxReceipts
    /\ saved' = commands
    /\ commands' = Cached(commands, k)
    /\ answered' = Retired(Cached(commands, k))
    /\ nextId' = nextId + 1
    /\ accept' = k
    /\ Become(w, "snap", "accept", k)
    /\ UNCHANGED <<version, lock, seqVars, dbVars, snap>>

\* A checkpoint, the stop worker or a failure commit wants to persist.
Background(w) ==
    /\ pc[w] = "idle"
    /\ Become(w, "snap", "background", None)
    /\ UNCHANGED <<memVars, seqVars, dbVars, snap, answered>>

-----------------------------------------------------------------------------
(* _persist_local_state.                                                    *)

Snapshot(w) ==
    /\ pc[w] = "snap" /\ lock = None
    /\ TakeSnapshot(w, version, commands)
    /\ pc' = [pc EXCEPT ![w] = "write"]
    /\ UNCHANGED <<memVars, pseq, persisted, dbVars, job, key, answered>>

\* put_capture_state receives only the difference to what it holds.
NewRows_ByKey(c) == {k \in Keys : c[k] # 0 /\ persisted[k] = 0}

NewRows(c) == {k \in Keys : c[k] # 0 /\ persisted[k] # c[k]}
RemovedRows(c) == {k \in Keys : c[k] = 0 /\ persisted[k] # 0}

\* put_capture_state: the document and the receipts, in one transaction.
PutCaptureState(w) ==
    LET c == snap[w].commands IN
    /\ doc' = snap[w].version
    /\ rows' = [k \in Keys |-> IF k \in NewRows(c) THEN c[k]
                               ELSE IF k \in RemovedRows(c) THEN 0 ELSE rows[k]]

\* The snapshot is dropped and the caller goes on.
Written(w) ==
    /\ pc' = [pc EXCEPT ![w] = CASE job[w] = "accept" -> "accepted"
                                 [] job[w] = "idempotent" -> "reply"
                                 [] job[w] = "background" -> "idle"]
    /\ snap' = [snap EXCEPT ![w] = NoSnapshot]
    /\ UNCHANGED <<memVars, seq, job, key, answered>>

Stale_Never(w) == FALSE

\* A newer snapshot is on disk already.
Stale(w) == snap[w].seq <= pseq

WriteSkipped(w) ==
    /\ pc[w] = "write" /\ Stale(w)
    /\ Written(w)
    /\ UNCHANGED <<pseq, persisted, dbVars>>

WriteCommitted(w) ==
    /\ pc[w] = "write" /\ ~Stale(w)
    /\ PutCaptureState(w)
    /\ persisted' = snap[w].commands
    /\ pseq' = snap[w].seq
    /\ Written(w)

\* The transaction raised and left nothing behind; _idempotent keeps the
\* cached receipt for a retry, a stop acceptance rolls back.
WriteFailed(w) ==
    /\ pc[w] = "write" /\ ~Stale(w)
    /\ pc' = [pc EXCEPT ![w] = IF job[w] = "accept" THEN "rollback" ELSE "idle"]
    /\ snap' = [snap EXCEPT ![w] = NoSnapshot]
    /\ lock' = IF job[w] = "idempotent" THEN None ELSE lock
    /\ UNCHANGED <<version, commands, nextId, accept, saved, seqVars, dbVars, job, key,
                   answered>>

\* _idempotent returns its result and releases the lock.
Reply(w) ==
    /\ pc[w] = "reply"
    /\ lock' = None
    /\ pc' = [pc EXCEPT ![w] = "idle"]
    /\ answered' = [answered EXCEPT ![key[w]] = commands[key[w]]]
    /\ UNCHANGED <<version, commands, nextId, accept, saved, seqVars, dbVars, job, key, snap>>

\* _finish_stop_acceptance, both ends.
AcceptDone(w) ==
    /\ pc[w] = "accepted" /\ lock = None
    /\ accept' = None
    /\ pc' = [pc EXCEPT ![w] = "idle"]
    /\ answered' = [answered EXCEPT ![key[w]] = commands[key[w]]]
    /\ UNCHANGED <<version, commands, nextId, lock, saved, seqVars, dbVars, job, key, snap>>

AcceptRollback(w) ==
    /\ pc[w] = "rollback" /\ lock = None
    /\ commands' = saved
    /\ accept' = None
    /\ pc' = [pc EXCEPT ![w] = "idle"]
    /\ UNCHANGED <<version, nextId, lock, saved, seqVars, dbVars, job, key, snap, answered>>

\* The process dies and a new one restores the state and writes it once.
Restart ==
    /\ version' = doc /\ commands' = rows /\ persisted' = rows
    /\ lock' = None /\ accept' = None /\ saved' = Empty
    /\ seq' = 1 /\ pseq' = 1
    /\ pc' = [w \in Writers |-> "idle"]
    /\ job' = [w \in Writers |-> "background"]
    /\ key' = [w \in Writers |-> None]
    /\ snap' = [w \in Writers |-> NoSnapshot]
    /\ UNCHANGED <<nextId, dbVars, answered>>

WriterStep(w) ==
    \/ Snapshot(w) \/ WriteSkipped(w) \/ WriteCommitted(w) \/ WriteFailed(w)
    \/ Reply(w) \/ AcceptDone(w) \/ AcceptRollback(w)

Next ==
    \/ Change \/ Restart
    \/ \E k \in Keys : Replay(k)
    \/ \E w \in Writers : \/ Background(w) \/ WriterStep(w)
                          \/ \E k \in Keys : Execute(w, k) \/ RetryWrite(w, k) \/ AcceptStop(w, k)

Spec == Init /\ [][Next]_vars

-----------------------------------------------------------------------------
(* Properties.                                                              *)

\* A command answered to a client is on disk: no delayed, skipped or failed
\* write and no kill loses it (coordinator.py:1167-1178).
AnsweredIsDurable == \A k \in Keys : answered[k] # 0 => rows[k] = answered[k]

\* ... and its key is still answered from the same receipt, so the command
\* is not executed a second time, not even after a rollback or a restart.
AnsweredIsReplayed == \A k \in Keys : answered[k] # 0 => commands[k] = answered[k]

\* The incremental writes add up: the receipt table equals the set of
\* receipts the daemon believes durable, although keys are reused.
RowsMatchPersisted == rows = persisted

\* The document on disk never goes back to an older state.
DocNeverRegresses == [][doc' >= doc]_vars

\* The acceptance of a stop evicts no receipt, as long as the cache has room for it.
\* When it does evict one and its own write fails, the rollback brings back a receipt
\* that a snapshot taken meanwhile removes from the disk (coordinator.py:3739, 3806).
Spares ==
    \A w \in Writers, k \in Keys :
        AcceptStop(w, k) => commands' = [commands EXCEPT ![k] = nextId]

\* The writer implements the promise of DurableReceipts.
Promise == INSTANCE DurableReceipts WITH stored <- rows
ImplementsPromise == Promise!Spec
=============================================================================
