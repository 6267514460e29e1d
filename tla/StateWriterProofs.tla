-------------------------- MODULE StateWriterProofs --------------------------
(***************************************************************************)
(* Proofs about StateWriter: the receipt table and the capture document    *)
(* stay correct under any number of writers, keys and restarts, and for    *)
(* any size of the receipt cache; what a client was answered is on disk    *)
(* and answered again.                                                     *)
(***************************************************************************)
EXTENDS StateWriter, FiniteSetTheorems, TLAPS

\* _cache_command returns a cache, whichever receipt it evicts.
LEMMA CachedType ==
    ASSUME NEW c \in Cache, NEW k \in Keys, nextId \in Nat
    PROVE  Cached(c, k) \in Cache
  BY DEF Cached, Cache

\* Every step of the writers keeps the variables in their types.
LEMMA TypeStep ==
    ASSUME TypeOK, [Next]_vars
    PROVE  TypeOK'
  <1> USE WriterAssumption
      DEF TypeOK, Cache, Snapshots, NoSnapshot, Empty, TakeSnapshot, Become, Written,
          memVars, seqVars, dbVars, writerVars
  <1>1. CASE Change
    BY <1>1 DEF Change
  <1>2. CASE Restart
    BY <1>2 DEF Restart
  <1>3. ASSUME NEW k \in Keys, Replay(k) PROVE TypeOK'
    BY <1>3 DEF Replay
  <1>4. ASSUME NEW w \in Writers, Background(w) PROVE TypeOK'
    BY <1>4 DEF Background
  <1>5. ASSUME NEW w \in Writers, NEW k \in Keys, Execute(w, k) PROVE TypeOK'
    <2>1. Cached(commands, k) \in Cache
      BY CachedType
    <2>2. Retired(Cached(commands, k)) \in Cache
      BY DEF Retired
    <2> QED BY <1>5, <2>1, <2>2 DEF Execute
  <1>6. ASSUME NEW w \in Writers, NEW k \in Keys, RetryWrite(w, k) PROVE TypeOK'
    BY <1>6 DEF RetryWrite
  <1>7. ASSUME NEW w \in Writers, NEW k \in Keys, AcceptStop(w, k) PROVE TypeOK'
    <2>1. Cached(commands, k) \in Cache
      BY CachedType
    <2>2. Retired(Cached(commands, k)) \in Cache
      BY DEF Retired
    <2> QED BY <1>7, <2>1, <2>2 DEF AcceptStop
  <1>8. ASSUME NEW w \in Writers, Snapshot(w) PROVE TypeOK'
    BY <1>8 DEF Snapshot
  <1>9. ASSUME NEW w \in Writers, WriteSkipped(w) PROVE TypeOK'
    BY <1>9 DEF WriteSkipped
  <1>10. ASSUME NEW w \in Writers, WriteCommitted(w) PROVE TypeOK'
    BY <1>10 DEF WriteCommitted, PutCaptureState
  <1>11. ASSUME NEW w \in Writers, WriteFailed(w) PROVE TypeOK'
    BY <1>11 DEF WriteFailed
  <1>12. ASSUME NEW w \in Writers, Reply(w) PROVE TypeOK'
    BY <1>12 DEF Reply
  <1>13. ASSUME NEW w \in Writers, AcceptDone(w) PROVE TypeOK'
    BY <1>13 DEF AcceptDone
  <1>14. ASSUME NEW w \in Writers, AcceptRollback(w) PROVE TypeOK'
    BY <1>14 DEF AcceptRollback
  <1>15. CASE UNCHANGED vars
    BY <1>15 DEF vars
  <1> QED
    BY <1>1, <1>2, <1>3, <1>4, <1>5, <1>6, <1>7, <1>8, <1>9, <1>10, <1>11, <1>12, <1>13,
       <1>14, <1>15 DEF Next, WriterStep

\* The writer's variables keep their types.
THEOREM TypeCorrect == Spec => []TypeOK
  <1>1. Init => TypeOK
    BY DEF Init, TypeOK, Cache, Empty, Snapshots, NoSnapshot
  <1>2. TypeOK /\ [Next]_vars => TypeOK'
    BY TypeStep
  <1> QED BY <1>1, <1>2, PTL DEF Spec

\* A committed difference brings the table to the snapshot it was taken from.
LEMMA DifferenceApplied ==
    ASSUME TypeOK, RowsMatchPersisted, NEW w \in Writers, WriteCommitted(w)
    PROVE  RowsMatchPersisted'
  <1>1. snap[w].commands \in Cache /\ rows \in Cache
    BY DEF TypeOK, Snapshots
  <1>2. rows' = [k \in Keys |-> snap[w].commands[k]]
    BY DEF WriteCommitted, PutCaptureState, NewRows, RemovedRows, RowsMatchPersisted, TypeOK
  <1> QED BY <1>1, <1>2 DEF WriteCommitted, RowsMatchPersisted, Cache

\* The incremental writes add up to the receipts the daemon believes durable.
THEOREM RowsCorrect == Spec => []RowsMatchPersisted
  <1>1. Init => RowsMatchPersisted
    BY DEF Init, RowsMatchPersisted
  <1>2. ASSUME TypeOK, RowsMatchPersisted, [Next]_vars PROVE RowsMatchPersisted'
    <2>1. ASSUME NEW w \in Writers, WriteCommitted(w) PROVE RowsMatchPersisted'
      BY <1>2, <2>1, DifferenceApplied
    <2>2. CASE Restart
      BY <2>2 DEF Restart, RowsMatchPersisted, dbVars
    <2>3. CASE UNCHANGED <<rows, persisted>>
      BY <1>2, <2>3 DEF RowsMatchPersisted
    <2> QED BY <1>2, <2>1, <2>2, <2>3
            DEF Next, WriterStep, Change, Replay, Background, Execute, RetryWrite, AcceptStop,
                Snapshot, WriteSkipped, WriteFailed, Reply, AcceptDone, AcceptRollback, vars,
                seqVars, dbVars
  <1> QED BY <1>1, <1>2, TypeCorrect, PTL DEF Spec

\* Sequence numbers order the snapshots in flight as their states: what makes
\* the comparison with _state_persisted_sequence enough.
Ordered ==
    /\ doc <= version /\ pseq <= seq
    /\ \A w \in Writers : pc[w] = "write" =>
         /\ snap[w].seq <= seq /\ snap[w].version <= version
         /\ snap[w].seq > pseq => doc <= snap[w].version
    /\ \A v, w \in Writers : pc[v] = "write" /\ pc[w] = "write" /\ snap[v].seq <= snap[w].seq =>
         snap[v].version <= snap[w].version

\* Every step keeps the snapshots ordered.
LEMMA OrderedStep ==
    ASSUME TypeOK, Ordered, [Next]_vars
    PROVE  Ordered'
  <1> USE DEF TypeOK, Ordered, Snapshots, TakeSnapshot, Become, Written,
          memVars, seqVars, dbVars, writerVars
  <1>1. CASE Change
    BY <1>1 DEF Change
  <1>2. CASE Restart
    BY <1>2 DEF Restart
  <1>3. ASSUME NEW k \in Keys, Replay(k) PROVE Ordered'
    BY <1>3 DEF Replay
  <1>4. ASSUME NEW w \in Writers, Background(w) PROVE Ordered'
    BY <1>4 DEF Background
  <1>5. ASSUME NEW w \in Writers, NEW k \in Keys, Execute(w, k) PROVE Ordered'
    BY <1>5 DEF Execute
  <1>6. ASSUME NEW w \in Writers, NEW k \in Keys, RetryWrite(w, k) PROVE Ordered'
    BY <1>6 DEF RetryWrite
  <1>7. ASSUME NEW w \in Writers, NEW k \in Keys, AcceptStop(w, k) PROVE Ordered'
    BY <1>7 DEF AcceptStop
  <1>8. ASSUME NEW w \in Writers, Snapshot(w) PROVE Ordered'
    BY <1>8 DEF Snapshot
  <1>9. ASSUME NEW w \in Writers, WriteSkipped(w) PROVE Ordered'
    BY <1>9 DEF WriteSkipped
  <1>10. ASSUME NEW w \in Writers, WriteCommitted(w) PROVE Ordered'
    BY <1>10 DEF WriteCommitted, PutCaptureState, Stale
  <1>11. ASSUME NEW w \in Writers, WriteFailed(w) PROVE Ordered'
    BY <1>11 DEF WriteFailed
  <1>12. ASSUME NEW w \in Writers, Reply(w) PROVE Ordered'
    BY <1>12 DEF Reply
  <1>13. ASSUME NEW w \in Writers, AcceptDone(w) PROVE Ordered'
    BY <1>13 DEF AcceptDone
  <1>14. ASSUME NEW w \in Writers, AcceptRollback(w) PROVE Ordered'
    BY <1>14 DEF AcceptRollback
  <1>15. CASE UNCHANGED vars
    BY <1>15 DEF vars
  <1> HIDE DEF TypeOK, Ordered
  <1> QED
    BY <1>1, <1>2, <1>3, <1>4, <1>5, <1>6, <1>7, <1>8, <1>9, <1>10, <1>11, <1>12, <1>13,
       <1>14, <1>15 DEF Next, WriterStep

\* The capture document on disk never goes back, however writes are delayed.
THEOREM DocCorrect == Spec => DocNeverRegresses
  <1>1. Init => Ordered
    BY DEF Init, Ordered
  <1>2. TypeOK /\ Ordered /\ [Next]_vars => Ordered'
    BY OrderedStep
  <1>3. ASSUME TypeOK, Ordered, [Next]_vars PROVE [doc' >= doc]_vars
    <2>1. ASSUME NEW w \in Writers, WriteCommitted(w) PROVE doc' >= doc
      BY <1>3, <2>1 DEF WriteCommitted, PutCaptureState, Stale, Ordered, TypeOK, Snapshots
    <2>2. CASE UNCHANGED doc
      BY <1>3, <2>2 DEF TypeOK
    <2> QED BY <1>3, <2>1, <2>2
            DEF Next, WriterStep, Change, Restart, Replay, Background, Execute, RetryWrite,
                AcceptStop, Snapshot, WriteSkipped, WriteFailed, Reply, AcceptDone,
                AcceptRollback, vars, dbVars
  <1>4. TypeOK /\ Ordered /\ [Next]_vars => [doc' >= doc]_vars
    BY <1>3
  <1> QED BY <1>1, <1>2, <1>4, TypeCorrect, PTL DEF Spec, DocNeverRegresses

-----------------------------------------------------------------------------
(* The answers of clients *)

Writing(w) == pc[w] = "write"
Accepting(w) == pc[w] \in {"snap", "write", "accepted", "rollback"} /\ job[w] = "accept"
Answering(w) == pc[w] \in {"write", "reply"} /\ job[w] = "idempotent"

\* One stop is accepted at a time, and no idempotent command is answered meanwhile: it holds
\* the lock from its execution to its answer.
Jobs ==
    /\ \A w \in Writers :
          /\ pc[w] = "reply" => job[w] = "idempotent"
          /\ pc[w] \in {"accepted", "rollback"} => job[w] = "accept"
          /\ pc[w] = "snap" => job[w] # "idempotent"
          /\ Accepting(w) => accept = key[w] /\ key[w] \in Keys
          /\ Answering(w) => lock = w /\ accept = None /\ key[w] \in Keys
    /\ \A v, w \in Writers : Accepting(v) /\ Accepting(w) => v = w

\* Nobody has seen the next receipt.
Fresh ==
    \A k \in Keys :
        /\ commands[k] < nextId /\ persisted[k] < nextId
        /\ \A w \in Writers : Writing(w) => snap[w].commands[k] < nextId

\* Snapshots have numbers of their own.
Numbers ==
    /\ pseq <= seq
    /\ \A w \in Writers : Writing(w) => snap[w].seq <= seq /\ snap[w].seq # pseq
    /\ \A v, w \in Writers : Writing(v) /\ Writing(w) /\ snap[v].seq = snap[w].seq => v = w

\* A receipt that is still cached is in every snapshot since the first that had it: in those
\* after the one on disk if it is on disk, and on disk if it was in one before.
Chained ==
    \A k \in Keys : commands[k] # 0 =>
        /\ \A w \in Writers : Writing(w) /\ snap[w].seq > pseq /\ persisted[k] = commands[k] =>
              snap[w].commands[k] = commands[k]
        /\ \A w \in Writers : Writing(w) /\ snap[w].seq < pseq
                                         /\ snap[w].commands[k] = commands[k] =>
              persisted[k] = commands[k]
        /\ \A v, w \in Writers :
              Writing(v) /\ Writing(w) /\ snap[v].seq < snap[w].seq
                         /\ snap[v].commands[k] = commands[k] =>
                  snap[w].commands[k] = commands[k]

\* What a rollback would bring back.
Saved ==
    accept # None => saved = [commands EXCEPT ![accept] = 0] /\ commands[accept] # 0

\* What is on disk before somebody answers.
BelievedBy(w) ==
    /\ Accepting(w) /\ Writing(w) => snap[w].commands[key[w]] = commands[key[w]]
    /\ pc[w] = "accepted" => persisted[key[w]] = commands[key[w]]
    /\ pc[w] = "write" /\ job[w] = "idempotent" =>
          snap[w].commands = commands /\ snap[w].seq = seq /\ pseq < seq
    /\ pc[w] = "reply" => persisted = commands /\ pseq = seq
Believed == \A w \in Writers : BelievedBy(w)

\* Whoever was answered is answered so again, from memory and from disk.
Answers ==
    \A k \in Keys : answered[k] # 0 =>
        commands[k] = answered[k] /\ persisted[k] = answered[k] /\ accept # k

Receipts == Jobs /\ Fresh /\ Numbers /\ Chained /\ Saved /\ Believed /\ Answers

\* A step of somebody else.
SameWriter(v) ==
    pc'[v] = pc[v] /\ job'[v] = job[v] /\ key'[v] = key[v] /\ snap'[v] = snap[v]

\* _cache_command adds the receipt and at most takes others away.
LEMMA CachedReceipts ==
    ASSUME NEW c \in Cache, NEW k \in Keys, nextId \in Nat
    PROVE  /\ Cached(c, k) \in Cache /\ Cached(c, k)[k] \in {0, nextId}
           /\ \A j \in Keys \ {k} : Cached(c, k)[j] \in {0, c[j]}
  BY DEF Cached, Cache

\* Nobody answers while the lock is free, nor accepts while no acceptance is in flight.
LEMMA Unanswered ==
    ASSUME Jobs, lock = None
    PROVE  \A v \in Writers : ~Answering(v)
  BY WriterAssumption DEF Jobs

LEMMA Unaccepted ==
    ASSUME Jobs, accept = None
    PROVE  \A v \in Writers : ~Accepting(v)
  BY WriterAssumption DEF Jobs

\* An acceptance that is rolled back is the one in flight, and takes its receipt away.
LEMMA RolledBack ==
    ASSUME TypeOK, Jobs, Saved, NEW w \in Writers, AcceptRollback(w)
    PROVE  accept \in Keys /\ accept # None /\ commands' = [commands EXCEPT ![accept] = 0]
  <1>1. Accepting(w)
    BY DEF AcceptRollback, Jobs, Accepting
  <1>2. accept \in Keys /\ accept # None
    BY <1>1, WriterAssumption DEF Jobs
  <1> QED BY <1>2 DEF AcceptRollback, Saved

\* Every step keeps one acceptance and one answer at a time.
LEMMA JobsStep ==
    ASSUME TypeOK, Jobs, [Next]_vars, Spares
    PROVE  Jobs'
  <1> USE WriterAssumption
  <1>1. CASE Change
    BY <1>1 DEF Change, TypeOK, memVars, writerVars, Jobs, Accepting, Answering
  <1>2. CASE Restart
    BY <1>2 DEF Restart, TypeOK, memVars, writerVars, Jobs, Accepting, Answering
  <1>3. ASSUME NEW k \in Keys, Replay(k) PROVE Jobs'
    BY <1>3 DEF Replay, TypeOK, memVars, writerVars, Jobs, Accepting, Answering
  <1>4. ASSUME NEW w \in Writers, Background(w) PROVE Jobs'
    BY <1>4 DEF Background, TypeOK, Become, memVars, writerVars, Jobs, Accepting, Answering
  <1>5. ASSUME NEW w \in Writers, NEW k \in Keys, Execute(w, k) PROVE Jobs'
    <2>1. \A v \in Writers : ~Answering(v) /\ ~Accepting(v)
      BY <1>5, Unanswered, Unaccepted DEF Execute, ExecuteAdmitted
    <2>2. /\ pc' = [pc EXCEPT ![w] = "write"] /\ job' = [job EXCEPT ![w] = "idempotent"]
          /\ key' = [key EXCEPT ![w] = k] /\ lock' = w /\ accept' = None
      BY <1>5 DEF Execute, ExecuteAdmitted, Become
    <2>3. \A v \in Writers \ {w} : pc'[v] = pc[v] /\ job'[v] = job[v] /\ key'[v] = key[v]
      BY <2>2 DEF TypeOK
    <2>4. pc'[w] = "write" /\ job'[w] = "idempotent" /\ key'[w] = k
      BY <2>2 DEF TypeOK
    <2> QED BY <2>1, <2>2, <2>3, <2>4 DEF Jobs, Accepting, Answering
  <1>6. ASSUME NEW w \in Writers, NEW k \in Keys, RetryWrite(w, k) PROVE Jobs'
    BY <1>6 DEF RetryWrite, TypeOK, Become, memVars, writerVars, Jobs, Accepting, Answering
  <1>7. ASSUME NEW w \in Writers, NEW k \in Keys, AcceptStop(w, k) PROVE Jobs'
    BY <1>7 DEF AcceptStop, TypeOK, Become, memVars, writerVars, Jobs, Accepting, Answering
  <1>8. ASSUME NEW w \in Writers, Snapshot(w) PROVE Jobs'
    BY <1>8 DEF Snapshot, TypeOK, memVars, writerVars, Jobs, Accepting, Answering
  <1>9. ASSUME NEW w \in Writers, WriteSkipped(w) PROVE Jobs'
    BY <1>9 DEF WriteSkipped, TypeOK, Written, memVars, writerVars, Jobs, Accepting, Answering
  <1>10. ASSUME NEW w \in Writers, WriteCommitted(w) PROVE Jobs'
    BY <1>10 DEF WriteCommitted, TypeOK, Written, memVars, writerVars, Jobs, Accepting,
       Answering
  <1>11. ASSUME NEW w \in Writers, WriteFailed(w) PROVE Jobs'
    BY <1>11 DEF WriteFailed, TypeOK, memVars, writerVars, Jobs, Accepting, Answering
  <1>12. ASSUME NEW w \in Writers, Reply(w) PROVE Jobs'
    BY <1>12 DEF Reply, TypeOK, memVars, writerVars, Jobs, Accepting, Answering
  <1>13. ASSUME NEW w \in Writers, AcceptDone(w) PROVE Jobs'
    BY <1>13 DEF AcceptDone, TypeOK, memVars, writerVars, Jobs, Accepting, Answering
  <1>14. ASSUME NEW w \in Writers, AcceptRollback(w) PROVE Jobs'
    BY <1>14 DEF AcceptRollback, TypeOK, memVars, writerVars, Jobs, Accepting, Answering
  <1>15. CASE UNCHANGED vars
    BY <1>15 DEF vars, TypeOK, memVars, writerVars, Jobs, Accepting, Answering
  <1> QED
    BY <1>1, <1>2, <1>3, <1>4, <1>5, <1>6, <1>7, <1>8, <1>9, <1>10, <1>11, <1>12, <1>13, <1>14,
       <1>15 DEF Next, WriterStep

\* Every step keeps the next receipt unseen.
LEMMA FreshStep ==
    ASSUME TypeOK, RowsMatchPersisted, Saved, Jobs, Fresh, [Next]_vars, Spares
    PROVE  Fresh'
  <1> USE WriterAssumption
  <1>1. CASE Change
    BY <1>1 DEF Change, TypeOK, Snapshots, memVars, seqVars, writerVars, Cache, Fresh, Writing
  <1>2. CASE Restart
    <2>1. \A w \in Writers : ~Writing(w)'
      BY <1>2 DEF Restart, Writing
    <2>2. /\ commands' = persisted /\ persisted' = persisted /\ nextId' = nextId
      BY <1>2 DEF Restart, RowsMatchPersisted
    <2> QED BY <2>1, <2>2 DEF Fresh
  <1>3. ASSUME NEW k \in Keys, Replay(k) PROVE Fresh'
    BY <1>3 DEF Replay, TypeOK, Snapshots, memVars, seqVars, writerVars, Cache, Fresh, Writing
  <1>4. ASSUME NEW w \in Writers, Background(w) PROVE Fresh'
    BY <1>4 DEF Background, TypeOK, Snapshots, Become, memVars, seqVars, writerVars, Cache,
       Fresh, Writing
  <1>5. ASSUME NEW w \in Writers, NEW k \in Keys, Execute(w, k) PROVE Fresh'
    <2>1. commands \in Cache /\ nextId \in Nat
      BY DEF TypeOK
    <2>2. commands' = Cached(commands, k) /\ nextId' = nextId + 1 /\ persisted' = persisted
      BY <1>5 DEF Execute, seqVars
    <2>3. \A j \in Keys : Cached(commands, k)[j] \in {0, nextId, commands[j]}
      BY <2>1, CachedReceipts
    <2>4. \A j \in Keys : commands'[j] < nextId' /\ persisted'[j] < nextId'
      BY <2>1, <2>2, <2>3 DEF Fresh, TypeOK, Cache
    <2>5. snap' = [snap EXCEPT ![w] = [seq |-> seq + 1, version |-> version + 1,
                                       commands |-> Cached(commands, k)]]
      BY <1>5 DEF Execute, TakeSnapshot
    <2>6. \A v \in Writers \ {w} : snap'[v] = snap[v] /\ pc'[v] = pc[v]
      BY <1>5, <2>5 DEF Execute, Become, TypeOK
    <2>7. snap'[w].commands = Cached(commands, k)
      BY <2>5 DEF TypeOK
    <2>8. \A v \in Writers \ {w}, j \in Keys : Writing(v)' => snap'[v].commands[j] < nextId'
      BY <2>1, <2>2, <2>6 DEF Fresh, Writing, TypeOK, Snapshots, Cache
    <2>9. \A j \in Keys : snap'[w].commands[j] < nextId'
      BY <2>2, <2>4, <2>7
    <2> QED BY <2>4, <2>8, <2>9 DEF Fresh
  <1>6. ASSUME NEW w \in Writers, NEW k \in Keys, RetryWrite(w, k) PROVE Fresh'
    BY <1>6 DEF RetryWrite, TypeOK, Snapshots, TakeSnapshot, Become, memVars, seqVars,
       writerVars, Cache, Fresh, Writing
  <1>7. ASSUME NEW w \in Writers, NEW k \in Keys, AcceptStop(w, k) PROVE Fresh'
    <2>1. commands \in Cache /\ nextId \in Nat
      BY DEF TypeOK
    <2>2. commands' = Cached(commands, k) /\ nextId' = nextId + 1 /\ persisted' = persisted
      BY <1>7 DEF AcceptStop, seqVars
    <2>3. \A j \in Keys : Cached(commands, k)[j] \in {0, nextId, commands[j]}
      BY <2>1, CachedReceipts
    <2>4. \A j \in Keys : commands'[j] < nextId' /\ persisted'[j] < nextId'
      BY <2>1, <2>2, <2>3 DEF Fresh, TypeOK, Cache
    <2>5. snap' = snap /\ \A v \in Writers : Writing(v)' => Writing(v)
      BY <1>7 DEF AcceptStop, Become, TypeOK, Writing
    <2>6. \A v \in Writers, j \in Keys : Writing(v)' => snap'[v].commands[j] < nextId'
      BY <2>1, <2>2, <2>5 DEF Fresh, TypeOK, Snapshots, Cache
    <2> QED BY <2>4, <2>6 DEF Fresh
  <1>8. ASSUME NEW w \in Writers, Snapshot(w) PROVE Fresh'
    BY <1>8 DEF Snapshot, TypeOK, Snapshots, TakeSnapshot, memVars, seqVars, writerVars, Cache,
       Fresh, Writing
  <1>9. ASSUME NEW w \in Writers, WriteSkipped(w) PROVE Fresh'
    BY <1>9 DEF WriteSkipped, TypeOK, Snapshots, Written, memVars, seqVars, writerVars, Cache,
       Fresh, Writing
  <1>10. ASSUME NEW w \in Writers, WriteCommitted(w) PROVE Fresh'
    BY <1>10 DEF WriteCommitted, TypeOK, Snapshots, Written, memVars, seqVars, writerVars,
       Cache, Fresh, Writing
  <1>11. ASSUME NEW w \in Writers, WriteFailed(w) PROVE Fresh'
    BY <1>11 DEF WriteFailed, TypeOK, Snapshots, memVars, seqVars, writerVars, Cache, Fresh,
       Writing
  <1>12. ASSUME NEW w \in Writers, Reply(w) PROVE Fresh'
    BY <1>12 DEF Reply, TypeOK, Snapshots, memVars, seqVars, writerVars, Cache, Fresh, Writing
  <1>13. ASSUME NEW w \in Writers, AcceptDone(w) PROVE Fresh'
    BY <1>13 DEF AcceptDone, TypeOK, Snapshots, memVars, seqVars, writerVars, Cache, Fresh,
       Writing
  <1>14. ASSUME NEW w \in Writers, AcceptRollback(w) PROVE Fresh'
    <2>1. accept \in Keys /\ commands' = [commands EXCEPT ![accept] = 0]
      BY <1>14, RolledBack
    <2>2. /\ persisted' = persisted /\ nextId' = nextId /\ snap' = snap
          /\ \A v \in Writers : Writing(v)' => Writing(v)
      BY <1>14 DEF AcceptRollback, TypeOK, Writing, seqVars
    <2>3. \A k \in Keys : commands'[k] < nextId'
      BY <2>1, <2>2 DEF Fresh, TypeOK, Cache
    <2> QED BY <2>2, <2>3 DEF Fresh
  <1>15. CASE UNCHANGED vars
    BY <1>15 DEF vars, TypeOK, Snapshots, memVars, seqVars, writerVars, Cache, Fresh, Writing
  <1> QED
    BY <1>1, <1>2, <1>3, <1>4, <1>5, <1>6, <1>7, <1>8, <1>9, <1>10, <1>11, <1>12, <1>13, <1>14,
       <1>15 DEF Next, WriterStep

\* Every step keeps the numbers of the snapshots apart.
LEMMA NumbersStep ==
    ASSUME TypeOK, Numbers, [Next]_vars, Spares
    PROVE  Numbers'
  <1>1. CASE Change
    BY <1>1 DEF Change, TypeOK, Snapshots, seqVars, writerVars, Numbers, Writing
  <1>2. CASE Restart
    BY <1>2 DEF Restart, TypeOK, Snapshots, seqVars, writerVars, Numbers, Writing
  <1>3. ASSUME NEW k \in Keys, Replay(k) PROVE Numbers'
    BY <1>3 DEF Replay, TypeOK, Snapshots, seqVars, writerVars, Numbers, Writing
  <1>4. ASSUME NEW w \in Writers, Background(w) PROVE Numbers'
    BY <1>4 DEF Background, TypeOK, Snapshots, Become, seqVars, writerVars, Numbers, Writing
  <1>5. ASSUME NEW w \in Writers, NEW k \in Keys, Execute(w, k) PROVE Numbers'
    BY <1>5 DEF Execute, TypeOK, Snapshots, TakeSnapshot, Become, seqVars, writerVars, Numbers,
       Writing
  <1>6. ASSUME NEW w \in Writers, NEW k \in Keys, RetryWrite(w, k) PROVE Numbers'
    BY <1>6 DEF RetryWrite, TypeOK, Snapshots, TakeSnapshot, Become, seqVars, writerVars,
       Numbers, Writing
  <1>7. ASSUME NEW w \in Writers, NEW k \in Keys, AcceptStop(w, k) PROVE Numbers'
    BY <1>7 DEF AcceptStop, TypeOK, Snapshots, Become, seqVars, writerVars, Numbers, Writing
  <1>8. ASSUME NEW w \in Writers, Snapshot(w) PROVE Numbers'
    BY <1>8 DEF Snapshot, TypeOK, Snapshots, TakeSnapshot, seqVars, writerVars, Numbers, Writing
  <1>9. ASSUME NEW w \in Writers, WriteSkipped(w) PROVE Numbers'
    BY <1>9 DEF WriteSkipped, TypeOK, Snapshots, Written, seqVars, writerVars, Numbers, Writing
  <1>10. ASSUME NEW w \in Writers, WriteCommitted(w) PROVE Numbers'
    BY <1>10 DEF WriteCommitted, TypeOK, Snapshots, Written, seqVars, writerVars, Numbers,
       Writing
  <1>11. ASSUME NEW w \in Writers, WriteFailed(w) PROVE Numbers'
    BY <1>11 DEF WriteFailed, TypeOK, Snapshots, seqVars, writerVars, Numbers, Writing
  <1>12. ASSUME NEW w \in Writers, Reply(w) PROVE Numbers'
    BY <1>12 DEF Reply, TypeOK, Snapshots, seqVars, writerVars, Numbers, Writing
  <1>13. ASSUME NEW w \in Writers, AcceptDone(w) PROVE Numbers'
    BY <1>13 DEF AcceptDone, TypeOK, Snapshots, seqVars, writerVars, Numbers, Writing
  <1>14. ASSUME NEW w \in Writers, AcceptRollback(w) PROVE Numbers'
    BY <1>14 DEF AcceptRollback, TypeOK, Snapshots, seqVars, writerVars, Numbers, Writing
  <1>15. CASE UNCHANGED vars
    BY <1>15 DEF vars, TypeOK, Snapshots, seqVars, writerVars, Numbers, Writing
  <1> QED
    BY <1>1, <1>2, <1>3, <1>4, <1>5, <1>6, <1>7, <1>8, <1>9, <1>10, <1>11, <1>12, <1>13, <1>14,
       <1>15 DEF Next, WriterStep

\* Every step keeps what a rollback would bring back.
LEMMA SavedStep ==
    ASSUME TypeOK, Jobs, Saved, [Next]_vars, Spares
    PROVE  Saved'
  <1> USE WriterAssumption
  <1>1. CASE Change
    BY <1>1 DEF Change, TypeOK, memVars, Cache, Saved, Jobs, Answering, Accepting
  <1>2. CASE Restart
    BY <1>2 DEF Restart, TypeOK, memVars, Cache, Saved, Jobs, Answering, Accepting
  <1>3. ASSUME NEW k \in Keys, Replay(k) PROVE Saved'
    BY <1>3 DEF Replay, TypeOK, memVars, Cache, Saved, Jobs, Answering, Accepting
  <1>4. ASSUME NEW w \in Writers, Background(w) PROVE Saved'
    BY <1>4 DEF Background, TypeOK, Become, memVars, Cache, Saved, Jobs, Answering, Accepting
  <1>5. ASSUME NEW w \in Writers, NEW k \in Keys, Execute(w, k) PROVE Saved'
    <2>1. accept' = None
      BY <1>5 DEF Execute, ExecuteAdmitted
    <2> QED BY <2>1 DEF Saved
  <1>6. ASSUME NEW w \in Writers, NEW k \in Keys, RetryWrite(w, k) PROVE Saved'
    BY <1>6 DEF RetryWrite, TypeOK, Become, memVars, Cache, Saved, Jobs, Answering, Accepting
  <1>7. ASSUME NEW w \in Writers, NEW k \in Keys, AcceptStop(w, k) PROVE Saved'
    <2>1. commands' = [commands EXCEPT ![k] = nextId]
      BY <1>7 DEF Spares
    <2>2. saved' = commands /\ accept' = k /\ commands[k] = 0
      BY <1>7 DEF AcceptStop
    <2>3. commands \in [Keys -> Nat] /\ nextId # 0
      BY DEF TypeOK, Cache
    <2>4. commands'[k] = nextId
      BY <2>1, <2>3
    <2>5. commands = [commands' EXCEPT ![k] = 0]
      BY <2>1, <2>2, <2>3
    <2> QED BY <2>2, <2>3, <2>4, <2>5 DEF Saved
  <1>8. ASSUME NEW w \in Writers, Snapshot(w) PROVE Saved'
    BY <1>8 DEF Snapshot, TypeOK, memVars, Cache, Saved, Jobs, Answering, Accepting
  <1>9. ASSUME NEW w \in Writers, WriteSkipped(w) PROVE Saved'
    BY <1>9 DEF WriteSkipped, TypeOK, Written, memVars, Cache, Saved, Jobs, Answering, Accepting
  <1>10. ASSUME NEW w \in Writers, WriteCommitted(w) PROVE Saved'
    BY <1>10 DEF WriteCommitted, TypeOK, Written, memVars, Cache, Saved, Jobs, Answering,
       Accepting
  <1>11. ASSUME NEW w \in Writers, WriteFailed(w) PROVE Saved'
    BY <1>11 DEF WriteFailed, TypeOK, memVars, Cache, Saved, Jobs, Answering, Accepting
  <1>12. ASSUME NEW w \in Writers, Reply(w) PROVE Saved'
    BY <1>12 DEF Reply, TypeOK, memVars, Cache, Saved, Jobs, Answering, Accepting
  <1>13. ASSUME NEW w \in Writers, AcceptDone(w) PROVE Saved'
    BY <1>13 DEF AcceptDone, TypeOK, memVars, Cache, Saved, Jobs, Answering, Accepting
  <1>14. ASSUME NEW w \in Writers, AcceptRollback(w) PROVE Saved'
    BY <1>14 DEF AcceptRollback, TypeOK, memVars, Cache, Saved, Jobs, Answering, Accepting
  <1>15. CASE UNCHANGED vars
    BY <1>15 DEF vars, TypeOK, memVars, Cache, Saved, Jobs, Answering, Accepting
  <1> QED
    BY <1>1, <1>2, <1>3, <1>4, <1>5, <1>6, <1>7, <1>8, <1>9, <1>10, <1>11, <1>12, <1>13, <1>14,
       <1>15 DEF Next, WriterStep

\* What is cached may go and a receipt that nobody has seen may come: the snapshots that are
\* left agree about the rest,
LEMMA ChainedKept ==
    ASSUME TypeOK, Fresh, Chained, UNCHANGED <<persisted, pseq>>,
           \A j \in Keys : commands'[j] \in {0, nextId, commands[j]},
           \A v \in Writers : Writing(v)' => Writing(v) /\ snap'[v] = snap[v]
    PROVE  Chained'
  <1> SUFFICES ASSUME NEW k \in Keys, commands'[k] # 0
               PROVE  /\ \A w \in Writers :
                            Writing(w)' /\ snap'[w].seq > pseq /\ persisted[k] = commands'[k] =>
                                snap'[w].commands[k] = commands'[k]
                      /\ \A w \in Writers :
                            Writing(w)' /\ snap'[w].seq < pseq
                                        /\ snap'[w].commands[k] = commands'[k] =>
                                persisted[k] = commands'[k]
                      /\ \A v, w \in Writers :
                            Writing(v)' /\ Writing(w)' /\ snap'[v].seq < snap'[w].seq
                                        /\ snap'[v].commands[k] = commands'[k] =>
                                snap'[w].commands[k] = commands'[k]
    BY DEF Chained
  <1>1. CASE commands'[k] = commands[k]
    BY <1>1 DEF Chained
  <1>2. CASE commands'[k] = nextId
    <2>1. /\ persisted[k] # commands'[k]
          /\ \A v \in Writers : Writing(v) => snap[v].commands[k] # commands'[k]
      BY <1>2 DEF Fresh, TypeOK, Cache, Snapshots
    <2> QED BY <2>1
  <1> QED BY <1>1, <1>2

\* and so does a snapshot taken of it.
LEMMA ChainedSnapshot ==
    ASSUME TypeOK, Fresh, Numbers, Chained, UNCHANGED <<persisted, pseq>>,
           \A j \in Keys : commands'[j] \in {0, nextId, commands[j]},
           NEW w \in Writers, snap'[w].seq = seq + 1, snap'[w].commands = commands',
           \A v \in Writers \ {w} : Writing(v)' => Writing(v) /\ snap'[v] = snap[v]
    PROVE  Chained'
  <1> SUFFICES ASSUME NEW k \in Keys, commands'[k] # 0
               PROVE  /\ \A v \in Writers :
                            Writing(v)' /\ snap'[v].seq > pseq /\ persisted[k] = commands'[k] =>
                                snap'[v].commands[k] = commands'[k]
                      /\ \A v \in Writers :
                            Writing(v)' /\ snap'[v].seq < pseq
                                        /\ snap'[v].commands[k] = commands'[k] =>
                                persisted[k] = commands'[k]
                      /\ \A u, v \in Writers :
                            Writing(u)' /\ Writing(v)' /\ snap'[u].seq < snap'[v].seq
                                        /\ snap'[u].commands[k] = commands'[k] =>
                                snap'[v].commands[k] = commands'[k]
    BY DEF Chained
  <1>1. seq \in Nat /\ pseq \in Nat /\ pseq <= seq
    BY DEF TypeOK, Numbers
  <1>2. \A v \in Writers \ {w} : Writing(v)' =>
            Writing(v) /\ snap'[v] = snap[v] /\ snap[v].seq \in Nat /\ snap[v].seq <= seq
    BY DEF Numbers, TypeOK, Snapshots
  <1>3. CASE commands'[k] = commands[k]
    <2>1. \A v \in Writers \ {w} : Writing(v)' /\ snap'[v].seq > pseq
                                              /\ persisted[k] = commands'[k] =>
              snap'[v].commands[k] = commands'[k]
      BY <1>2, <1>3 DEF Chained
    <2>2. \A v \in Writers \ {w} : Writing(v)' /\ snap'[v].seq < pseq
                                              /\ snap'[v].commands[k] = commands'[k] =>
              persisted[k] = commands'[k]
      BY <1>2, <1>3 DEF Chained
    <2>3. \A u, v \in Writers \ {w} :
              Writing(u)' /\ Writing(v)' /\ snap'[u].seq < snap'[v].seq
                          /\ snap'[u].commands[k] = commands'[k] =>
                  snap'[v].commands[k] = commands'[k]
      BY <1>2, <1>3 DEF Chained
    <2>4. /\ ~(snap'[w].seq < pseq)
          /\ \A v \in Writers : Writing(v)' => ~(snap'[w].seq < snap'[v].seq)
      BY <1>1, <1>2
    <2> QED BY <2>1, <2>2, <2>3, <2>4
  <1>4. CASE commands'[k] = nextId
    <2>1. /\ persisted[k] # commands'[k]
          /\ \A v \in Writers \ {w} : Writing(v)' => snap'[v].commands[k] # commands'[k]
      BY <1>2, <1>4 DEF Fresh, TypeOK, Cache, Snapshots
    <2>2. /\ ~(snap'[w].seq < pseq)
          /\ \A v \in Writers : Writing(v)' => ~(snap'[w].seq < snap'[v].seq)
      BY <1>1, <1>2
    <2> QED BY <2>1, <2>2
  <1> QED BY <1>3, <1>4

\* Every step keeps the snapshots agreed.
LEMMA ChainedStep ==
    ASSUME TypeOK, Jobs, Fresh, Numbers, Saved, Chained, [Next]_vars, Spares
    PROVE  Chained'
  <1>1. CASE Change
    <2>1. UNCHANGED <<persisted, pseq>>
      BY <1>1 DEF Change, seqVars
    <2>2. \A j \in Keys : commands'[j] \in {0, nextId, commands[j]}
      BY <1>1 DEF Change, memVars
    <2>3. \A v \in Writers : Writing(v)' => Writing(v) /\ snap'[v] = snap[v]
      BY <1>1 DEF Change, Writing, TypeOK, writerVars
    <2> QED BY <2>1, <2>2, <2>3, ChainedKept
  <1>2. CASE Restart
    <2>1. \A w \in Writers : ~Writing(w)'
      BY <1>2 DEF Restart, Writing
    <2> QED BY <2>1 DEF Chained
  <1>3. ASSUME NEW k \in Keys, Replay(k) PROVE Chained'
    <2>1. UNCHANGED <<persisted, pseq>>
      BY <1>3 DEF Replay, seqVars
    <2>2. \A j \in Keys : commands'[j] \in {0, nextId, commands[j]}
      BY <1>3 DEF Replay, memVars
    <2>3. \A v \in Writers : Writing(v)' => Writing(v) /\ snap'[v] = snap[v]
      BY <1>3 DEF Replay, Writing, TypeOK, writerVars
    <2> QED BY <2>1, <2>2, <2>3, ChainedKept
  <1>4. ASSUME NEW w \in Writers, Background(w) PROVE Chained'
    <2>1. UNCHANGED <<persisted, pseq>>
      BY <1>4 DEF Background, seqVars
    <2>2. \A j \in Keys : commands'[j] \in {0, nextId, commands[j]}
      BY <1>4 DEF Background, memVars
    <2>3. \A v \in Writers : Writing(v)' => Writing(v) /\ snap'[v] = snap[v]
      BY <1>4 DEF Background, Writing, TypeOK, Become, writerVars
    <2> QED BY <2>1, <2>2, <2>3, ChainedKept
  <1>5. ASSUME NEW w \in Writers, NEW k \in Keys, Execute(w, k) PROVE Chained'
    <2>1. UNCHANGED <<persisted, pseq>>
      BY <1>5 DEF Execute, seqVars
    <2>2. \A j \in Keys : commands'[j] \in {0, nextId, commands[j]}
      <3>1. commands \in Cache /\ nextId \in Nat /\ commands' = Cached(commands, k)
        BY <1>5 DEF Execute, TypeOK
      <3>2. \A j \in Keys : Cached(commands, k)[j] \in {0, nextId, commands[j]}
        BY <3>1, CachedReceipts
      <3> QED BY <3>1, <3>2
    <2>3. /\ snap'[w].seq = seq + 1 /\ snap'[w].commands = commands'
          /\ \A v \in Writers \ {w} : Writing(v)' => Writing(v) /\ snap'[v] = snap[v]
      BY <1>5 DEF Execute, Writing, TypeOK, Become, TakeSnapshot, memVars
    <2> QED BY <2>1, <2>2, <2>3, ChainedSnapshot
  <1>6. ASSUME NEW w \in Writers, NEW k \in Keys, RetryWrite(w, k) PROVE Chained'
    <2>1. UNCHANGED <<persisted, pseq>>
      BY <1>6 DEF RetryWrite, seqVars
    <2>2. \A j \in Keys : commands'[j] \in {0, nextId, commands[j]}
      BY <1>6 DEF RetryWrite
    <2>3. /\ snap'[w].seq = seq + 1 /\ snap'[w].commands = commands'
          /\ \A v \in Writers \ {w} : Writing(v)' => Writing(v) /\ snap'[v] = snap[v]
      BY <1>6 DEF RetryWrite, Writing, TypeOK, Become, TakeSnapshot, memVars
    <2> QED BY <2>1, <2>2, <2>3, ChainedSnapshot
  <1>7. ASSUME NEW w \in Writers, NEW k \in Keys, AcceptStop(w, k) PROVE Chained'
    <2>1. UNCHANGED <<persisted, pseq>>
      BY <1>7 DEF AcceptStop, seqVars
    <2>2. \A j \in Keys : commands'[j] \in {0, nextId, commands[j]}
      <3>1. commands \in Cache /\ nextId \in Nat /\ commands' = Cached(commands, k)
        BY <1>7 DEF AcceptStop, TypeOK
      <3>2. \A j \in Keys : Cached(commands, k)[j] \in {0, nextId, commands[j]}
        BY <3>1, CachedReceipts
      <3> QED BY <3>1, <3>2
    <2>3. \A v \in Writers : Writing(v)' => Writing(v) /\ snap'[v] = snap[v]
      BY <1>7 DEF AcceptStop, Writing, TypeOK, Become, writerVars
    <2> QED BY <2>1, <2>2, <2>3, ChainedKept
  <1>8. ASSUME NEW w \in Writers, Snapshot(w) PROVE Chained'
    <2>1. UNCHANGED <<persisted, pseq>>
      BY <1>8 DEF Snapshot, seqVars
    <2>2. \A j \in Keys : commands'[j] \in {0, nextId, commands[j]}
      BY <1>8 DEF Snapshot, memVars
    <2>3. /\ snap'[w].seq = seq + 1 /\ snap'[w].commands = commands'
          /\ \A v \in Writers \ {w} : Writing(v)' => Writing(v) /\ snap'[v] = snap[v]
      BY <1>8 DEF Snapshot, Writing, TypeOK, TakeSnapshot, memVars
    <2> QED BY <2>1, <2>2, <2>3, ChainedSnapshot
  <1>9. ASSUME NEW w \in Writers, WriteSkipped(w) PROVE Chained'
    <2>1. UNCHANGED <<persisted, pseq>>
      BY <1>9 DEF WriteSkipped, seqVars
    <2>2. \A j \in Keys : commands'[j] \in {0, nextId, commands[j]}
      BY <1>9 DEF WriteSkipped, Written, memVars
    <2>3. \A v \in Writers : Writing(v)' => Writing(v) /\ snap'[v] = snap[v]
      BY <1>9 DEF WriteSkipped, Writing, TypeOK, Written, writerVars
    <2> QED BY <2>1, <2>2, <2>3, ChainedKept
  <1>10. ASSUME NEW w \in Writers, WriteCommitted(w) PROVE Chained'
    <2>1. /\ persisted' = snap[w].commands /\ pseq' = snap[w].seq /\ commands' = commands
          /\ Writing(w) /\ \A v \in Writers : Writing(v)' => Writing(v) /\ snap'[v] = snap[v]
      BY <1>10 DEF WriteCommitted, Writing, TypeOK, Written, memVars
    <2> QED BY <2>1 DEF Chained
  <1>11. ASSUME NEW w \in Writers, WriteFailed(w) PROVE Chained'
    <2>1. UNCHANGED <<persisted, pseq>>
      BY <1>11 DEF WriteFailed, seqVars
    <2>2. \A j \in Keys : commands'[j] \in {0, nextId, commands[j]}
      BY <1>11 DEF WriteFailed
    <2>3. \A v \in Writers : Writing(v)' => Writing(v) /\ snap'[v] = snap[v]
      BY <1>11 DEF WriteFailed, Writing, TypeOK, writerVars
    <2> QED BY <2>1, <2>2, <2>3, ChainedKept
  <1>12. ASSUME NEW w \in Writers, Reply(w) PROVE Chained'
    <2>1. UNCHANGED <<persisted, pseq>>
      BY <1>12 DEF Reply, seqVars
    <2>2. \A j \in Keys : commands'[j] \in {0, nextId, commands[j]}
      BY <1>12 DEF Reply, memVars
    <2>3. \A v \in Writers : Writing(v)' => Writing(v) /\ snap'[v] = snap[v]
      BY <1>12 DEF Reply, Writing, TypeOK, writerVars
    <2> QED BY <2>1, <2>2, <2>3, ChainedKept
  <1>13. ASSUME NEW w \in Writers, AcceptDone(w) PROVE Chained'
    <2>1. UNCHANGED <<persisted, pseq>>
      BY <1>13 DEF AcceptDone, seqVars
    <2>2. \A j \in Keys : commands'[j] \in {0, nextId, commands[j]}
      BY <1>13 DEF AcceptDone, memVars
    <2>3. \A v \in Writers : Writing(v)' => Writing(v) /\ snap'[v] = snap[v]
      BY <1>13 DEF AcceptDone, Writing, TypeOK, writerVars
    <2> QED BY <2>1, <2>2, <2>3, ChainedKept
  <1>14. ASSUME NEW w \in Writers, AcceptRollback(w) PROVE Chained'
    <2>1. UNCHANGED <<persisted, pseq>>
      BY <1>14 DEF AcceptRollback, seqVars
    <2>2. \A j \in Keys : commands'[j] \in {0, nextId, commands[j]}
      BY <1>14, RolledBack DEF TypeOK, Cache
    <2>3. \A v \in Writers : Writing(v)' => Writing(v) /\ snap'[v] = snap[v]
      BY <1>14 DEF AcceptRollback, Writing, TypeOK, writerVars
    <2> QED BY <2>1, <2>2, <2>3, ChainedKept
  <1>15. CASE UNCHANGED vars
    <2>1. /\ UNCHANGED <<persisted, pseq>>
          /\ \A j \in Keys : commands'[j] \in {0, nextId, commands[j]}
      BY <1>15 DEF vars, seqVars, memVars
    <2>2. \A v \in Writers : Writing(v)' => Writing(v) /\ snap'[v] = snap[v]
      BY <1>15 DEF vars, writerVars, Writing
    <2> QED BY <2>1, <2>2, ChainedKept
  <1> QED
    BY <1>1, <1>2, <1>3, <1>4, <1>5, <1>6, <1>7, <1>8, <1>9, <1>10, <1>11, <1>12, <1>13, <1>14,
       <1>15 DEF Next, WriterStep

\* A writer that stays where it is believes what it did, as long as nothing changes under it,
LEMMA BelievesStill ==
    ASSUME Jobs, NEW v \in Writers, BelievedBy(v), SameWriter(v),
           UNCHANGED <<commands, persisted, pseq>>, seq' = seq \/ ~Answering(v)
    PROVE  BelievedBy(v)'
  <1>1. /\ pc'[v] = pc[v] /\ job'[v] = job[v] /\ key'[v] = key[v] /\ snap'[v] = snap[v]
        /\ commands' = commands /\ persisted' = persisted /\ pseq' = pseq
    BY DEF SameWriter
  <1>2. (Accepting(v) /\ Writing(v))' => snap[v].commands[key[v]] = commands[key[v]]
    BY <1>1 DEF BelievedBy, Accepting, Writing
  <1>3. pc[v] = "accepted" => persisted[key[v]] = commands[key[v]]
    BY DEF BelievedBy
  <1>4. pc[v] = "write" /\ job[v] = "idempotent" =>
            snap[v].commands = commands /\ snap[v].seq = seq' /\ pseq < seq'
    BY DEF BelievedBy, Answering
  <1>5. pc[v] = "reply" => persisted = commands /\ pseq = seq'
    <2>1. SUFFICES ASSUME pc[v] = "reply" PROVE persisted = commands /\ pseq = seq'
      OBVIOUS
    <2>2. persisted = commands /\ pseq = seq
      BY <2>1 DEF BelievedBy
    <2>3. Answering(v)
      BY <2>1 DEF Answering, Jobs
    <2> QED BY <2>2, <2>3
  <1> QED BY <1>1, <1>2, <1>3, <1>4, <1>5 DEF BelievedBy

\* and one that neither accepts nor answers believes nothing.
LEMMA BelievesNothing ==
    ASSUME Jobs, NEW v \in Writers, SameWriter(v), ~Answering(v), ~Accepting(v)
    PROVE  BelievedBy(v)'
  BY DEF BelievedBy, SameWriter, Accepting, Answering, Writing, Jobs

LEMMA BelievesIdle ==
    ASSUME NEW w \in Writers, pc'[w] \in {"idle", "snap", "rollback"}
    PROVE  BelievedBy(w)'
  BY DEF BelievedBy, Accepting, Writing

\* Every step keeps what is on disk before somebody answers.
LEMMA BelievedStep ==
    ASSUME TypeOK, Jobs, Numbers, Chained, Saved, Believed, [Next]_vars, Spares
    PROVE  Believed'
  <1>1. CASE Change
    <2>1. \A v \in Writers : SameWriter(v) /\ BelievedBy(v)
      BY <1>1 DEF Change, SameWriter, writerVars, Believed
    <2>2. UNCHANGED <<commands, persisted, pseq, seq>>
      BY <1>1 DEF Change, memVars, seqVars
    <2> QED BY <2>1, <2>2, BelievesStill DEF Believed
  <1>2. CASE Restart
    <2>1. \A w \in Writers : pc'[w] = "idle"
      BY <1>2 DEF Restart
    <2> QED BY <2>1, BelievesIdle DEF Believed
  <1>3. ASSUME NEW k \in Keys, Replay(k) PROVE Believed'
    <2>1. \A v \in Writers : SameWriter(v) /\ BelievedBy(v)
      BY <1>3 DEF Replay, SameWriter, writerVars, Believed
    <2>2. UNCHANGED <<commands, persisted, pseq, seq>>
      BY <1>3 DEF Replay, memVars, seqVars
    <2> QED BY <2>1, <2>2, BelievesStill DEF Believed
  <1>4. ASSUME NEW w \in Writers, Background(w) PROVE Believed'
    <2>1. \A v \in Writers \ {w} : SameWriter(v)
      BY <1>4 DEF Background, SameWriter, Become, TypeOK
    <2>2. \A v \in Writers \ {w} : BelievedBy(v)'
      BY <1>4, <2>1, BelievesStill DEF Background, Written, memVars, seqVars, Believed
    <2>3. BelievedBy(w)'
      BY <1>4, BelievesIdle DEF Background, Become, TypeOK
    <2> QED BY <2>2, <2>3 DEF Believed
  <1>5. ASSUME NEW w \in Writers, NEW k \in Keys, Execute(w, k) PROVE Believed'
    <2>1. \A v \in Writers \ {w} : SameWriter(v)
      BY <1>5 DEF Execute, SameWriter, Become, TakeSnapshot, TypeOK
    <2>2. \A v \in Writers : ~Answering(v) /\ ~Accepting(v)
      BY <1>5, Unanswered, Unaccepted DEF Execute, ExecuteAdmitted
    <2>3. \A v \in Writers \ {w} : BelievedBy(v)'
      BY <2>1, <2>2, BelievesNothing
    <2>4. /\ pc'[w] = "write" /\ job'[w] = "idempotent" /\ snap'[w].commands = commands'
          /\ snap'[w].seq = seq' /\ seq' = seq + 1 /\ pseq' = pseq
      BY <1>5 DEF Execute, Become, TakeSnapshot, TypeOK
    <2>5. pseq' < seq'
      BY <2>4 DEF Numbers, TypeOK
    <2>6. BelievedBy(w)'
      BY <2>4, <2>5 DEF BelievedBy, Accepting, Writing
    <2> QED BY <2>3, <2>6 DEF Believed
  <1>6. ASSUME NEW w \in Writers, NEW k \in Keys, RetryWrite(w, k) PROVE Believed'
    <2>1. \A v \in Writers \ {w} : SameWriter(v)
      BY <1>6 DEF RetryWrite, SameWriter, Become, TakeSnapshot, TypeOK
    <2>2. \A v \in Writers : ~Answering(v) /\ ~Accepting(v)
      BY <1>6, Unanswered, Unaccepted DEF RetryWrite, ExecuteAdmitted
    <2>3. \A v \in Writers \ {w} : BelievedBy(v)'
      BY <2>1, <2>2, BelievesNothing
    <2>4. /\ pc'[w] = "write" /\ job'[w] = "idempotent" /\ snap'[w].commands = commands'
          /\ snap'[w].seq = seq' /\ seq' = seq + 1 /\ pseq' = pseq
      BY <1>6 DEF RetryWrite, Become, TakeSnapshot, TypeOK
    <2>5. pseq' < seq'
      BY <2>4 DEF Numbers, TypeOK
    <2>6. BelievedBy(w)'
      BY <2>4, <2>5 DEF BelievedBy, Accepting, Writing
    <2> QED BY <2>3, <2>6 DEF Believed
  <1>7. ASSUME NEW w \in Writers, NEW k \in Keys, AcceptStop(w, k) PROVE Believed'
    <2>1. \A v \in Writers \ {w} : SameWriter(v)
      BY <1>7 DEF AcceptStop, SameWriter, Become, TypeOK
    <2>2. \A v \in Writers : ~Answering(v) /\ ~Accepting(v)
      BY <1>7, Unanswered, Unaccepted DEF AcceptStop, ExecuteAdmitted
    <2>3. \A v \in Writers \ {w} : BelievedBy(v)'
      BY <2>1, <2>2, BelievesNothing
    <2>4. BelievedBy(w)'
      BY <1>7, BelievesIdle DEF AcceptStop, Become, TypeOK
    <2> QED BY <2>3, <2>4 DEF Believed
  <1>8. ASSUME NEW w \in Writers, Snapshot(w) PROVE Believed'
    <2>1. \A v \in Writers \ {w} : SameWriter(v)
      BY <1>8 DEF Snapshot, SameWriter, TakeSnapshot, TypeOK
    <2>2. \A v \in Writers : ~Answering(v)
      BY <1>8, Unanswered DEF Snapshot
    <2>3. \A v \in Writers \ {w} : BelievedBy(v)'
      BY <1>8, <2>1, <2>2, BelievesStill DEF Snapshot, memVars, Believed
    <2>4. /\ pc'[w] = "write" /\ job'[w] = job[w] /\ job[w] # "idempotent"
          /\ snap'[w].commands = commands' /\ key' = key
      BY <1>8 DEF Snapshot, TakeSnapshot, TypeOK, Jobs, memVars
    <2>5. BelievedBy(w)'
      BY <2>4 DEF BelievedBy
    <2> QED BY <2>3, <2>5 DEF Believed
  <1>9. ASSUME NEW w \in Writers, WriteSkipped(w) PROVE Believed'
    <2>1. \A v \in Writers \ {w} : SameWriter(v)
      BY <1>9 DEF WriteSkipped, SameWriter, Written, TypeOK
    <2>2. \A v \in Writers \ {w} : BelievedBy(v)'
      BY <1>9, <2>1, BelievesStill DEF WriteSkipped, Written, memVars, seqVars, Believed
    <2>3. /\ Writing(w) /\ snap[w].seq <= pseq /\ snap[w].seq # pseq
          /\ UNCHANGED <<commands, persisted, pseq, seq, key, job>>
      BY <1>9 DEF WriteSkipped, Written, Writing, Stale, memVars, Numbers
    <2>4. pseq \in Nat /\ seq \in Nat /\ snap[w].seq \in Nat /\ snap[w].seq < pseq
      <3>1. pseq \in Nat /\ seq \in Nat /\ snap[w] \in Snapshots
        BY DEF TypeOK
      <3>2. snap[w].seq \in Nat
        BY <3>1 DEF Snapshots
      <3> QED BY <2>3, <3>1, <3>2
    <2>5. CASE job[w] = "accept"
      <3>1. pc'[w] = "accepted" /\ Accepting(w)
        BY <1>9, <2>5 DEF WriteSkipped, Written, TypeOK, Accepting
      <3>2. accept = key[w] /\ key[w] \in Keys /\ accept # None
        BY <3>1, WriterAssumption DEF Jobs
      <3>3. commands[key[w]] # 0 /\ snap[w].commands[key[w]] = commands[key[w]]
        BY <2>3, <3>1, <3>2 DEF Saved, Believed, BelievedBy
      <3>4. persisted[key[w]] = commands[key[w]]
        BY <2>3, <2>4, <3>2, <3>3 DEF Chained
      <3> QED BY <2>2, <2>3, <3>1, <3>4 DEF Believed, BelievedBy, Writing
    <2>6. CASE job[w] = "idempotent"
      <3>1. snap[w].seq = seq /\ pseq < seq
        BY <2>3, <2>6 DEF Believed, BelievedBy, Writing
      <3> QED BY <2>4, <3>1
    <2>7. CASE job[w] = "background"
      <3>1. pc'[w] = "idle"
        BY <1>9, <2>7 DEF WriteSkipped, Written, TypeOK
      <3> QED BY <2>2, <3>1, BelievesIdle DEF Believed
    <2> QED BY <2>5, <2>6, <2>7 DEF TypeOK
  <1>10. ASSUME NEW w \in Writers, WriteCommitted(w) PROVE Believed'
    <2>1. \A v \in Writers \ {w} : SameWriter(v)
      BY <1>10 DEF WriteCommitted, SameWriter, Written, TypeOK
    <2>2. /\ Writing(w) /\ persisted' = snap[w].commands /\ pseq' = snap[w].seq
          /\ snap[w].seq > pseq /\ UNCHANGED <<commands, seq, key, job>>
      BY <1>10 DEF WriteCommitted, Written, Writing, Stale, memVars, TypeOK, Snapshots
    <2>3. pseq \in Nat /\ seq \in Nat /\ snap[w].seq \in Nat /\ snap[w].seq <= seq
      BY <2>2 DEF TypeOK, Snapshots, Numbers
    <2>4. ASSUME NEW v \in Writers \ {w} PROVE BelievedBy(v)'
      <3>1. SameWriter(v) /\ BelievedBy(v)
        BY <2>1 DEF Believed
      <3>2. pc[v] = "accepted" => persisted'[key[v]] = commands[key[v]]
        <4>1. SUFFICES ASSUME pc[v] = "accepted"
                       PROVE  persisted'[key[v]] = commands[key[v]]
          OBVIOUS
        <4>2. accept = key[v] /\ key[v] \in Keys /\ accept # None
          BY <4>1, WriterAssumption DEF Jobs, Accepting
        <4>3. commands[key[v]] # 0 /\ persisted[key[v]] = commands[key[v]]
          BY <3>1, <4>1, <4>2 DEF Saved, BelievedBy
        <4> QED BY <2>2, <4>2, <4>3 DEF Chained
      <3>3. pc[v] = "write" /\ job[v] = "idempotent" => pseq' < seq
        <4>1. SUFFICES ASSUME pc[v] = "write", job[v] = "idempotent" PROVE pseq' < seq
          OBVIOUS
        <4>2. snap[v].seq = seq /\ snap[v].seq # snap[w].seq
          BY <2>2, <3>1, <4>1 DEF BelievedBy, Numbers, Writing
        <4> QED BY <2>2, <2>3, <4>2
      <3>4. pc[v] # "reply"
        BY <2>2, <2>3, <3>1 DEF BelievedBy
      <3> QED BY <2>2, <3>1, <3>2, <3>3, <3>4
              DEF BelievedBy, SameWriter, Accepting, Writing
    <2>5. BelievedBy(w)'
      <3>1. CASE job[w] = "accept"
        <4>1. pc'[w] = "accepted" /\ Accepting(w)
          BY <1>10, <3>1 DEF WriteCommitted, Written, TypeOK, Accepting
        <4> QED BY <2>2, <4>1 DEF Believed, BelievedBy, Writing
      <3>2. CASE job[w] = "idempotent"
        <4>1. pc'[w] = "reply" /\ snap[w].commands = commands /\ snap[w].seq = seq
          BY <1>10, <3>2 DEF WriteCommitted, Written, TypeOK, Believed, BelievedBy
        <4> QED BY <2>2, <4>1 DEF BelievedBy, Writing
      <3>3. CASE job[w] = "background"
        <4>1. pc'[w] = "idle"
          BY <1>10, <3>3 DEF WriteCommitted, Written, TypeOK
        <4> QED BY <4>1, BelievesIdle
      <3> QED BY <3>1, <3>2, <3>3 DEF TypeOK
    <2> QED BY <2>4, <2>5 DEF Believed
  <1>11. ASSUME NEW w \in Writers, WriteFailed(w) PROVE Believed'
    <2>1. \A v \in Writers \ {w} : SameWriter(v)
      BY <1>11 DEF WriteFailed, SameWriter, TypeOK
    <2>2. \A v \in Writers \ {w} : BelievedBy(v)'
      BY <1>11, <2>1, BelievesStill DEF WriteFailed, Written, memVars, seqVars, Believed
    <2>3. BelievedBy(w)'
      BY <1>11, BelievesIdle DEF WriteFailed, TypeOK
    <2> QED BY <2>2, <2>3 DEF Believed
  <1>12. ASSUME NEW w \in Writers, Reply(w) PROVE Believed'
    <2>1. \A v \in Writers \ {w} : SameWriter(v)
      BY <1>12 DEF Reply, SameWriter, TypeOK
    <2>2. \A v \in Writers \ {w} : BelievedBy(v)'
      BY <1>12, <2>1, BelievesStill DEF Reply, Written, memVars, seqVars, Believed
    <2>3. BelievedBy(w)'
      BY <1>12, BelievesIdle DEF Reply, TypeOK
    <2> QED BY <2>2, <2>3 DEF Believed
  <1>13. ASSUME NEW w \in Writers, AcceptDone(w) PROVE Believed'
    <2>1. \A v \in Writers \ {w} : SameWriter(v)
      BY <1>13 DEF AcceptDone, SameWriter, TypeOK
    <2>2. \A v \in Writers \ {w} : BelievedBy(v)'
      BY <1>13, <2>1, BelievesStill DEF AcceptDone, Written, memVars, seqVars, Believed
    <2>3. BelievedBy(w)'
      BY <1>13, BelievesIdle DEF AcceptDone, TypeOK
    <2> QED BY <2>2, <2>3 DEF Believed
  <1>14. ASSUME NEW w \in Writers, AcceptRollback(w) PROVE Believed'
    <2>1. \A v \in Writers \ {w} : SameWriter(v)
      BY <1>14 DEF AcceptRollback, SameWriter, TypeOK
    <2>2. \A v \in Writers \ {w} : ~Answering(v) /\ ~Accepting(v)
      BY <1>14, Unanswered DEF AcceptRollback, Jobs, Accepting
    <2>3. \A v \in Writers \ {w} : BelievedBy(v)'
      BY <2>1, <2>2, BelievesNothing
    <2>4. BelievedBy(w)'
      BY <1>14, BelievesIdle DEF AcceptRollback, TypeOK
    <2> QED BY <2>3, <2>4 DEF Believed
  <1>15. CASE UNCHANGED vars
    <2>1. \A v \in Writers : SameWriter(v) /\ BelievedBy(v)
      BY <1>15 DEF vars, SameWriter, writerVars, Believed
    <2>2. UNCHANGED <<commands, persisted, pseq, seq>>
      BY <1>15 DEF vars, memVars, seqVars
    <2> QED BY <2>1, <2>2, BelievesStill DEF Believed
  <1> QED
    BY <1>1, <1>2, <1>3, <1>4, <1>5, <1>6, <1>7, <1>8, <1>9, <1>10, <1>11, <1>12, <1>13, <1>14,
       <1>15 DEF Next, WriterStep

\* Every step keeps the answers.
LEMMA AnswersStep ==
    ASSUME ~Duplicates, TypeOK, RowsMatchPersisted, Jobs, Chained, Saved, Believed, Answers,
       [Next]_vars, Spares
    PROVE  Answers'
  <1>1. CASE Change
    BY <1>1 DEF Change, Answers, memVars, seqVars, Written
  <1>2. CASE Restart
    <2>1. commands' = persisted /\ accept' = None /\ UNCHANGED <<persisted, answered>>
      BY <1>2 DEF Restart, RowsMatchPersisted
    <2> QED BY <2>1, WriterAssumption DEF Answers
  <1>3. ASSUME NEW k \in Keys, Replay(k) PROVE Answers'
    <2>1. /\ answered' = [answered EXCEPT ![k] = commands[k]] /\ persisted[k] = commands[k]
          /\ accept # k /\ UNCHANGED <<commands, persisted, accept>>
      BY <1>3 DEF Replay, ReplayAdmitted, memVars, seqVars
    <2> QED BY <2>1 DEF Answers, TypeOK, Cache
  <1>4. ASSUME NEW w \in Writers, Background(w) PROVE Answers'
    BY <1>4 DEF Background, Answers, memVars, seqVars, Written
  <1>5. ASSUME NEW w \in Writers, NEW k \in Keys, Execute(w, k) PROVE Answers'
    <2>1. commands \in Cache /\ nextId \in Nat /\ answered \in Cache
      BY DEF TypeOK
    <2>2. /\ commands' = Cached(commands, k) /\ answered' = Retired(Cached(commands, k))
          /\ persisted' = persisted /\ commands[k] = 0 /\ accept' = None
      BY <1>5 DEF Execute, ExecuteAdmitted, seqVars
    <2>3. \A j \in Keys : answered'[j] # 0 => answered'[j] = answered[j] /\ commands'[j] # 0
      BY <2>2 DEF Retired
    <2>4. answered'[k] = 0
      BY <2>2, <2>3 DEF Answers
    <2>5. \A j \in Keys \ {k} : commands'[j] \in {0, commands[j]}
      BY <2>1, <2>2, CachedReceipts
    <2> QED BY <2>2, <2>3, <2>4, <2>5, WriterAssumption DEF Answers
  <1>6. ASSUME NEW w \in Writers, NEW k \in Keys, RetryWrite(w, k) PROVE Answers'
    BY <1>6 DEF RetryWrite, Answers, memVars, seqVars, Written
  <1>7. ASSUME NEW w \in Writers, NEW k \in Keys, AcceptStop(w, k) PROVE Answers'
    <2>1. commands \in Cache /\ nextId \in Nat /\ answered \in Cache
      BY DEF TypeOK
    <2>2. /\ commands' = Cached(commands, k) /\ answered' = Retired(Cached(commands, k))
          /\ persisted' = persisted /\ commands[k] = 0 /\ accept' = k
      BY <1>7 DEF AcceptStop, ExecuteAdmitted, seqVars
    <2>3. \A j \in Keys : answered'[j] # 0 => answered'[j] = answered[j] /\ commands'[j] # 0
      BY <2>2 DEF Retired
    <2>4. answered'[k] = 0
      BY <2>2, <2>3 DEF Answers
    <2>5. \A j \in Keys \ {k} : commands'[j] \in {0, commands[j]}
      BY <2>1, <2>2, CachedReceipts
    <2> QED BY <2>2, <2>3, <2>4, <2>5, WriterAssumption DEF Answers
  <1>8. ASSUME NEW w \in Writers, Snapshot(w) PROVE Answers'
    BY <1>8 DEF Snapshot, Answers, memVars, seqVars, Written
  <1>9. ASSUME NEW w \in Writers, WriteSkipped(w) PROVE Answers'
    BY <1>9 DEF WriteSkipped, Answers, memVars, seqVars, Written
  <1>10. ASSUME NEW w \in Writers, WriteCommitted(w) PROVE Answers'
    <2>1. /\ Writing(w) /\ persisted' = snap[w].commands /\ snap[w].seq > pseq
          /\ UNCHANGED <<commands, accept, answered>>
      <3>1. snap[w] \in Snapshots /\ pseq \in Nat
        BY DEF TypeOK
      <3> QED BY <1>10, <3>1 DEF WriteCommitted, Written, Writing, Stale, memVars, Snapshots
    <2>2. ASSUME NEW k \in Keys, answered[k] # 0 PROVE snap[w].commands[k] = answered[k]
      <3>1. commands[k] # 0 /\ commands[k] = answered[k] /\ persisted[k] = commands[k]
        BY <2>2 DEF Answers
      <3> QED BY <2>1, <3>1 DEF Chained
    <2> QED BY <2>1, <2>2 DEF Answers
  <1>11. ASSUME NEW w \in Writers, WriteFailed(w) PROVE Answers'
    BY <1>11 DEF WriteFailed, Answers, memVars, seqVars, Written
  <1>12. ASSUME NEW w \in Writers, Reply(w) PROVE Answers'
    <2>1. /\ answered' = [answered EXCEPT ![key[w]] = commands[key[w]]]
          /\ UNCHANGED <<commands, persisted, accept>>
      BY <1>12 DEF Reply, seqVars
    <2>2. Answering(w)
      BY <1>12 DEF Reply, Answering, Jobs
    <2>3. key[w] \in Keys /\ accept = None
      BY <2>2 DEF Jobs
    <2>4. persisted = commands
      BY <1>12 DEF Reply, Believed, BelievedBy
    <2> QED BY <2>1, <2>3, <2>4, WriterAssumption DEF Answers, TypeOK, Cache
  <1>13. ASSUME NEW w \in Writers, AcceptDone(w) PROVE Answers'
    <2>1. /\ answered' = [answered EXCEPT ![key[w]] = commands[key[w]]] /\ accept' = None
          /\ UNCHANGED <<commands, persisted>>
      BY <1>13 DEF AcceptDone, seqVars
    <2>2. Accepting(w)
      BY <1>13 DEF AcceptDone, Accepting, Jobs
    <2>3. key[w] \in Keys
      BY <2>2 DEF Jobs
    <2>4. persisted[key[w]] = commands[key[w]]
      BY <1>13 DEF AcceptDone, Believed, BelievedBy
    <2> QED BY <2>1, <2>3, <2>4, WriterAssumption DEF Answers, TypeOK, Cache
  <1>14. ASSUME NEW w \in Writers, AcceptRollback(w) PROVE Answers'
    <2>1. accept \in Keys /\ commands' = [commands EXCEPT ![accept] = 0]
      BY <1>14, RolledBack
    <2>2. accept' = None /\ UNCHANGED <<persisted, answered>>
      BY <1>14 DEF AcceptRollback, seqVars
    <2>3. \A k \in Keys : answered[k] # 0 => accept # k
      BY DEF Answers
    <2> QED BY <2>1, <2>2, <2>3, WriterAssumption DEF Answers, TypeOK, Cache
  <1>15. CASE UNCHANGED vars
    BY <1>15 DEF vars, Answers, memVars, seqVars, Written
  <1> QED
    BY <1>1, <1>2, <1>3, <1>4, <1>5, <1>6, <1>7, <1>8, <1>9, <1>10, <1>11, <1>12, <1>13, <1>14,
       <1>15 DEF Next, WriterStep

\* A stutter accepts nothing.
LEMMA StutterSpares ==
    ASSUME UNCHANGED vars
    PROVE  Spares
  <1> SUFFICES ASSUME NEW w \in Writers, NEW k \in Keys, AcceptStop(w, k) PROVE FALSE
    BY DEF Spares
  <1>1. accept = None /\ accept' = k /\ accept' = accept
    BY DEF AcceptStop, vars, memVars
  <1> QED BY <1>1, WriterAssumption

\* The receipts of a daemon that has just started.
LEMMA InitReceipts ==
    ASSUME Init
    PROVE  Receipts
  <1>1. \A w \in Writers : pc[w] = "idle"
    BY DEF Init
  <1>2. Jobs /\ Numbers /\ Chained
    BY <1>1 DEF Init, Jobs, Numbers, Chained, Accepting, Answering, Writing
  <1>3. Fresh /\ Answers
    BY <1>1 DEF Init, Fresh, Answers, Writing, Empty
  <1>4. Saved /\ Believed
    BY <1>1 DEF Init, Saved, Believed, BelievedBy, Accepting, Writing
  <1> QED BY <1>2, <1>3, <1>4 DEF Receipts

\* Every step keeps the receipts in order.
LEMMA ReceiptsStep ==
    ASSUME ~Duplicates, TypeOK, RowsMatchPersisted, Receipts, [Next]_vars, [Spares]_vars
    PROVE  Receipts'
  <1>1. Spares
    BY StutterSpares
  <1>2. Jobs /\ Fresh /\ Numbers /\ Chained /\ Saved /\ Believed /\ Answers
    BY DEF Receipts
  <1>3. Jobs'
    BY <1>1, <1>2, JobsStep
  <1>4. Fresh'
    BY <1>1, <1>2, FreshStep
  <1>5. Numbers'
    BY <1>1, <1>2, NumbersStep
  <1>6. Chained'
    BY <1>1, <1>2, ChainedStep
  <1>7. Saved'
    BY <1>1, <1>2, SavedStep
  <1>8. Believed'
    BY <1>1, <1>2, BelievedStep
  <1>9. Answers'
    BY <1>1, <1>2, AnswersStep
  <1> QED BY <1>3, <1>4, <1>5, <1>6, <1>7, <1>8, <1>9 DEF Receipts

\* The receipts stay in order.
LEMMA ReceiptsCorrect == ~Duplicates /\ Spec /\ [][Spares]_vars => []Receipts
  <1>1. Init => Receipts
    BY InitReceipts
  <1>2. ~Duplicates /\ TypeOK /\ RowsMatchPersisted /\ Receipts /\ [Next]_vars /\ [Spares]_vars
            => Receipts'
    BY ReceiptsStep
  <1>3. CASE ~Duplicates
    BY <1>1, <1>2, <1>3, TypeCorrect, RowsCorrect, PTL DEF Spec
  <1> QED BY <1>3

\* A command answered to a client is on disk and answered again from the same receipt, after a
\* rollback, a failed write or a restart too: as long as no client repeats a stop that is still
\* being accepted, and no acceptance of a stop evicts a receipt.
THEOREM AnsweredCorrect ==
    ~Duplicates /\ Spec /\ [][Spares]_vars => [](AnsweredIsReplayed /\ AnsweredIsDurable)
  <1>1. RowsMatchPersisted /\ Receipts => AnsweredIsReplayed /\ AnsweredIsDurable
    BY DEF RowsMatchPersisted, Receipts, Answers, AnsweredIsReplayed, AnsweredIsDurable
  <1> QED BY <1>1, RowsCorrect, ReceiptsCorrect, PTL

\* Forgetting the receipts a cache has no room for retires one key at most.
LEMMA RetiresOne ==
    ASSUME TypeOK, Answers, NEW k \in Keys, answered' = Retired(Cached(commands, k)),
           rows' = rows
    PROVE  [Promise!Next]_<<rows, answered>>
  <1> DEFINE d == [commands EXCEPT ![k] = nextId]
             o == Oldest(d)
  <1>1. commands \in [Keys -> Nat] /\ answered \in [Keys -> Nat] /\ nextId \in Nat \ {0}
    BY DEF TypeOK, Cache
  <1>2. \A j \in Keys : d[j] = 0 => answered[j] = 0
    BY <1>1 DEF Answers
  <1>3. CASE Cached(commands, k) = d
    <2>1. answered' = [j \in Keys |-> answered[j]]
      BY <1>2, <1>3 DEF Retired
    <2> QED BY <1>1, <2>1
  <1>4. CASE Cached(commands, k) = [d EXCEPT ![o] = 0] /\ o \in Keys
    <2>1. \A j \in Keys : answered'[j] = IF j = o THEN 0 ELSE answered[j]
      BY <1>1, <1>2, <1>4 DEF Retired
    <2>2. answered' = [answered EXCEPT ![o] = 0]
      BY <1>1, <1>4, <2>1 DEF Retired
    <2> QED BY <1>4, <2>2 DEF Promise!Next, Promise!Retire
  <1>5. CASE Cached(commands, k) = [d EXCEPT ![o] = 0] /\ o \notin Keys
    <2>1. [d EXCEPT ![o] = 0] = d
      BY <1>1, <1>5
    <2> QED BY <1>3, <1>5, <2>1
  <1> QED BY <1>3, <1>4, <1>5 DEF Cached

\* Every step of the writers is a step of the promise, or none of its business.
LEMMA PromiseStep ==
    ASSUME ~Duplicates, TypeOK, TypeOK', RowsMatchPersisted, RowsMatchPersisted', Receipts,
           Receipts', [Next]_vars, [Spares]_vars
    PROVE  [Promise!Next]_<<rows, answered>>
  <1>1. Spares /\ Jobs /\ Saved /\ Believed /\ Answers /\ Answers'
    BY StutterSpares DEF Receipts
  <1>2. ASSUME NEW k \in Keys, rows[k] # 0, rows' = rows,
               answered' = [answered EXCEPT ![k] = rows[k]]
        PROVE  [Promise!Next]_<<rows, answered>>
    BY <1>2 DEF Promise!Next, Promise!Answer
  <1>3. CASE UNCHANGED <<rows, answered>>
    BY <1>3
  <1>4. ASSUME NEW k \in Keys, Replay(k) PROVE [Promise!Next]_<<rows, answered>>
    BY <1>2, <1>4 DEF Replay, ReplayAdmitted, RowsMatchPersisted, dbVars
  <1>5. ASSUME NEW w \in Writers, NEW k \in Keys, Execute(w, k)
        PROVE  [Promise!Next]_<<rows, answered>>
    BY <1>1, <1>5, RetiresOne DEF Execute, dbVars
  <1>6. ASSUME NEW w \in Writers, NEW k \in Keys, AcceptStop(w, k)
        PROVE  [Promise!Next]_<<rows, answered>>
    BY <1>1, <1>6, RetiresOne DEF AcceptStop, dbVars
  <1>7. ASSUME NEW w \in Writers, WriteCommitted(w) PROVE [Promise!Next]_<<rows, answered>>
    <2>1. rows' \in [Keys -> Nat]
      BY DEF TypeOK, Cache
    <2>2. answered' = answered
      BY <1>7 DEF WriteCommitted, Written
    <2>3. \A k \in Keys : answered[k] # 0 => rows'[k] = answered[k]
      BY <1>1, <2>2 DEF Answers, RowsMatchPersisted
    <2> QED BY <2>1, <2>2, <2>3 DEF Promise!Next, Promise!Store
  <1>8. ASSUME NEW w \in Writers, Reply(w) PROVE [Promise!Next]_<<rows, answered>>
    <2>1. answered' = [answered EXCEPT ![key[w]] = commands[key[w]]] /\ rows' = rows
      BY <1>8 DEF Reply, dbVars
    <2>2. Answering(w)
      BY <1>1, <1>8 DEF Reply, Answering, Jobs
    <2>3. key[w] \in Keys
      BY <1>1, <2>2 DEF Jobs
    <2>4. rows = commands
      BY <1>1, <1>8 DEF Reply, Believed, BelievedBy, RowsMatchPersisted
    <2>5. CASE rows[key[w]] = 0
      <3>1. answered[key[w]] = 0
        BY <1>1, <2>3, <2>4, <2>5 DEF Answers
      <3>2. answered' = answered
        BY <2>1, <2>3, <2>4, <2>5, <3>1 DEF TypeOK, Cache
      <3> QED BY <2>1, <3>2
    <2> QED BY <1>2, <2>1, <2>3, <2>4, <2>5
  <1>9. ASSUME NEW w \in Writers, AcceptDone(w) PROVE [Promise!Next]_<<rows, answered>>
    <2>1. answered' = [answered EXCEPT ![key[w]] = commands[key[w]]] /\ rows' = rows
      BY <1>9 DEF AcceptDone, dbVars
    <2>2. Accepting(w)
      BY <1>1, <1>9 DEF AcceptDone, Accepting, Jobs
    <2>3. key[w] \in Keys /\ accept = key[w]
      BY <1>1, <2>2 DEF Jobs
    <2>4. commands[key[w]] # 0
      BY <1>1, <2>3, WriterAssumption DEF Saved
    <2>5. rows[key[w]] = commands[key[w]]
      BY <1>1, <1>9 DEF AcceptDone, Believed, BelievedBy, RowsMatchPersisted
    <2> QED BY <1>2, <2>1, <2>3, <2>4, <2>5
  <1> QED
    BY <1>3, <1>4, <1>5, <1>6, <1>7, <1>8, <1>9
       DEF Next, WriterStep, Change, Restart, Background, RetryWrite, Snapshot, WriteSkipped,
           WriteFailed, AcceptRollback, Written, vars, dbVars

\* The writer keeps the promise made to the clients of idempotent commands, under the same two
\* conditions.
THEOREM PromiseCorrect == ~Duplicates /\ Spec /\ [][Spares]_vars => ImplementsPromise
  <1>1. Init => Promise!Init
    BY DEF Init, Promise!Init, Empty
  <1>2. ~Duplicates /\ TypeOK /\ TypeOK' /\ RowsMatchPersisted /\ RowsMatchPersisted' /\ Receipts
            /\ Receipts' /\ [Next]_vars /\ [Spares]_vars
            => [Promise!Next]_<<rows, answered>>
    BY PromiseStep
  <1>3. CASE ~Duplicates
    BY <1>1, <1>2, <1>3, TypeCorrect, RowsCorrect, ReceiptsCorrect, PTL
       DEF Spec, ImplementsPromise, Promise!Spec
  <1> QED BY <1>3

\* A cache with room for every key evicts nothing.
THEOREM RoomForAll ==
    IsFiniteSet(Keys) /\ Cardinality(Keys) <= CacheSize /\ Spec => [][Spares]_vars
  <1>1. ASSUME IsFiniteSet(Keys), Cardinality(Keys) <= CacheSize PROVE Spares
    <2> SUFFICES ASSUME NEW w \in Writers, NEW k \in Keys, AcceptStop(w, k)
                 PROVE  commands' = [commands EXCEPT ![k] = nextId]
      BY DEF Spares
    <2> DEFINE d == [commands EXCEPT ![k] = nextId]
    <2>1. Held(d) \subseteq Keys
      BY DEF Held
    <2>2. Cardinality(Held(d)) <= Cardinality(Keys) /\ Cardinality(Held(d)) \in Nat
      BY <1>1, <2>1, FS_Subset, FS_CardinalityType
    <2>3. ~(Cardinality(Held(d)) > CacheSize)
      BY <1>1, <2>2, FS_CardinalityType, WriterAssumption
    <2>4. commands' = Cached(commands, k)
      BY DEF AcceptStop
    <2> QED BY <2>3, <2>4 DEF Cached
  <1>2. CASE IsFiniteSet(Keys) /\ Cardinality(Keys) <= CacheSize
    BY <1>1, <1>2, PTL DEF Spec
  <1> QED BY <1>2
=============================================================================
