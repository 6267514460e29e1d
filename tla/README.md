# Formal models of the Open Aria Conductor recording device

TLA+ models, TLC runs and TLAPS proofs of the code that decides what happens
to a recording and to the device that makes it: who may end a take, what a
client was told, which files are on the disk when the daemon or the power dies,
which network and which release are in force. Paths below are relative to the
repository; `coordinator.py` is `src/rp_ylx/recording/coordinator.py`,
`device_session.py`, `recovery.py`, `catalog.py` and `deletion.py` are its
neighbours, other Python files are in `src/rp_ylx`, Rust files in `native/src`.

## The system

An RDK X5 board records stereo video, audio and IMU data. A Python daemon owns
the device; camera, encoder and file work is done in Rust and C below it.
Clients (browser, phone, button) use an HTTP API. Separate processes control
the network, the firmware and the push button.

| Component | State it keeps | Operations | What is hard | Module |
|---|---|---|---|---|
| Capture coordinator (`coordinator.py`) | active take, stop/failure/acceptance in flight, retained failures, lease, safe-swap fields | start, stop (accepted, then finished by a worker), source failure, monitors, close | five kinds of threads end the same take; each holds the lock only in short blocks and works for seconds outside it | `CaptureCoordinator` |
| Command receipts, state writer (`coordinator.py`, `persistence.py`) | receipt cache, snapshot sequence, SQLite document and rows | execute, replay, accept, roll back, write, restart | snapshots are ordered by one lock and written under another; writes fail; clients retry | `StateWriter` |
| State databases (`persistence.py`, `database_admin.py`) | database, WAL, marker, JSON of older firmware, archives | create, import, commit, backup, restore | a kill or power cut between two renames; a lost file mistaken for a new device | `StateDatabase` |
| Session publication (`device_session.py`, `recovery.py`, `coordinator.py:1381-1704`) | the directory of a take, control files, manifest, database row | start, stop, fail, recover, boot | a crash or an I/O error between any two file operations | `SessionPublication` |
| Recorder without the native data plane (`device_session.py`, `stereo_encoder.py`) | bounded queue, journals, drops, encoder helper, checkpoint state | submit, write, checkpoint, stop, fail | a submit, a checkpoint and a helper's report racing the thread that ends the take; joins with timeouts | `QueuedRecorder` |
| Capture sources (`recording/sources.py`, `camera/controller.py`) | camera and its thread, taps, handles; or engine, recording, handles | open preview, start, stop, fail, close | every caller works outside the lock; a thread that outlives its join; a late failure | `CaptureSources`, `EngineSources` |
| Native take (`capture_runtime.rs`, `recording.rs`, `stereo_encoder.rs`, `session_store.rs`, `device_session.py`) | frame gate, segment planner, index writer, encoder helper, checkpoint | frame, IMU error, seal, harvest, stop, fail | six threads; a frame in flight when the gate closes; joins with timeouts | `NativeTake` |
| Audio (`audio.rs`, `live_seal.py`, `audio_journal.py`) | queue and buffer pool, WAV segments, commit journal and header | read, write, commit, stop, abort, seal while recording | a thread fails while another drains; a header replaced while it is read | `AudioCapture` |
| IMU clock (`imu.rs`) | unwrapped counter, anchors of the clock fit | poll, unwrap, fit | wrap-around, an unseen packet under an old counter | `ImuClock` |
| Catalog, listing, deletion, downloads (`catalog.py`, `deletion.py`, `coordinator.py`, `downloads.py`) | index, summaries, diagnostics, admissions, open files | scan, list, admit, delete, serve | files replaced between two reads; pages of a changing list; chains of sessions | `SessionCatalog` |
| Live preview (`preview.rs`, `preview.py`, `preview_thumbnail.py`) | latest frame, latest thumbnail, generation | publish, clear, get, stream | two codecs finish out of order; clear is two steps | `LivePreview` |
| HTTP gateway (`api/gateway.py`) | connections, stream slots, downloads | accept, reclaim, dispatch, cancel, close | a slot given back by whichever of three comes first; an unread body | `HttpEdge` |
| Capture events (`api/events.py`, `daemon.py`) | window of 128 events, cursors | sample, publish, replay, resync | sampling without the lock, the edge of the window | `EventStreams` |
| Network events (`api/gateway.py`) | last status, retired authorities | sample, publish, follow | an old sample applied after a newer one; a controller that is silent once | `NetworkStream` |
| Network control (`network_control.py`, `network_state.py`, `network.py`) | profiles, last-known-good record, transaction, deferred work, health | submit, release, execute, fall back, monitor, boot, command line | durable transaction against its answer; three processes share one lock | `NetworkProfiles`, `NetworkControl` |
| Deployment and update (`deployment.py`, `update.py`, `firmware_control.py`) | release links, transaction file, snapshots, task and receipts | install, roll back, uninstall, recover, update | a crash or error between switch, transaction and snapshot | `Deployment`, `FirmwareControl` |
| Button and LED (`recording_button.py`, `recording_indicator.py`) | debounce state, LED files | sample, press, show, restore | a press that lasts, a slow answer, a write that fails half-way | `RecordingButton` |

The coordinator calls the recorder (`DeviceSessionRecorder`) and is called back
by it (state sink) and by the sources (source failure). Every change of its
state goes to SQLite through the state writer. It shares a cross-process lock,
the *lease*, with network control and updates. At start-up it settles what the
previous process left in the recording directory.

What makes each part correct: one thread at a time ends a take, the one it was
meant to end; the lease covers the take and nothing else; a failure of the
take is never lost; a client is never told what a restart forgets; a volume is
released only when nothing reads it; a published directory is complete and
claims no more than is on the disk; saved footage can be published and the user
learns of it; a list, a deletion and a download agree about the sessions; events
never take a reader back; a network change is answered before it begins and
can be undone; the services run a committed release; a firmware task runs at
most once; no thread waits for ever.

`PROJECT.json` lists all components with their status, and under `hazards` the
places in the code where these can go wrong and a unit test hardly gets.

## Modules

| Module | Models | Kind |
|---|---|---|
| `CaptureCoordinator` | ownership of the active take | component |
| `StateWriter` | receipts and their way to SQLite | component |
| `DurableReceipts` | what `StateWriter` promises | abstract |
| `SessionPublication` | the files of one take, boot, database row | component |
| `TakeLifecycle` | what `SessionPublication` promises | abstract |
| `QueuedRecorder` | queue, writer and encoder helper of the Python recorder | component |
| `CaptureSources`, `EngineSources` | who holds the camera: Python pipeline, native engine | components |
| `NativeTake`, `AudioCapture`, `ImuClock` | the threads that record | components |
| `StateDatabase`, `SessionCatalog`, `LivePreview` | what the device keeps and shows | components |
| `HttpEdge`, `EventStreams`, `NetworkStream` | connections and event streams | components |
| `RecordingButton` | button and LED process | component |
| `NetworkProfiles`, extended by `NetworkControl` | network records and command line, with the controller on top | composition |
| `Deployment`, extended by `FirmwareControl` | the deployer, with updater and supervisor on top | composition |
| `MCTake`, `MCLiveness`, `MCDevice`, `MCContent` | components that share no state, side by side | instances |
| the other `MC*` | constants, symmetry and bounds for TLC | instances |
| `CaptureCoordinatorProofs`, `StateWriterProofs`, `SessionPublicationProofs`, `RecorderProofs` (`QueuedRecorder`), `SourcesProofs` (`CaptureSources`, `EngineSources`), `ContentProofs` (`LivePreview`), `DeviceProofs` (`EventStreams`, `NetworkStream`, `HttpEdge`, `NetworkControl`), `MaintenanceProofs` (`Deployment`, `FirmwareControl`) | theorems | proofs |

The operators named `X_Something` stand before the definition `X` and are
faulty variants of it (a guard dropped, a step in the wrong order); nothing in
a specification uses them. `PROJECT.json` (`mutants`) says which property each
one must break, which shows that the property depends on that piece of code.

### CaptureCoordinator

An action is what a thread does between two moments at which another thread can
run: one block under `_lock`, or one piece of work outside it (joining the
sources, sealing, a SQLite write). `pc[a]` is the place of thread `a`, `take[a]`
the recorder in its closure. The threads are one client per stop key, the two
monitors (`daemon.py:584-627`), the detached stop worker, the recovery thread of
a source failure, and `close()`.

| Variable | Code |
|---|---|
| `active`, `rec` | `_active`/`_active_plan`; the recorder's state, with recoverable, failed and abandoned as one value `failed` |
| `stopInflight`, `wkey`, `stopAccept`, `stopCommit` | `_stop_inflight`, the registered worker, the acceptance in flight, `_pending_stop_state_commit` |
| `failInflight`, `failProj`, `failPending`, `pendSrc` | `_failure_inflight`, `_failure_projection`, `_failure_pending_commit`, the deferred source failure |
| `retained` | `_retained`: takes reported as unsuccessful |
| `commands`, `persisted`, `saved` | receipts in memory, on disk, before an acceptance |
| `lease` | the network-operation lock of `start_capture` |
| `pendingSwap`, `swapFail`, `released` | the safe-swap handoff |
| `handles`, `verifying` | open representations, catalog verification |

Simplifications, all of data or of what another module covers:
- A SQLite write is one step that succeeds or fails; its ordering is the
  subject of `StateWriter`. Both outcomes are possible at every write.
- The synchronous `stop_capture` is modelled as the monitors use it (with
  `expected_session_id`); their own receipts are left out, their write is not.
- Each stop key has one client. Duplicates in flight are in `StateWriter`.
- The retry of a receipt that is cached but not durable (`coordinator.py:3639-3650`)
  is left out: `ReceiptsDurable` shows that it is unreachable for stops.
- A storage monitor's blocks before its stop are one action; the wait loop and
  everything after it are separate.
- Inside the claimed failure path `fail()` does not raise, because the state
  sink swallows database errors there; outside it a database error escapes:
  `Seal` and `CloseAbort` have that outcome, and so has a start that fails after
  the recorder began (`StartEscapes`, `coordinator.py:3448-3454`), which leaves
  the failed take active under its lease until a stop, a failure or `close()` ends it.
- A start that raises before the recorder has a state leaves nothing behind.
  A worker thread that cannot be started is a refused request.

### StateWriter

`TakeSnapshot` is the block under the state lock: it gives the snapshot a number
and copies the document and the receipt cache. `WriteSkipped`, `WriteCommitted`
and `WriteFailed` are the block under the write lock: stale numbers are skipped,
rows are inserted and deleted by difference to `_persisted_commands`. Receipts
are numbered, so that two receipts for one key are told apart as the code tells
them apart by object identity. An idempotent command holds the state lock over
its own write (`lock`); an acceptance does not, which is why it has a rollback.
`answered` records what clients were told; it is cleared for a key that the
cache evicts, after which the code promises nothing.

### SessionPublication

One take, from `mkdir` to the published directory. `disk` is what a process
sees; `undo` holds the directory states a power loss may still bring back. Every
directory operation adds the current state to `undo`, an fsync empties it: the
file system applies operations in order and an fsync makes all earlier ones
durable. A kill loses memory only, a power loss takes any state of
`undo \cup {disk}`. A SQLite commit is durable. `footage` says that at least one
complete stereo segment is named by `segments.json`; media contents are left out.
The Python publication path is the modelled one: the coordinator passes
`before_publish`, so the native seal is not taken. Early returns for a partial
directory that another process replaced are not modelled.

Three constants switch on faults: an I/O error after `stop` removed its control
files (`StopTailErrors`), an I/O error while boot settles a directory
(`BootErrors`), a recorder whose last state could not be written when `close()`
reads it (`StaleAtClose`).

### QueuedRecorder

One take of `DeviceSessionRecorder` without the native data plane. An item is its
kind and number. `offer` is a submit that holds the recorder's locks and waits for
room: it enters the queue, or times out and is a drop (a frame) or an error of the
writer (an observation). `writerAt` is the writer: take an item, hand a frame to
the helper (whose pipe may be full) or append an observation, checkpoint when due.
`closer` is the thread in `stop()` or `fail()`: reject further submits, queue the
stop item, join the writer (with a timeout, then without), close the helper,
check drops, errors and what the helper reported, seal or fail. The helper
encodes, dies or, with `MayHang`, stops reading. `_state_write_lock` is a variable
(`stateLock`), since a checkpoint and `finalizing` race for it. The journal's
bytes, timestamps and cadence are left out; the directory after `stop` is the
subject of `SessionPublication`.

### CaptureSources and EngineSources

`CaptureSources` is the Python pipeline: `opener` is a caller in `start_preview`
or `start`, `pump` the camera thread with its frame between the gate and the end
of its submit, `tap` one recording with its IMU thread, `stopper` a `stop()` or
`close()`, by a caller or by the thread that reports a failure. `handles` is
`_open_handles`, counted by whoever releases last. A frame is its source number;
a tap takes every `Decimation`-th and fails on a gap. Joins and waits may
time out. `EngineSources` is the native counterpart: one engine at a time can
hold the camera, may die between any two steps and calls back for the recording
it had. A thread that cannot be started is not modelled.

### StateDatabase

One database file and its WAL under the names `persistence.py` and
`database_admin.py` give them. A file is a number; `base` and `log` are its
content without and with the WAL. `OpenFile` and `OpenSchema` create it and
refuse to create it again when the `.initialized` marker says that it existed;
`ImportBegin` and its successors take over the JSON state and keep a copy; the restore archives the old
file and its WAL and renames the prepared one into place, one action per rename
and sync. `earlier` holds the directories a power cut may bring back: names
reach the disk in the order of their changes (an ordered journal). SQLite is
external; its commits are durable.

### NativeTake and AudioCapture

`NativeTake` starts when `start_recording` has returned. A frame is its source
sequence number. `BeginFrame` and its successors follow one frame through the
gate, the active take, the planner, the index writer and the helper; the
harvester samples finished media, joins them with index rows and replaces
`segments.json`; the helper is the process of `hobot/ylx_stereo_encoder.c` and
`ylx_stereo_pipeline.c`: it encodes what it read, announces a segment once its file
is complete, and after an error it reported it goes on reading and announcing
(`failing`; it may then still encode any frame it was given, more than the C code
would). `closer` is the thread that stops or fails the take, with each
join that may time out. Every I/O step may fail, `MaxTakeFaults` times.
`AudioCapture` counts PCM blocks: the reader with its bounded queue and pool,
the disk thread, the commit worker with journal row, sync and header rename, the
recorder's stop and abort, and `live_seal.py` polling the header. Closing a segment takes
it from the writer before its length and header are written (`audio.rs:1254-1275`); if
that fails, in a rotation (`RotationFails`) or at the end (`FinishFails`), or if the commit
backlog refuses it, this segment is lost and nothing seals it later (`dropped`). What a power
cut leaves is the checkpoint, the synced rows and the header, so the properties
are invariants of those and need no crash action.

### ImuClock

The collector polls until a payload it has not seen appears, unwraps the
counter (modulo `Modulus`, 2^24 in the code) and fits device to host time. The
fit is exact where the code uses 64-bit floating point. `lap` records that the
device ran a whole lap between two observations, which no counter can show.

### SessionCatalog

Session directories with a manifest version and one media file; anything may be
replaced between two reads (`MaxEvents`). A listing scans under the catalog
lock and the index transaction, then selects its page; the client follows the
cursor. Index rows survive a restart, summaries, diagnostics and admissions do
not. A deletion takes whole chains of continuations; a representation is open
across its checks and reads. Current and legacy root are one root. A manifest may
also be replaced between the rename of its directory and its first row
(`coordinator.py:4321-4327` calls `remember` without an expected signature): `raced`
records the sessions to which that happened, since their first row is of the other
manifest. The branches of `_catalog_sessions` that start from a verified
snapshot (`coordinator.py:1825-1960, 2020-2049`) need its argument `verify_session`, which no
caller in the program passes.

### LivePreview

The buffer keeps the latest frame. `clear` empties the buffer and then, under
another lock, the thumbnails. The worker hands the newest frame to a free codec
and takes results of its generation that are newer than the one shown. A viewer
is one connection: a thumbnail request or a multipart stream.

### HttpEdge

The accept thread with hard cap and reclamation, one handler per connection with
every refusal before the provider (and whether it leaves the body unread), the
registry of SSE and preview streams with cancel, finish and peer watcher, download
admission, and shutdown. What a route answers is left out; every timeout may expire.

### EventStreams and NetworkStream

`EventStreams`: the pump samples the coordinator, publishes later, and decides
between a plain event, progress and a resync; the buffer forgets all but
`Window` events; readers come back with a `Last-Event-ID`. `NetworkStream`: the
status of the controller, or of the stand-in authority when it does not answer;
the buffer decides whether a status is news, a stale one or a new authority;
readers sample outside its lock.

### RecordingButton

`Update` is `DebouncedButton.update`; a poll may come late. A press asks for the
status, then for a start or stop, with errors and a time limit; the daemon
executes the command at any later moment. The LED thread writes trigger,
brightness and timing files one by one and restores what it found. The two
threads share only the stop event, so each is checked by itself. `runs` records the
runs of equal samples that the switch gave, against which a debounced level and its press are judged.

### NetworkProfiles and NetworkControl

`NetworkProfiles` is what `network.py` keeps: profiles, quarantined profiles, the
last-known-good record, the rescue access point, the journal of `network apply`,
and the command line that works on them. `NetworkControl` adds
`controller.sqlite3` and the process: a request is stored as a transaction and
deferred; once its answer is sent it is released, queued and executed step by
step (candidate, access point, verification, commit, fallback); the health
monitor and the start make transactions of their own; a crash may come between
any two. A durable write of the executor may fail in three ways (`WriteFails`, `Escapes`;
`network_control.py:1070-1081, 1204, 1359`, `network_state.py:403-409`): what the store
reports as a `NetworkStateError` falls back under the operation lock; an `OSError` leaves
`_execute`, and `_worker_loop` falls back after the lock was released (`rescue_network`
takes it again); a `sqlite3.Error`, or any error of that second fallback, ends the worker
thread (`worker`), and its transaction stays current until the next start
(`stranded`). Likewise an error of a request's write, or of the release,
leaves `_serve_socket` and ends the process (`RequestEnds`), and one in the monitor is
logged or ends that thread (`MonitorFails`). `opLock` is `network-operation.lock`, shared with the command line and
with a recording, whose take is one pair of actions here. NetworkManager is
external. A wired interface runs the same code on its own files and is left out.

### Deployment and FirmwareControl

`Deployment` is the deployer: `op` is the process that holds the operation lock,
its `pc` the next durable step, `Unwind` the except clause that an exception
there reaches. Links, transaction file, snapshots, configuration and migration
of the network state are separate variables; each step is synced in the code, so
a crash loses the process only. A step that raises
(`Raise`) may have taken effect all the same (`Landed`): `_write_atomic` renames before
it syncs the directory, and what the code notes after a write is then not noted. `recover --service-start` runs when systemd
starts the services. `FirmwareControl` adds the supervisor (task and receipts in
memory and on disk, repair, one worker) and `update.py` with its cache lock and its
maintenance lock against recordings. A save writes task.json, then the receipt, then removes
receipts of other keys that are older than 30 days by the wall clock; it may end
after each of them. Since the board sets its clock from the network, the model lets any
receipt but that of the task itself be old. A device is maintained through the supervisor or with
`rp-ylx-deploy` alone (`direct`).

## Runs

| Run | Checks | Result |
|---|---|---|
| `coordinator_ownership` | `LeaseFollowsTake`, `SingleFinalizer`, `OwnerHoldsItsTake`, `TakeOutcome`, `AcceptedStopOwned`, `ReceiptsDurable`, `SafeRelease`, and `SourceFailureKept` | pass, 1.6 million states |
| `liveness` | `WorkerTerminates`, `CloseCompletes`, `CloseReturns` | pass, 126 thousand |
| `state_writer` | `AnsweredIsReplayed`, `DocNeverRegresses`, refinement of `DurableReceipts` (`ImplementsPromise`) | pass, 591 thousand |
| `take` | `FootageReachable`, `TakeAccounted`, `IdentityKept`, refinement of `TakeLifecycle` (`ImplementsLifecycle`), `RecorderSafe`, `SourcesSafe`, `EngineSafe` | pass, 1.5 million |
| `device_parts` | `RowsMatchPersisted` (a full receipt cache), `StreamFollowsState`, `NetworkStreamForward`, `EdgeSafe`, `NativeTakeSafe`, `AudioSafe`, `PanelSafe`, `ImuSafe` | pass, 755 thousand |
| `content` | `PublishedIsComplete` with every fault, `DatabaseSafe`, `CatalogSafe`, `PreviewSafe` | pass, 2.0 million |
| `maintenance` | `DeploymentSafe`, `TaskAtMostOnce`, `UpdateSparesTakes`, `ReceiptFinal` | pass, 1.3 million |
| `network` | `TransactionHonest`, `ProfilesKept`, `CaptureUndisturbed` | pass, 1.7 million |
| `state_writer_duplicate` | `AnsweredIsReplayed` with a duplicate stop in flight | violated |
| `publication_stop_error` | `FootageReachable` with an error in the tail of stop | violated |
| `maintenance_config` | `UpdateKeepsConfig` | violated |
| `network_stream` | `NetworkStreamCurrent` | violated |

`take`, `liveness`, `device_parts` and `content` put components side by side that
share no variable. A behaviour of the whole, projected to the variables of one part, is
a stuttering behaviour of that part, and each property speaks about one part; so
these modules let one part move (`part`) and leave the product of
their states out. Where the parts do interact in the code, they are composed
(`NetworkControl` on `NetworkProfiles`, `FirmwareControl` on `Deployment`), or
one models the other's outcomes (the coordinator's writes against `StateWriter`,
the `footage` flag of `SessionPublication` against `NativeTake`). States per
part: writer 115,876, capture events 30,030, network events 8,795, edge 3,964,
take 379,978, audio 83,586, button 48,138, LED 39,200, IMU 45,852; publication
216 thousand, database 267 thousand, catalog 257 thousand, preview 1.3 million.

Several properties are conjunctions of named parts that one component must keep
together: `NativeTakeSafe` (the checkpoint names only finished media with synced
rows; a sealed take is whole; a failed take without a fault loses at most the
frame in flight), `AudioSafe` (header, journal and files agree; unless a
commit failed, everything written is kept but at most one segment that could not be closed or
submitted, the last; a stopped take is durable to the last block; live sealing
missed nothing), `RecorderSafe` (a sealed take holds every item in order and once;
no file is closed under the writer; nothing handed in is unaccounted for; no late
checkpoint undoes `finalizing`), `SourcesSafe` (handles cover what is open; a tap
whose stop returned is quiet; its failure is told at most once; no gap is
decimated away), `EngineSafe` (handles count engine and recording; nobody's engine
holds the camera), `DeploymentSafe` (the services run a committed release, what
a crash leaves can be recovered, reports are true; a first installation alone may report
a failure with its transaction pending, one that `recover` can take back), `TransactionHonest` (a change
is answered before it begins; a released one is queued, executed or stranded by
failed writes; a dead worker strands its own transaction only), `ProfilesKept` (the
saved network and the candidate of a pending request have their profiles), `EdgeSafe` (a connection with an unread body is closed; a
command is not cut off to make room; slots and downloads are returned once),
`PanelSafe`, `ImuSafe`, `DatabaseSafe`, `CatalogSafe`, `PreviewSafe`: the modules
state each part with the behaviour of the code it is about.

Bounds.
- Coordinator: two takes are needed for a thread to outlive its take and meet
  the next; one plain stop and one safe-swap stop compete for the worker and
  for each other's rollback; both monitors, the recovery thread and `close()`
  are always there; one handle is enough to separate "in use" from "quiet".
  Takes are interchangeable, hence the symmetry. The liveness run has
  one take and no symmetry.
- Writers: two threads, three keys, three receipts and versions let one write
  overtake another and a key be used twice; a cache of two makes commands evict;
  `SequenceBound` cuts behaviours after six snapshots and `Spares` leaves out
  acceptances that evict (see below). In `device_parts` the cache has one entry (1024 in the
  code), so that every second command evicts.
- Publication: three crashes cover a crash in recording, in the recovery of it
  and in the recovery of that; two suffice with the faults on.
- Take: a queue of two and segments of two with three items of each kind fill the
  queue, close a segment and leave a rest; two faults let a writer and its
  closer fail in one take. Two cameras and two taps let what belongs to the
  first meet the second; four frames with a decimation of two contain a gap at
  each phase; three engines let one die twice. The liveness run has a queue of
  one and two items.
- Device parts: windows of two events wrap after the third; two connections
  compete for one place, one slot of each kind and one download; two segments
  of two recorded frames with a decimation of two, and two faults, let a gap, a
  failing thread and a failing closer meet; three audio segments against a
  commit backlog of two; a level must be held for two polls, so that a bounce is refused
  and a held level accepted; a cooldown of seven polls in thirteen admits a second press
  and refuses one; a counter modulo four wraps twice in eight frames.
- Content: four database files, three versions, two restores (the second
  repeats or follows the first), one failing step, one loss, two power cuts;
  two sessions of one take and pages of one session, so that a list spans pages
  and a deletion has a chain; three outside events; one viewer, two threads
  that clear twice, three frames.
- Maintenance: two releases, one edit of the configuration, two deployments,
  one failing step and one crash anywhere, two request keys, one publication;
  of a publication, a failing step and a crash at most two in one behaviour (`EventBound`). With two
  keys the receipt of one can be pruned by the other's save.
- Network: two transactions and keys, one command with one request (`MaxCli`; a second
  command is the exception named below); two faults, so that a write can escape and its
  second fallback fail as well; of faults, lost links, crashes and commands at most
  two in one behaviour, and a command with another of them only while one
  transaction was used (`TroubleBound`).

Fairness. `FairSpec` of the coordinator has weak fairness for every thread that
owns the take or waits for an owner: the operating system runs a runnable
thread, and the blocking calls inside a step (joins with timeouts, SQLite with
a busy timeout, file operations) return. Clients, sources, readers and the
decision of a monitor to act are not fair: nothing forces them to act.
Verification ends by itself, so `VerifyEnd` is fair. `RecFairness` of the recorder
has weak fairness for a put (which enters or times out), the writer, the helper
once its pipe is closed (it ends, or is killed after its join) and the closer
once it has begun. A helper may hang with its pipe full; then the writer stays in
`writev`, and `CloseReturns` claims nothing. No other run states fairness.

Deadlock is checked for the coordinator, whose `Terminated` is a stutter at the
end of a completed shutdown, for the writer and for the publication. The other
parts of `take`, `device_parts` and `content` may stop (a take is closed, a process
ended) and stutter explicitly. `CHECK_DEADLOCK FALSE` stands in the maintenance
and network configurations, where the device is idle once the bounds are used up.

### What the violations show

1. **A duplicate stop can be told ACCEPTED and then be rolled back**
   (`coordinator.py:3616-3625`). While the first request is being accepted,
   another writer's snapshot carries its receipt to disk; the duplicate is then
   answered from the durable receipt; the first request's own write fails and
   the rollback removes the receipt. The docstring at `coordinator.py:3593`
   promises stable receipts.
2. **An error in the tail of `stop` loses the recovery files**
   (`device_session.py:2374-2377, 2411-2413`). `recording.json` and
   `capture.json` are removed before the directory is synced and renamed. On an
   error the handler removes the manifest too and writes only `recording.json`
   back. `recover_device_session` has no plan, the segments stay unpublished.
   `README.md:16` promises the usable prefix.
3. **A failed update puts back an old configuration** (`deployment.py:2650`).
   The handler of `install` restores the old release's snapshot whether or not
   this install has taken one; before that point it is the snapshot of the old
   release's own installation. `docs/one-click-install.md:42` says that an update
   keeps the configuration.
4. **The network stream stays on the fallback status** (`api/gateway.py:488`).
   One unanswered request publishes a status under the fallback authority and
   retires the controller's own, so everything the controller says later is
   called stale until the gateway restarts.

Two switches show what else the code relies on. `StaleAtClose = TRUE` in
`MCTake.cfg` violates `TakeAccounted`: the state copied at close
(`coordinator.py:5181-5186`) may be a running one, which boot drops, so the
recovered prefix is reported by nobody. `StartsDuringRestore = TRUE` in
`MCContent.cfg` violates `DatabaseSafe`: a service started during a restore
creates files the restore does not expect; the restore is documented as offline.

### Met while modelling

Behaviours of the code that the models contain or that bound what they claim,
without a property of their own:
- Receipts: an acceptance that evicts a receipt and is then rolled back brings it
  back in memory (`coordinator.py:3739, 3806, 4411-4419`); a snapshot taken
  meanwhile without it may be written afterwards and removes its row. The client
  is answered from memory, and a restart forgets the command. It takes 1024
  cached receipts and a failed write; `Spares` leaves it out.
- Python recorder: a helper that hangs with its pipe full, which the docstring at
  `stereo_encoder.py:5` wants to cost the take and nothing else, keeps the writer in `writev`, and `stop`
  joins the writer without a bound (`device_session.py:1461`).
- Python sources: a failure's reporter stops whatever tap is current
  (`sources.py:618-621`), so a late one can stop the next recording; a stream whose
  `close` timed out keeps the device after `close()` has let go of its handle
  (`sources.py:423, 672-690`), and opening it again then fails.
- Deployment: a crash inside `_revert_release_switch` with the transaction
  `switched` makes `recover` finish with `current = previous = old` and the other
  release's configuration (`deployment.py:1533, 1572, 2542`). An uninstall
  interrupted after deleting `install_root` with a transaction pending leaves
  `recover` stuck. A deployer orphaned by a kill of `update.py` alone is not modelled.
  A first installation whose transaction write took effect and raised
  (`deployment.py:193-194, 2643-2665`) reverts nothing and reports its failure with the
  transaction pending; `recover` takes it back or, if a snapshot of that release was left by an
  earlier installation, completes it. A rollback in the same place cannot start the
  services until `recover` is run.
- Firmware: after the pruning of its receipt a key is a new request and is executed
  again (`firmware_control.py:510-515`, `docs/firmware-api.md:16`); a jump of the clock
  prunes early.
- Start: a start that fails while the database cannot be written leaves its failed take
  active (`StartEscapes`).
- Audio: the comment at `audio.rs:1513` promises the prefix whose writes completed; if the failure
  is that a rotation could not close its segment, that segment is written and not sealed.
- Network: `_settle_commit` and `_materialize_commit` (`network.py:1714, 1580`)
  rewrite the last-known-good record from any committed journal, also when the
  profile is gone (`network.py:1689`), hence `clis <= 1` in `SavedNetworkUsable`, a part of
  `ProfilesKept`: a command may be killed after its commit, the cleanup of a boot takes its
  profile away, and the next command settles its journal (TLC finds this with
  `MaxCli = 2`). A stale health probe
  (`network_control.py:893, 945`) can submit a fallback after a new network was
  committed. An answer that could not be sent leaves its transaction deferred
  (`network_control.py:869`); a failed write of a fallback's end (1141-1174) or the death of the
  worker (1070-1081) leaves it current, and every other request refused, until
  a restart. The command line prunes the candidate of a pending
  controller transaction (`network.py:1666`), hence `clis = 0` in `CandidateKept`, a part of
  `ProfilesKept`.
  A rescue access point lost after `rescued` is not monitored.
- Gateway: an `ArtifactAccessError` in the middle of a body sends a second
  response on a kept-alive connection (`api/gateway.py:3063, 1190`). Delivery
  identities restart at 1 with the daemon.
- Native take: a failed harvest ends checkpointing silently
  (`device_session.py:1178`); a hung helper blocks stop and fail
  (`session_store.rs:271, 550`); the harvester may outlive the 5 s join
  (`device_session.py:1620, 2471`); an IMU failure with a frame in flight aborts the
  encoder and loses the unfinished segment.
- Deletion and catalog: a half-removed directory blocks later deletions
  (`deletion.py:45-117`); a failed sync is reported as deleted (103-105); an
  unrecovered retained session gets a newly dated diagnostic at each scan, so that
  every cursor is refused (`coordinator.py:2098-2102`); a failed deletion drops
  summaries (4951-4956); a continuation still `.partial` is no candidate of its
  chain's deletion (`late`); a manifest replaced between the rename and the first row is
  listed with the row of the replacement (`raced`).
- Button: a stop names no take (`recording_button.py:200-222`); the LED keeps its
  pattern if the 3 s join times out.
- Databases: a restore killed between its archive renames and repeated puts
  database and WAL under different tokens.
- IMU: a whole lap ahead is undetected, and a jump between half a lap and a
  whole one is reported as a regression.
- Preview: the native multipart stream ends within 250 ms of a clear while the
  Python fallback goes on waiting; a thumbnail thread that cannot be started
  leaves thumbnails unavailable until a restart (not modelled).

## Proofs

All theorems hold for every value of the constants under the named assumptions
`ConstantsAssumption`, `WriterAssumption`, `FaultAssumption`, `RecorderAssumption`,
`SourcesAssumption`, `EngineAssumption`, `PreviewAssumption`, `WindowAssumption`,
`NetStreamBounds`, `EdgeBounds`, `DeployBounds`, `ReleaseAssumption` and `NamesApart`:
the constants have their kinds, the names of threads, keys and takes differ, so do
those of transactions and requests, whose profiles are named after them (and none
of which is "none", "ap" or "factory"), no commit is called "none", a queue and a segment have room for something. Each is evaluated by TLC in the runs, as are the assumptions on the
bounds of the other modules. Every inductive invariant was checked by TLC on the
bounds of the runs before it was proved. Where a theorem has further hypotheses
they are stated in it and explained here.

`CaptureCoordinator`:
- `TypeCorrect`.
- `OwnershipCorrect` proves `Ownership`, an invariant on its own: every flag
  under the lock names the thread that is at the corresponding place
  (`WorkerHeld`, `MonitorHeld`, `ReplayHeld`, `CloseHeld`, `AcceptanceHeld`), who
  has a take in its closure, and when no take can be active. The wanted
  properties are not inductive without it, since the code tests flags and the
  properties speak about threads.
- `ControlCorrect` adds what each thread knows at its place (`FailureHeld`,
  `ProgressHeld`, `OwnerHoldsItsTake`, `CommitAssertion`). `SingleFinalizerCorrect`,
  `OwnerCorrect` and `LeaseReturned` follow from it; `GuardedCorrect` proves
  `LeaseCoversTake` and `NoLostWakeup` beside it, and `LeaseCorrect` joins both
  halves of `LeaseFollowsTake`.
- `TakeOutcomeCorrect` and `SourceFailureCorrect` (an action property) use
  both. `ReceiptsCorrect` needs `ReceiptsHeld`, the relation of the three copies
  of the receipts during an acceptance. `AcceptedStopCorrect` needs four more:
  receipts name takes that began, a thread letting go of an active take leaves
  its failed commit, and a rolled-back acceptance for a take that is accepted
  already leaves an owner. `GateCorrect` and `SwapCorrect` (`SafeRelease`) cover the handoff.

`StateWriter`:
- `TypeCorrect`; `RowsCorrect`, inductive together with the type; `DocCorrect` from
  `Ordered` (the numbers of pending snapshots and their versions are ordered alike).
- `AnsweredCorrect` (every answer is in memory and on disk in the same form) rests
  on the inductive invariant `Receipts`: one acceptance at a time (`Jobs`), receipts
  and snapshot numbers are fresh (`Fresh`, `Numbers`), a receipt that is still cached
  is in every snapshot taken since the first that had it (`Chained`), a rollback
  restores what was there (`Saved`), and each writer is right about what is durable
  when it answers (`Believed`). `Chained` is what makes delayed writers harmless: the
  database may be overtaken, but only by snapshots that still hold what was answered.
- `PromiseCorrect`: every step is a step of `DurableReceipts` or a stutter. A
  committed snapshot may retire several receipts at once; `RetiresOne` and
  `PromiseStep` show which step of the abstract specification that is.
- Both assume `~Duplicates`, since they fail otherwise (violation 1), and
  `[][Spares]_vars`: an acceptance evicts no receipt. TLC finds the counterexample
  without it (next section). `RoomForAll` shows that the hypothesis holds whenever
  the keys fit the cache; the run has fewer places than keys, so that idempotent
  commands do evict there.

`SessionPublication`:
- `TypeCorrect`; `PublicationCorrect`, from what the three publication sequences
  have done before each label (`ReadyToPublish`) and the fact that no step edits a
  directory after its rename (`EditsPartial`). It holds for any number of crashes
  and with every fault on.
- `LifecycleCorrect`, the refinement of `TakeLifecycle`, also with every fault on. It
  needs to know that nothing is published before the take has begun
  (`BegunFirst`) and what the database may say while it is being run (`ReportKnown`).
- `FootageCorrect` assumes `~StopTailErrors /\ ~BootErrors`. `PlanInPlace` says at which
  labels the plan must be on the disk and `WithdrawsInvalid` that boot takes back only
  a manifest that is not valid.
- `IdentityCorrect` and `AccountCorrect` assume `~StaleAtClose` as well. Their invariant
  `Kept` speaks about every directory that a power loss may bring back: it tells of
  the interruption before its prefix is published (`Traces`), the database or
  afterwards the coordinator names the take unless it is complete (`Named`,
  `Failed`), and boot ends with an account (`Accounted`). TLC violates each of the
  four properties when one of its switches is on, so the hypotheses are needed;
  violation 2 and the switch described below are those cases.

`QueuedRecorder`: `RecorderTyped`, `RecorderCorrect` (`RecorderSafe`, any queue,
segment length and number of items and faults, with a helper that may hang).
`RecorderSafe` alone is not inductive: it compares journals with what was handed
in, and items are on their way. `Consecutive` says that journal, hand, queue and
offer together hold the items in order without a gap but the drops; `Stage` and
`Drained` say what writer, closer and helper have done at each step of the stop;
`StopIsLast` that nothing follows the stop item; `Covered` orders frames written,
closed and reported; `FinalizingStays` uses who holds the state lock.

`CaptureSources`: `SourcesTypes`, `SourcesCorrect` (`SourcesSafe`, any number of
cameras, taps, frames, faults and calls, any decimation). `Pointed`, `FreshCameras`,
`Untouched` and `Launched` say what a thread that works outside the lock may point
at; `HandlesHeld` and `ImuHeld` who still counts a handle; `FlyingCounted` and
`Stopped` why a tap is quiet after its stop, although its threads may outlive
their joins; `Told` who reports a failure; `Cadence` relates source number,
observed and accepted frames, so that no gap between two kept ones is
decimated away. The relation is exact only while one camera was opened: `NoHiddenGap` says
so, as numbering starts anew with the next camera.

`EngineSources`: `EngineCorrect` (`EngineSafe`, any callers, engines, taps and
faults), from who made an engine and a tap and has not yet published it
(`Made`, `FreshEngines`, `FreshTaps`), `EngineRecordsIt` and `OneStarter`.

`LivePreview`: `PreviewCorrect` (`PreviewSafe`, any viewers, frames and clears). An
encode works outside the lock on what it was given; `PreviewInv` says that one of
the current generation is newer than what was cleared and no older than what was
shown, and that an encode under way has its worker.

`EventStreams`: `StreamCorrect` (`StreamFollowsState`, any readers and window), from
`StreamInv`: the window holds consecutive revisions up to the last one, and what
waits for a reader continues what it has applied or begins with a snapshot.

`NetworkStream`: `NetworkForwardCorrect`, from `NetInv`: the log keeps the revisions of an
authority in their order, an authority that was left does not come back, and each
reader goes on from what it was shown, also when its sample was taken earlier.

`HttpEdge`: `EdgeCorrect` (`EdgeSafe`, any connections, permits and deadlines). `At` says for
each place of a handler what it holds there (`BodyAt`, `YieldAt`, `RouteAt`, `HeldAt`);
`SlotsCounted` adds up free, owed and held permits. The second needs the first:
a permit is returned twice, or never, exactly if a handler is not where it
believes to be.

`NetworkControl` on `NetworkProfiles`, as `NetworkSpec` (any transactions, keys,
requests, and numbers of commands, faults, lost links and crashes): `NetworkTypesCorrect`,
`HonestCorrect` (`TransactionHonest`), `ProfilesKeptCorrect` (`ProfilesKept`) and
`CaptureUndisturbedCorrect` (an action property), all from `ControlInvariant`. None of the
properties is inductive: they speak about records and files, which the executor, a boot,
a request, the monitor and the command line all write, and each of these only tests a flag.
`ControlInv` says
- who holds the operation lock (`LockHeld`), so that the writers of profiles and records
  exclude each other and a recording. Only a worker that an error drove out of
  `_execute` may work without it: it is then in its fallback, which writes no profile
  and takes the lock for the link;
- that one transaction at a time is worked on, and which (`Executing`, `Identities`), that a
  stranded one is still current and a dead worker's is stranded, that its
  work is well made (`Works`), and what each step of `_execute` relies on (`Steps`): the
  candidate has its profile when it is verified, the record its own when it was committed;
- that nobody works on a transaction whose answer is not yet sent (`Answers`): it is neither
  released nor queued nor executed, also after a replay or a restart;
- what names the records may hold (`NoCliYet`, `Commanded`, `FirstCli`): the settles of a
  first command find no journal to repeat, and it prunes nothing that its own record names;
- that a verified network, or one that a first boot is about to call verified (`_initialize`),
  has its profile (`Usable`).

The actions are first described field by field (`ExecutorDoes`, `NetworkDoes`, one definition
per step); each part of the invariant is then proved by cases on these descriptions.

`Deployment` and `FirmwareControl` together, as `MaintenanceSpec` (any releases, keys,
numbers of deployments, faults, kills and power losses):
- `DeploymentCorrect` (`DeploymentSafe`), including writes that took effect and raised.
  `DeployInv` has two halves. `Lasting` is what every
  crash leaves, whoever was at work: services run the committed release only while
  no transaction is pending, whatever is installed has its network state migrated
  and its configuration, a device whose services are enabled has a release to go
  back to, and `Recoverable`. `OpFacts` is what the deployer knows at each of its
  steps (`PreparingAt`, `SwitchingAt`, `RevertingAt`, ...): which release is current,
  what the pending transaction says, whether the old configuration was saved, and
  that the services are down wherever a release is switched under them. The
  last fact is what the recovery lock is for: `ServiceRun` follows its check
  with no lock held, and is harmless because a deployer that lets a check through
  (`starting`) first stops the services before it writes again.
- `AtMostOnceCorrect`, `ReceiptFinalCorrect` from `SupervisorInv`, both for as long as a
  receipt is kept: what is saved is on
  disk; what is not yet saved contradicts no result, and neither does what a restart
  would make of task.json (`OnDisk`); the admitted task was not launched before
  (`AdmittedOnce`). A half-done save may leave task.json ahead of the receipt, so
  the invariant speaks about both files and about `Restored`, the task that the
  next start would read.
- `UpdateSparesTakesCorrect` joins them: the update checks that the device is idle
  under the maintenance lock, and by `Lasting` a device without a release runs no
  service that could record.

Only model-checked: the three liveness properties (fairness is out of the prover's
reach), `ImuSafe` (its fit is a sum over the points of the window: induction over
data), and the properties of the modules that are named in no entry above.

## Not modelled, and the plan

Left out for good: device drivers and codecs, storage targets and mounts, request
parsing and rendering, the browser front end, offline analysis and evidence
scripts, logging, mDNS. They have no protocol state that a model would tell
apart; their failures reach the modelled code as faults. Floating-point
timestamps and cadence are out of TLC's reach.

Left out inside modelled parts: `update.py` called by hand with `--reinstall`,
`--check`, `--download-only` or `--expected-commit`; an `install_update_command` that
fails after its installation; transactions of old releases without
`config_snapshot_required` (`deployment.py:1583-1584`); a network write whose commit took
effect although it raised and could not be read back; an error of the store while the
controller is constructed, which is a crash there.

In this order:
1. Proofs: safety of `StateDatabase`, the accounting of `AudioCapture` and `NativeTake`.
2. The safe-swap fields in `StateWriter` (`coordinator.py:1252`: a staged release
   made durable by another writer), and a bound on what an eviction followed by a
   rollback can forget.
3. The lease of `CaptureCoordinator` composed with `NetworkControl`, in place of
   the one pair of actions that stands for a take there.
4. The camera queue of `bounded.rs`.
5. Transaction events on the network stream.

## Running

In this directory: `tlc -config MCCaptureCoordinator.cfg MCCaptureCoordinator`
(and likewise for the other configurations, see `runs` in `PROJECT.json`), and
`tlapm CaptureCoordinatorProofs.tla` (and the other proof modules). TLC needs
under five minutes for the largest run.
