----------------------------- MODULE SessionCatalog -----------------------------
(***************************************************************************)
(* The catalog of recordings (catalog.py, coordinator.py), the listing of  *)
(* it page by page, deletion (deletion.py) and the files a download holds  *)
(* open (downloads.py).                                                    *)
(*                                                                         *)
(* A listing scans every session directory under the catalog lock and the  *)
(* writer transaction of the index, then selects its page under the lock   *)
(* again.  The index survives a restart; summaries, diagnostics and        *)
(* admissions do not.  A deletion holds the state lock and the catalog     *)
(* lock, so no representation is opened while it runs.  Nobody is trusted  *)
(* to leave the directories alone: between any two reads a manifest or a   *)
(* media file may be replaced, up to MaxEvents times.                      *)
(*                                                                         *)
(* A manifest is its version, which stands for its bytes, digest and       *)
(* signature; a media file is whether it has the declared size and the     *)
(* content it had.  The current and the legacy root are one root.          *)
(***************************************************************************)
EXTENDS Naturals, Sequences, FiniteSets

CONSTANTS
    TakeSequence,      \* take.sequence of each session, in order of started_at
    PageLimit,         \* limit of a listing
    MediaSize,         \* bytes of a media file
    MaxManifest,       \* bound: versions of a manifest
    MaxEvents          \* bound: requests, takes, restarts and changes from outside

Sessions == DOMAIN TakeSequence

(* continuation_of: a session that is not the first of its take continues  *)
(* the one before it.                                                      *)
Continuation(s) == TakeSequence[s] > 1

ASSUME CatalogBounds ==
    /\ TakeSequence \in Seq(Nat \ {0}) /\ \A s \in Sessions : Continuation(s) => s > 1
    /\ PageLimit \in Nat \ {0} /\ MediaSize \in Nat \ {0} /\ MaxManifest \in Nat \ {0}
    /\ MaxEvents \in Nat

VARIABLES
    folder,            \* session directory: [inode, manifest, valid, media]
    retained,          \* sessions in _retained: their take ended in a failure
    withRole,          \* sessions whose manifest names a recovery receipt
    index,             \* rows of the sessions table: [sig, shows]
    summaries,         \* _session_summaries: version shown, 0 for none
    diagnostics,       \* _session_diagnostics: [code, at]
    admitted,          \* _admitted: signature whose artifacts were checked
    scan,              \* the scan in progress
    clock,             \* events so far, which dates the diagnostics
    lister,            \* the client that reads the list page by page
    sealing,           \* session published and not yet in the catalog
    recordingNow,      \* the session being recorded
    representation,    \* the file a download holds open
    deletion,          \* the deletion in progress
    mediaLost,         \* _media_lost: the volume went away under the admission
    removed,           \* sessions the device removed
    late,              \* sessions published after the one they continue was removed
    raced              \* sessions replaced between their rename and their first row

diskVars == <<folder, retained, withRole, removed, late, raced>>
memoryVars == <<summaries, diagnostics, admitted>>
catalogVars == <<diskVars, index, memoryVars, scan, clock, lister, sealing, recordingNow,
                 representation, deletion, mediaLost>>

Gone == [inode |-> 0, manifest |-> 0, valid |-> FALSE, media |-> "short"]
Fresh == [inode |-> 1, manifest |-> 1, valid |-> TRUE, media |-> "ok"]
NoRow == [sig |-> 0, shows |-> 0]
NoDiagnostic == [code |-> "none", at |-> 0]
NoScan == [by |-> "nobody", todo |-> {}, found |-> {}, at |-> 0, step |-> "next", sig |-> 0,
           before |-> [s \in Sessions |-> NoRow]]
Idle == [step |-> "idle", api |-> "v4", cursor |-> 0, got |-> <<>>, first |-> <<>>, calm |-> TRUE,
         floor |-> [s \in Sessions |-> 0], steady |-> {}]
NoRepresentation == [of |-> 0, kind |-> "none", step |-> "none", inode |-> 0, touched |-> FALSE,
                     read |-> "none", range |-> <<0, 0>>]
NoDeletion == [expected |-> {}, todo |-> {}, inode |-> [s \in Sessions |-> 0], deleted |-> {}]

CatalogInit ==
    /\ folder \in [Sessions -> {Gone, Fresh}]
    /\ retained = {} /\ withRole = {} /\ removed = {} /\ late = {} /\ raced = {}
    /\ index = [s \in Sessions |-> NoRow]
    /\ summaries = [s \in Sessions |-> 0]
    /\ diagnostics = [s \in Sessions |-> NoDiagnostic]
    /\ admitted = [s \in Sessions |-> 0]
    /\ scan = NoScan /\ clock = 0 /\ lister = Idle
    /\ sealing = {} /\ recordingNow = {}
    /\ representation = NoRepresentation /\ deletion = NoDeletion /\ mediaLost = FALSE

\* something from outside happens; the bound is for TLC only
CatalogEvent == clock < MaxEvents /\ clock' = clock + 1

(***************************************************************************)
(* What a read of a directory finds.                                       *)
(***************************************************************************)
Present(s) == ~mediaLost /\ folder[s].inode # 0

(* The signature hashes the manifest's bytes; 0 is an OSError. *)
Signature(s) == IF mediaLost THEN 0 ELSE folder[s].manifest

(* Every artifact is an ordinary file of the declared size. *)
ArtifactsMatch(s) == Present(s) /\ folder[s].media # "short"

(* _open_regular_at, _read_bounded_fd: the manifest can be read. *)
ManifestOpens(s) == Present(s) /\ folder[s].manifest # 0

(* inspect_device_session_directory: identity, schema and sizes, not bytes. *)
Inspects(s) == ManifestOpens(s) /\ folder[s].valid /\ ArtifactsMatch(s)

(* _check_generation: the volume is the one that was admitted. *)
VolumeCurrent == ~mediaLost

(* Publication failed after the rename and no recovery receipt was written. *)
Refused(s) == s \in retained /\ s \notin withRole

CatalogFree == scan.by = "nobody" /\ deletion.expected = {}

\* a client's view of the sessions in ss can no longer be held to the scan it started
Disturbed(ss) == [lister EXCEPT !.steady = @ \ ss, !.calm = lister = Idle]

(***************************************************************************)
(* The recorder as far as the catalog sees it: a take becomes a session.   *)
(***************************************************************************)
StartTake(s) ==
    /\ CatalogEvent /\ VolumeCurrent /\ recordingNow = {} /\ deletion.expected = {}
    /\ ~Present(s) /\ s \notin removed
    /\ recordingNow' = {s}
    /\ UNCHANGED <<diskVars, index, memoryVars, scan, lister, sealing, representation,
                   deletion, mediaLost>>

\* the directory s.partial gets its final name
Renamed(s) ==
    /\ folder' = [folder EXCEPT ![s] = Fresh]
    /\ late' = IF Continuation(s) /\ s - 1 \in removed THEN late \cup {s} ELSE late
    /\ lister' = Disturbed({s})
    /\ UNCHANGED <<removed, raced>>

StopPublishes(s) ==
    /\ VolumeCurrent /\ s \in recordingNow /\ sealing = {}
    /\ Renamed(s) /\ sealing' = {s}
    /\ UNCHANGED <<retained, withRole, index, memoryVars, scan, clock, recordingNow, representation,
                   deletion, mediaLost>>

\* _finish_stop_capture; the index is a cache, so its write may fail.  The row
\* is signed by what is on the disk now: nothing compares it with the manifest
\* that was sealed, so one that took its place gets the row of the other.
RememberSealed(s) ==
    /\ s \in sealing /\ CatalogFree
    /\ summaries' = [summaries EXCEPT ![s] = 1]
    /\ \/ /\ Signature(s) # 0
          /\ index' = [index EXCEPT ![s] = [sig |-> Signature(s), shows |-> 1]]
       \/ UNCHANGED index
    /\ diagnostics' = [diagnostics EXCEPT ![s] = NoDiagnostic]
    /\ lister' = Disturbed({s})
    /\ sealing' = {} /\ recordingNow' = {}
    /\ UNCHANGED <<diskVars, admitted, scan, clock, representation, deletion, mediaLost>>

\* the take failed: its completed prefix is published with a receipt, or the
\* stop failed after the rename and left a session that is not offered
TakeFails(s) ==
    /\ VolumeCurrent /\ s \in recordingNow /\ sealing = {}
    /\ Renamed(s)
    /\ retained' = retained \cup {s}
    /\ withRole' \in {withRole, withRole \cup {s}}
    /\ recordingNow' = {}
    /\ UNCHANGED <<index, memoryVars, scan, clock, sealing, representation, deletion, mediaLost>>

(***************************************************************************)
(* A scan of the catalog.                                                  *)
(***************************************************************************)
ListRequest ==
    /\ lister.step = "idle" /\ VolumeCurrent /\ CatalogFree /\ CatalogEvent
    /\ scan' = [NoScan EXCEPT !.by = "lister", !.todo = {s \in Sessions : Present(s)},
                              !.before = index]
    /\ \E api \in IF lister.cursor = 0 THEN {"v3", "v4"} ELSE {lister.api} :
         lister' = [lister EXCEPT
           !.step = "scanning", !.api = api,
           !.floor = [s \in Sessions |-> IF s \in removed THEN MaxManifest + 1 ELSE Signature(s)],
           !.steady = {s \in Sessions : Inspects(s) /\ ~Refused(s)}]
    /\ UNCHANGED <<diskVars, index, memoryVars, sealing, recordingNow, representation, deletion,
                   mediaLost>>

\* any other client lists the catalog at the same time
OtherRequest ==
    /\ VolumeCurrent /\ CatalogFree /\ CatalogEvent
    /\ scan' = [NoScan EXCEPT !.by = "other", !.todo = {s \in Sessions : Present(s)},
                              !.before = index]
    /\ UNCHANGED <<diskVars, index, memoryVars, lister, sealing, recordingNow, representation,
                   deletion, mediaLost>>

ScanFrame == UNCHANGED <<diskVars, clock, lister, sealing, recordingNow, representation, deletion,
                         mediaLost>>

\* the scan is done with s and goes on to the next directory
Scanned(s) == scan' = [scan EXCEPT !.todo = @ \ {s}, !.found = @ \cup {s}, !.at = 0,
                                   !.step = "next", !.sig = 0]

AtStep(s, step) == scan.at = s /\ scan.step = step

(* A row is used only for the signature it was written for, and for a      *)
(* retained session only if it names the recovery receipt.                 *)
Hit(s) == Signature(s) # 0 /\ index[s].sig = Signature(s) /\ ~Refused(s)

Shown(s, version) ==
    /\ summaries' = [summaries EXCEPT ![s] = version]
    /\ diagnostics' = [diagnostics EXCEPT ![s] = NoDiagnostic]

ScanCached(s) ==
    /\ scan.by # "nobody" /\ scan.at = 0 /\ s \in scan.todo
    /\ Hit(s) /\ admitted[s] = Signature(s)
    /\ Shown(s, index[s].shows) /\ Scanned(s)
    /\ UNCHANGED <<index, admitted>> /\ ScanFrame

ScanUnadmitted(s) ==
    /\ scan.by # "nobody" /\ scan.at = 0 /\ s \in scan.todo
    /\ Hit(s) /\ admitted[s] # Signature(s)
    /\ scan' = [scan EXCEPT !.at = s, !.step = "admit", !.sig = Signature(s)]
    /\ UNCHANGED <<index, memoryVars>> /\ ScanFrame

ScanMiss(s) ==
    /\ scan.by # "nobody" /\ scan.at = 0 /\ s \in scan.todo
    /\ ~Hit(s)
    /\ summaries' = [summaries EXCEPT ![s] = 0]
    /\ scan' = [scan EXCEPT !.at = s, !.step = "inspect"]
    /\ UNCHANGED <<index, diagnostics, admitted>> /\ ScanFrame

ScanAdmit(s) ==
    /\ AtStep(s, "admit")
    /\ IF ArtifactsMatch(s) /\ Signature(s) = scan.sig
       THEN /\ admitted' = [admitted EXCEPT ![s] = scan.sig]
            /\ Shown(s, index[s].shows) /\ Scanned(s)
       ELSE /\ summaries' = [summaries EXCEPT ![s] = 0]
            /\ scan' = [scan EXCEPT !.step = "inspect", !.sig = 0]
            /\ UNCHANGED <<diagnostics, admitted>>
    /\ UNCHANGED index /\ ScanFrame

Code(s) == IF ManifestOpens(s) THEN "manifest_invalid" ELSE "manifest_unreadable"

Diagnose(s, code) ==
    diagnostics' = [diagnostics EXCEPT ![s] = [code |-> code, at |-> clock]]

\* an unreadable session keeps the diagnostic that already says so
ScanFault(s) ==
    /\ summaries' = [summaries EXCEPT ![s] = 0]
    /\ IF diagnostics[s].code = Code(s) THEN UNCHANGED diagnostics ELSE Diagnose(s, Code(s))
    /\ Scanned(s)
    /\ UNCHANGED <<index, admitted>>

ScanSign(s) ==
    /\ AtStep(s, "inspect")
    /\ IF Signature(s) # 0
       THEN /\ scan' = [scan EXCEPT !.step = "read", !.sig = Signature(s)]
            /\ UNCHANGED <<index, memoryVars>>
       ELSE ScanFault(s)
    /\ ScanFrame

ScanRead(s) ==
    /\ AtStep(s, "read")
    /\ \/ /\ ~Inspects(s)
          /\ ScanFault(s)
       \/ /\ Inspects(s) /\ Refused(s)
          /\ Diagnose(s, "manifest_invalid") /\ Scanned(s)
          /\ UNCHANGED <<summaries, index, admitted>>
       \/ /\ Inspects(s) /\ ~Refused(s)
          /\ summaries' = [summaries EXCEPT ![s] = folder[s].manifest]
          /\ scan' = [scan EXCEPT !.step = "remember"]
          /\ UNCHANGED <<index, diagnostics, admitted>>
    /\ ScanFrame

(* The row is written for the signature taken before the manifest was read. *)
Remembers(s) == Signature(s) = scan.sig

ScanRemember(s) ==
    /\ AtStep(s, "remember")
    /\ IF Remembers(s)
       THEN /\ index' = [index EXCEPT ![s] = [sig |-> Signature(s), shows |-> summaries[s]]]
            /\ diagnostics' = [diagnostics EXCEPT ![s] = NoDiagnostic]
            /\ Scanned(s)
            /\ UNCHANGED <<summaries, admitted>>
       ELSE ScanFault(s)
    /\ ScanFrame

KeepFound(f, none) == [s \in Sessions |-> IF s \in scan.found THEN f[s] ELSE none]

ListerAfter(step) ==
    IF scan.by = "lister" THEN [lister EXCEPT !.step = step] ELSE lister

\* discard_missing, and the commit of the scan's transaction
ScanEnd ==
    /\ scan.by # "nobody" /\ scan.at = 0 /\ scan.todo = {}
    /\ index' = KeepFound(index, NoRow) /\ admitted' = KeepFound(admitted, 0)
    /\ summaries' = KeepFound(summaries, 0) /\ diagnostics' = KeepFound(diagnostics, NoDiagnostic)
    /\ lister' = ListerAfter("page")
    /\ scan' = NoScan
    /\ UNCHANGED <<diskVars, clock, sealing, recordingNow, representation, deletion, mediaLost>>

\* the database refuses: the rows are as before, memory is not
ScanRollback ==
    /\ scan.by # "nobody"
    /\ index' = scan.before /\ admitted' = [s \in Sessions |-> 0]
    /\ lister' = [ListerAfter("idle") EXCEPT !.calm = lister = Idle]
    /\ scan' = NoScan
    /\ UNCHANGED <<diskVars, summaries, diagnostics, clock, sealing, recordingNow, representation,
                   deletion, mediaLost>>

(***************************************************************************)
(* Pages.  A v4 cursor carries the revision of the catalog it was made on, *)
(* a v3 cursor the last session of the page.                               *)
(***************************************************************************)
\* the sessions of ss, newest first or oldest first
Descending(ss) ==
    [i \in 1..Cardinality(ss) |->
        CHOOSE s \in ss : Cardinality({t \in ss : t >= s}) = i]
Ascending(ss) ==
    [i \in 1..Cardinality(ss) |->
        CHOOSE s \in ss : Cardinality({t \in ss : t <= s}) = i]

Items ==
    LET listed == Descending({s \in Sessions : summaries[s] # 0})
    IN  [i \in DOMAIN listed |-> [session |-> listed[i], code |-> "listed",
                                 at |-> summaries[listed[i]]]]

Ordered ==
    LET faulty == Ascending({s \in Sessions : diagnostics[s] # NoDiagnostic})
    IN  Items \o [i \in DOMAIN faulty |-> [session |-> faulty[i],
                                           code |-> diagnostics[faulty[i]].code,
                                           at |-> diagnostics[faulty[i]].at]]

(* _session_catalog_revision is a digest of all entries, so it is them. *)
CursorCurrent == lister.first = Ordered

PageEnd(start, entries) ==
    IF start + PageLimit < Len(entries) THEN start + PageLimit ELSE Len(entries)

PageFrame == UNCHANGED <<diskVars, index, memoryVars, scan, clock, sealing, recordingNow,
                         representation, deletion, mediaLost>>

\* the first page, and the next one as long as the catalog is the same
Page ==
    /\ lister.step = "page" /\ lister.api = "v4" /\ CatalogFree
    /\ lister.cursor # 0 => CursorCurrent
    /\ LET end == PageEnd(lister.cursor, Ordered)
       IN  lister' = [lister EXCEPT
               !.step = IF end < Len(Ordered) THEN "idle" ELSE "done",
               !.first = IF lister.cursor = 0 THEN Ordered ELSE @,
               !.floor = Idle.floor, !.steady = {},
               !.got = @ \o SubSeq(Ordered, lister.cursor + 1, end),
               !.cursor = end]
    /\ PageFrame

CatalogChanged ==
    /\ lister.step = "page" /\ lister.api = "v4" /\ CatalogFree
    /\ lister.cursor # 0 /\ ~CursorCurrent
    /\ lister' = [lister EXCEPT !.step = "changed"]
    /\ PageFrame

(* Where a v3 listing goes on: after the session the cursor names. *)
After(s) == CHOOSE i \in 0..Len(Items) : IF s = 0 THEN i = 0 ELSE i > 0 /\ Items[i].session = s

PageByName ==
    /\ lister.step = "page" /\ lister.api = "v3" /\ CatalogFree
    /\ lister.cursor # 0 => summaries[lister.cursor] # 0
    /\ LET start == After(lister.cursor)
           end == PageEnd(start, Items)
           more == start < end /\ end < Len(Items)
       IN  lister' = [lister EXCEPT
               !.step = IF more THEN "idle" ELSE "done",
               !.floor = Idle.floor, !.steady = {},
               !.got = @ \o SubSeq(Items, start + 1, end),
               !.cursor = IF more THEN Items[end].session ELSE 0]
    /\ PageFrame

CursorUnknown ==
    /\ lister.step = "page" /\ lister.api = "v3" /\ CatalogFree
    /\ lister.cursor # 0 /\ summaries[lister.cursor] = 0
    /\ lister' = [lister EXCEPT !.step = "changed"]
    /\ PageFrame

\* the client starts again from the first page
StartOver ==
    /\ lister.step \in {"done", "changed"}
    /\ lister' = Idle
    /\ PageFrame

(***************************************************************************)
(* Representations: a file is opened once and read from its descriptor.    *)
(***************************************************************************)
(* parse_single_range: the inclusive interval, or <<>> if unsatisfiable. *)
ParseRange(asked, size) ==
    LET first == IF asked.kind = "suffix"
                 THEN IF asked.n < size THEN size - asked.n ELSE 0
                 ELSE asked.n
        last == IF asked.kind = "between" /\ asked.m < size THEN asked.m ELSE size - 1
    IN  IF \/ asked.kind = "suffix" /\ asked.n = 0
           \/ asked.kind # "suffix" /\ asked.n >= size
           \/ asked.kind = "between" /\ asked.m < asked.n
        THEN <<>> ELSE <<first, last>>

Asked == [kind : {"suffix", "from"}, n : 0..MediaSize, m : {0}]
           \cup [kind : {"between"}, n : 0..MediaSize, m : 0..MediaSize]

RepresentationFrame == UNCHANGED <<diskVars, index, memoryVars, scan, lister, sealing,
                                   recordingNow, deletion, mediaLost>>

(* _validated_manifest: what is opened is a sealed session of that name. *)
ManifestValid(s) == ManifestOpens(s) /\ folder[s].valid

(* _open_relative_regular and the declared size: content is not read. *)
ArtifactOpens(s) == Present(s) /\ folder[s].media # "short"

Opened(s, kind, range) ==
    /\ CatalogEvent /\ VolumeCurrent
    /\ representation = NoRepresentation /\ deletion.expected = {}
    /\ representation' = [of |-> s, kind |-> kind, step |-> "open", inode |-> folder[s].inode,
                          touched |-> FALSE, read |-> "none", range |-> range]
    /\ RepresentationFrame

\* the manifest's bytes are read when it is opened
OpenManifest(s) == ManifestValid(s) /\ Opened(s, "manifest", <<0, MediaSize - 1>>)

OpenArtifact(s, asked) ==
    /\ ManifestValid(s) /\ ArtifactOpens(s)
    /\ ParseRange(asked, MediaSize) # <<>>
    /\ Opened(s, "artifact", ParseRange(asked, MediaSize))

(* _assert_unchanged: same inode, size and time as when it was opened. *)
Unchanged == representation.kind = "manifest" \/ ~(representation.touched \/ mediaLost)

ReadStep(from, to) ==
    /\ representation.step = from
    /\ representation' =
           [representation EXCEPT !.step = IF Unchanged THEN to ELSE "failed"]
    /\ UNCHANGED clock /\ RepresentationFrame

ReadBegin == ReadStep("open", "reading")

SendBlock ==
    /\ representation.step = "reading"
    /\ representation' = [representation EXCEPT !.step = "sent", 
                              !.read = IF Unchanged THEN "opened" ELSE "other"]
    /\ UNCHANGED clock /\ RepresentationFrame

ReadEnd == ReadStep("sent", "served")

\* the client goes away, or the answer is complete; the count goes down once
CloseRepresentation ==
    /\ representation # NoRepresentation
    /\ representation' = NoRepresentation
    /\ UNCHANGED clock /\ RepresentationFrame

(***************************************************************************)
(* Deletion.                                                               *)
(***************************************************************************)
Deletable ==
    /\ VolumeCurrent /\ recordingNow = {} /\ representation = NoRepresentation /\ CatalogFree

(* Every session directory of the volume can be inspected, the manifests   *)
(* are the ones the client saw, and no continuation would be left behind.  *)
Preflight(confirmed) ==
    /\ \A s \in Sessions : Present(s) => Inspects(s)
    /\ \A s \in DOMAIN confirmed : Present(s) /\ Signature(s) = confirmed[s]
    /\ \A s \in Sessions \ DOMAIN confirmed :
           ~(Present(s) /\ Continuation(s) /\ s - 1 \in DOMAIN confirmed)

Confirmed == UNION {[ss -> 1..MaxManifest] : ss \in SUBSET Sessions \ {{}}}

\* nothing is left of the sessions in memory, whatever became of the request
Forgotten(ss) ==
    /\ summaries' = [s \in Sessions |-> IF s \in ss THEN 0 ELSE summaries[s]]
    /\ diagnostics' = [s \in Sessions |-> IF s \in ss THEN NoDiagnostic ELSE diagnostics[s]]
    /\ UNCHANGED admitted

DeleteRejected(confirmed) ==
    /\ CatalogEvent /\ Deletable /\ ~Preflight(confirmed)
    /\ Forgotten(DOMAIN confirmed)
    /\ lister' = Disturbed(DOMAIN confirmed)
    /\ UNCHANGED <<diskVars, index, scan, sealing, recordingNow, representation, deletion,
                   mediaLost>>

DeleteBegin(confirmed) ==
    /\ CatalogEvent /\ Deletable /\ Preflight(confirmed)
    /\ deletion' = [expected |-> DOMAIN confirmed, todo |-> DOMAIN confirmed, deleted |-> {},
                    inode |-> [s \in Sessions |-> folder[s].inode]]
    /\ lister' = Disturbed(DOMAIN confirmed)
    /\ UNCHANGED <<diskVars, index, memoryVars, scan, sealing, recordingNow, representation,
                   mediaLost>>

(* Not the code: the order of recording instead of its reverse. *)
NextRemoved_Oldest(s) ==
    s \in deletion.todo /\ \A t \in deletion.todo : TakeSequence[s] <= TakeSequence[t]

(* The later of a chain goes first. *)
NextRemoved(s) ==
    s \in deletion.todo /\ \A t \in deletion.todo : TakeSequence[t] <= TakeSequence[s]

DeleteFrame == UNCHANGED <<retained, withRole, late, raced, index, memoryVars, scan, clock, lister,
                           sealing, recordingNow, representation, mediaLost>>

\* the directory is removed; its parent's fsync may fail and end the deletion
RemoveDirectory(s) ==
    /\ VolumeCurrent /\ NextRemoved(s) /\ folder[s].inode = deletion.inode[s]
    /\ folder' = [folder EXCEPT ![s] = Gone]
    /\ removed' = removed \cup {s}
    /\ \E rest \in {deletion.todo \ {s}, {}} :
           deletion' = [deletion EXCEPT !.todo = rest, !.deleted = @ \cup {s}]
    /\ DeleteFrame

\* another directory has the name, or rmtree stops half way: the rest is kept
RemoveFails(s) ==
    /\ NextRemoved(s)
    /\ \/ (mediaLost \/ folder[s].inode # deletion.inode[s]) /\ UNCHANGED folder
       \/ /\ VolumeCurrent /\ folder[s].inode = deletion.inode[s]
          /\ folder' \in {[folder EXCEPT ![s].media = "short"],
                          [folder EXCEPT ![s].manifest = 0, ![s].valid = FALSE]}
    /\ deletion' = [deletion EXCEPT !.todo = {}]
    /\ UNCHANGED removed /\ DeleteFrame

DeleteEnd ==
    /\ deletion.expected # {} /\ deletion.todo = {}
    /\ Forgotten(deletion.expected)
    /\ retained' = retained \ deletion.deleted
    /\ deletion' = NoDeletion
    /\ UNCHANGED <<folder, withRole, removed, late, raced, index, scan, clock, lister, sealing,
                   recordingNow, representation, mediaLost>>

(***************************************************************************)
(* The world.                                                              *)
(***************************************************************************)
Newer(s) == {v \in 2..MaxManifest : v = folder[s].manifest + 1}

\* somebody else changes the files of a session
Meddle(s) ==
    /\ CatalogEvent /\ Present(s)
    /\ \/ \E m \in {"swapped", "short"} :
             /\ folder' = [folder EXCEPT ![s].media = m]
             /\ representation' =
                    IF representation.of = s /\ representation.inode = folder[s].inode
                    THEN [representation EXCEPT !.touched = TRUE] ELSE representation
             /\ UNCHANGED raced
       \/ /\ folder' \in {[folder EXCEPT ![s].manifest = 0, ![s].valid = FALSE]} \cup
                         {[folder EXCEPT ![s] = [Fresh EXCEPT !.manifest = v, !.inode = 2]] :
                              v \in Newer(s)} \cup
                         {[folder EXCEPT ![s].manifest = v, ![s].valid = ok] :
                              v \in Newer(s), ok \in BOOLEAN}
          /\ raced' = raced \cup (sealing \cap {s})
          /\ UNCHANGED representation
    /\ lister' = Disturbed({s})
    /\ UNCHANGED <<retained, withRole, removed, late, index, memoryVars, scan, sealing,
                   recordingNow, deletion, mediaLost>>

\* memory is lost and an open transaction with it; a take that was being
\* recorded is lost, or published at boot whole or as a completed prefix
Reboot ==
    /\ CatalogEvent
    /\ \/ UNCHANGED <<folder, retained, withRole, late>>
       \/ \E s \in recordingNow :
             /\ folder[s] = Gone
             /\ folder' = [folder EXCEPT ![s] = Fresh]
             /\ late' = IF Continuation(s) /\ s - 1 \in removed THEN late \cup {s} ELSE late
             /\ \/ UNCHANGED <<retained, withRole>>
                \/ retained' = retained \cup {s} /\ withRole' = withRole \cup {s}
    /\ index' = IF scan.by = "nobody" THEN index ELSE scan.before
    /\ summaries' = [s \in Sessions |-> 0]
    /\ diagnostics' = [s \in Sessions |-> NoDiagnostic]
    /\ admitted' = [s \in Sessions |-> 0]
    /\ scan' = NoScan /\ sealing' = {} /\ recordingNow' = {}
    /\ representation' = NoRepresentation /\ deletion' = NoDeletion
    /\ lister' = [Disturbed(Sessions) EXCEPT
                     !.step = IF @ \in {"scanning", "page"} THEN "idle" ELSE @]
    /\ mediaLost' = FALSE
    /\ UNCHANGED <<removed, raced>>

\* the medium is pulled or remounted: nothing is served until the next admission
VolumeLost ==
    /\ CatalogEvent /\ VolumeCurrent
    /\ mediaLost' = TRUE
    /\ lister' = Disturbed(Sessions)
    /\ UNCHANGED <<diskVars, index, memoryVars, scan, sealing, recordingNow, representation,
                   deletion>>

ScanStep(s) ==
    \/ ScanCached(s) \/ ScanUnadmitted(s) \/ ScanMiss(s) \/ ScanAdmit(s)
    \/ ScanSign(s) \/ ScanRead(s) \/ ScanRemember(s)

TakeStep(s) == StartTake(s) \/ StopPublishes(s) \/ RememberSealed(s) \/ TakeFails(s)

CatalogNext ==
    \/ \E s \in Sessions : TakeStep(s) \/ ScanStep(s)
    \/ ListRequest \/ OtherRequest \/ ScanEnd \/ ScanRollback
    \/ Page \/ CatalogChanged \/ PageByName \/ CursorUnknown \/ StartOver
    \/ \E s \in Sessions : OpenManifest(s) \/ \E asked \in Asked : OpenArtifact(s, asked)
    \/ ReadBegin \/ SendBlock \/ ReadEnd \/ CloseRepresentation
    \/ \E confirmed \in Confirmed : DeleteRejected(confirmed) \/ DeleteBegin(confirmed)
    \/ \E s \in Sessions : RemoveDirectory(s) \/ RemoveFails(s)
    \/ DeleteEnd
    \/ \E s \in Sessions : Meddle(s)
    \/ Reboot \/ VolumeLost

CatalogSpec == CatalogInit /\ [][CatalogNext]_catalogVars

-----------------------------------------------------------------------------
\* The model's state space.
CatalogTypeOK ==
    /\ summaries \in [Sessions -> 0..MaxManifest]
    /\ admitted \in [Sessions -> 0..MaxManifest]
    /\ index \in [Sessions -> [sig : 0..MaxManifest, shows : 0..MaxManifest]]
    /\ scan.found \subseteq Sessions /\ scan.todo \subseteq Sessions
    /\ lister.cursor \in Nat

(* Deletion of part of a take leaves a prefix of it, even when it breaks   *)
(* off or power fails: no directory continues a session the device removed,*)
(* unless it was only published later.                                     *)
ChainKept ==
    \A s \in Sessions : folder[s] # Gone /\ Continuation(s) /\ s - 1 \in removed => s \in late

(* The pages a client put together are the beginning of one catalog that   *)
(* existed as a whole, whatever was recorded, removed or changed meanwhile;*)
(* a v3 client, whose cursor has no revision, at least gets nothing twice. *)
PagesOfOneCatalog ==
    /\ lister.api = "v4" =>
           \A i \in DOMAIN lister.got : i <= Len(lister.first) /\ lister.got[i] = lister.first[i]
    /\ lister.api = "v3" =>
           \A i, j \in DOMAIN lister.got : i < j => lister.got[i].session > lister.got[j].session

(* A page shows no manifest older than when its request came, and nothing  *)
(* the device had removed; every session that could be read and was left   *)
(* alone since then is on it.  Not so for a session whose manifest was     *)
(* replaced before its first row was written (coordinator.py:4321).        *)
ListedIsCurrent ==
    lister.step = "page" =>
        /\ \A s \in Sessions \ raced : summaries[s] # 0 => summaries[s] >= lister.floor[s]
        /\ \A s \in lister.steady \ raced : summaries[s] = lister.floor[s]

(* A client is sent back to the first page only if something happened, or  *)
(* if a session is refused, which is dated anew by every scan.             *)
CursorKept ==
    lister.step = "changed" => ~lister.calm \/ \E s \in Sessions : Refused(s)

(* What is reported as served are the bytes that were opened, in range. *)
ServedIsOpened ==
    representation.step = "served" =>
        /\ representation.read = "opened"
        /\ representation.range[1] <= representation.range[2]
        /\ representation.range[2] < MediaSize

(* The catalog and deletion are sound together (catalog.py, deletion.py,   *)
(* list_sessions, delete_sessions and the representations a download reads).*)
CatalogSafe ==
    /\ ChainKept
    /\ PagesOfOneCatalog
    /\ ListedIsCurrent
    /\ CursorKept
    /\ ServedIsOpened
=============================================================================
