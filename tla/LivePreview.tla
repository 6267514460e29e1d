---------------------------- MODULE LivePreview ----------------------------
(***************************************************************************)
(* The live preview: the buffer that holds the latest camera frame only    *)
(* (preview.rs, preview.py), the multipart streams that read it, and the   *)
(* thumbnails that a worker makes on demand with two codecs at once        *)
(* (preview_thumbnail.py).  A frame is its sequence number, 0 for none.    *)
(* Time is the choice of when a wait ends and when a request is old.       *)
(***************************************************************************)
EXTENDS Naturals, FiniteSets

CONSTANTS
    Viewer,        \* connections: each asks for a picture or reads a stream at a time
    Clearer,       \* threads of the coordinator that clear the preview
    MaxFrames,     \* bound: frames published
    MaxClears      \* bound: clears

ASSUME PreviewAssumption == MaxFrames \in Nat /\ MaxClears \in Nat

VARIABLES
    frame, published,   \* the buffer: its frame, and the number of the last one
    clearing,           \* clearer -> [at: last frame when it emptied the buffer] or none
    thumbnail,          \* PreviewThumbnails.latest
    wanted,             \* requested lies at most two seconds back
    generation,
    worker,             \* its step, the generation it read, the frame it took last
    pending,            \* codec -> its encode: [step, frame, generation]
    viewer,             \* viewer -> what it waits for, and what it was given
    stream,             \* viewer -> its multipart stream: [open, last]
    cleared, shown      \* history: last frame cleared away, newest thumbnail given

previewVars == <<frame, published, clearing, thumbnail, wanted, generation, worker, pending,
                 viewer, stream, cleared, shown>>

Codecs == 1..2
NotClearing == [on |-> FALSE, at |-> 0]
NoWorker == [step |-> "off", generation |-> 0, previous |-> 0]
NoEncode == [step |-> "none", frame |-> 0, generation |-> 0]
EncodeEnded(how) == [step |-> how, frame |-> 0, generation |-> 0]
NoStream == [open |-> FALSE, last |-> 0]
NoRequest == [waits |-> FALSE, cleared |-> 0, shown |-> 0, given |-> 0]

PreviewInit ==
    /\ frame = 0 /\ published = 0 /\ clearing = [c \in Clearer |-> NotClearing]
    /\ thumbnail = 0 /\ wanted = FALSE /\ generation = 0
    /\ worker = NoWorker /\ pending = [i \in Codecs |-> NoEncode]
    /\ viewer = [v \in Viewer |-> NoRequest] /\ stream = [v \in Viewer |-> NoStream]
    /\ cleared = 0 /\ shown = 0

NewerFrame(m, n) == IF m > n THEN m ELSE n

-----------------------------------------------------------------------------
(* LatestPreviewBuffer *)

Publish ==
    /\ published < MaxFrames
    /\ published' = published + 1 /\ frame' = published + 1
    /\ UNCHANGED <<clearing, thumbnail, wanted, generation, worker, pending, viewer, stream,
                   cleared, shown>>

\* clear() empties the buffer, and then, without a lock around both, the thumbnails
ClearBuffer(c) ==
    /\ ~clearing[c].on /\ generation + Cardinality({d \in Clearer : clearing[d].on}) < MaxClears
    /\ frame' = 0 /\ clearing' = [clearing EXCEPT ![c] = [on |-> TRUE, at |-> published]]
    /\ UNCHANGED <<published, thumbnail, wanted, generation, worker, pending, viewer, stream,
                   cleared, shown>>

ClearThumbnails(c) ==
    /\ clearing[c].on /\ clearing' = [clearing EXCEPT ![c] = NotClearing]
    /\ generation' = generation + 1 /\ thumbnail' = 0 /\ wanted' = FALSE
    /\ cleared' = NewerFrame(cleared, clearing[c].at)
    /\ UNCHANGED <<frame, published, worker, pending, viewer, stream, shown>>

-----------------------------------------------------------------------------
(* PreviewThumbnails.get *)

GetBegins(v) ==
    /\ ~viewer[v].waits /\ ~stream[v].open
    /\ viewer' = [viewer EXCEPT ![v] = [waits |-> TRUE, cleared |-> cleared, shown |-> shown,
                                        given |-> 0]]
    /\ wanted' = TRUE
    /\ worker' = IF worker.step = "off" THEN [worker EXCEPT !.step = "codecs"] ELSE worker
    /\ UNCHANGED <<frame, published, clearing, thumbnail, generation, pending, stream, cleared,
                   shown>>

GetAnswers(v) ==
    /\ viewer[v].waits /\ thumbnail # 0
    /\ viewer' = [viewer EXCEPT ![v].waits = FALSE, ![v].given = thumbnail]
    /\ shown' = NewerFrame(shown, thumbnail)
    /\ UNCHANGED <<frame, published, clearing, thumbnail, wanted, generation, worker, pending,
                   stream, cleared>>

\* the wait ends after 250 ms, or with the worker
GetFails(v) ==
    /\ viewer[v].waits /\ thumbnail = 0
    /\ viewer' = [viewer EXCEPT ![v].waits = FALSE]
    /\ UNCHANGED <<frame, published, clearing, thumbnail, wanted, generation, worker, pending,
                   stream, cleared, shown>>

RequestAges ==
    /\ wanted /\ wanted' = FALSE
    /\ UNCHANGED <<frame, published, clearing, thumbnail, generation, worker, pending, viewer,
                   stream, cleared, shown>>

-----------------------------------------------------------------------------
(* PreviewThumbnails._run *)

WorkerFrame ==
    UNCHANGED <<frame, published, clearing, wanted, generation, viewer, stream, cleared, shown>>
WorkerTo(step) ==
    worker' = [worker EXCEPT !.step = step, !.generation =
                             IF step \in {"codec 2", "take 1", "take 2"} THEN @ ELSE 0]

\* both codecs are made, or the worker ends
WorkerCodecs ==
    /\ worker.step = "codecs" /\ (WorkerTo("loop") \/ WorkerTo("ending"))
    /\ UNCHANGED <<thumbnail, pending>> /\ WorkerFrame

WorkerLoop ==
    /\ worker.step = "loop"
    /\ IF wanted THEN worker' = [worker EXCEPT !.step = "codec 1", !.generation = generation]
                 ELSE WorkerTo("ending")
    /\ UNCHANGED <<thumbnail, pending>> /\ WorkerFrame

\* the first codec that is free takes the next frame
WorkerCodec(i) ==
    /\ worker.step = (IF i = 1 THEN "codec 1" ELSE "codec 2")
    /\ WorkerTo(CASE pending[i].step = "running" -> IF i = 1 THEN "codec 2" ELSE "wait"
                  [] pending[i].step = "failed"  -> "ending"
                  [] OTHER                       -> IF i = 1 THEN "take 1" ELSE "take 2")
    /\ UNCHANGED <<thumbnail, pending>> /\ WorkerFrame

WorkerTake(i) ==
    /\ worker.step = (IF i = 1 THEN "take 1" ELSE "take 2")
    /\ CASE frame = 0 ->
              WorkerTo("ending") /\ UNCHANGED pending
         [] frame # 0 /\ frame # worker.previous ->
              /\ pending' = [pending EXCEPT ![i] = [step |-> "running", frame |-> frame,
                                                    generation |-> worker.generation]]
              /\ worker' = [step |-> "wait", generation |-> 0, previous |-> frame]
         [] OTHER ->
              WorkerTo("wait") /\ UNCHANGED pending
    /\ UNCHANGED thumbnail /\ WorkerFrame

WorkerWaits ==
    /\ worker.step = "wait" /\ WorkerTo("loop")
    /\ UNCHANGED <<thumbnail, pending>> /\ WorkerFrame

\* the executor is shut down once its encodes are done
WorkerEnds ==
    /\ worker.step = "ending" /\ \A i \in Codecs : pending[i].step # "running"
    /\ worker' = NoWorker /\ thumbnail' = 0
    /\ pending' = [i \in Codecs |-> NoEncode]
    /\ WorkerFrame

\* What _encode leaves as the latest thumbnail.
Encoded_AnyOrder(e) == IF e.generation = generation THEN e.frame ELSE thumbnail

Encoded(e) ==
    IF e.generation = generation /\ e.frame > thumbnail THEN e.frame ELSE thumbnail

Encode(i) ==
    /\ pending[i].step = "running"
    /\ thumbnail' = Encoded(pending[i])
    /\ pending' = [pending EXCEPT ![i] = EncodeEnded("done")]
    /\ UNCHANGED worker /\ WorkerFrame

EncodeFails(i) ==
    /\ pending[i].step = "running"
    /\ pending' = [pending EXCEPT ![i] = EncodeEnded("failed")]
    /\ UNCHANGED <<thumbnail, worker>> /\ WorkerFrame

-----------------------------------------------------------------------------
(* The multipart stream *)

StreamFrame ==
    UNCHANGED <<frame, published, clearing, thumbnail, wanted, generation, worker, pending,
                cleared, shown>>

StreamOpens(v) ==
    /\ ~stream[v].open /\ ~viewer[v].waits /\ frame # 0
    /\ viewer' = [viewer EXCEPT ![v] = NoRequest]
    /\ stream' = [stream EXCEPT ![v] = [open |-> TRUE, last |-> 0]]
    /\ StreamFrame

StreamDelivers(v) ==
    /\ stream[v].open /\ frame \notin {0, stream[v].last}
    /\ stream' = [stream EXCEPT ![v].last = frame]
    /\ UNCHANGED viewer /\ StreamFrame

\* the client leaves, or its wait ends while the buffer is empty
StreamCloses(v) ==
    /\ stream[v].open /\ stream' = [stream EXCEPT ![v] = NoStream]
    /\ UNCHANGED viewer /\ StreamFrame

PreviewNext ==
    \/ Publish \/ RequestAges
    \/ \E c \in Clearer : ClearBuffer(c) \/ ClearThumbnails(c)
    \/ \E v \in Viewer : GetBegins(v) \/ GetAnswers(v) \/ GetFails(v)
    \/ WorkerCodecs \/ WorkerLoop \/ WorkerWaits \/ WorkerEnds
    \/ \E i \in Codecs : WorkerCodec(i) \/ WorkerTake(i) \/ Encode(i) \/ EncodeFails(i)
    \/ \E v \in Viewer : StreamOpens(v) \/ StreamDelivers(v) \/ StreamCloses(v)

PreviewSpec == PreviewInit /\ [][PreviewNext]_previewVars

-----------------------------------------------------------------------------
(* Properties *)

PreviewTypeOK ==
    /\ {frame, published, thumbnail, cleared, shown} \subseteq 0..MaxFrames
    /\ wanted \in BOOLEAN /\ generation \in Nat

\* A picture given for a request is newer than everything cleared away before the request
\* began, though an encode of an older frame may still have been running (_encode).
NothingCleared == \A v \in Viewer : viewer[v].given # 0 => viewer[v].given > viewer[v].cleared

\* Whoever asks after a picture was given gets one that is no older, in whatever order the
\* two codecs finish and however often the worker ends between (_encode, _run).
NeverBack == \A v \in Viewer : viewer[v].given # 0 => viewer[v].given >= viewer[v].shown

\* No thumbnail outlives the worker that would replace it (_run).
NoneWithoutWorker == worker.step = "off" => thumbnail = 0

\* The live picture is live (preview.py, preview_thumbnail.py).
PreviewSafe == NothingCleared /\ NeverBack /\ NoneWithoutWorker
=============================================================================
