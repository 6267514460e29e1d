--------------------------- MODULE ContentProofs ---------------------------
(***************************************************************************)
(* Proofs about what the device shows.  LivePreview: for any viewers,      *)
(* threads that clear, frames and clears, and any order in which the two   *)
(* codecs finish.  PreviewSafe speaks about pictures that were given; that *)
(* the next one is as good needs to know what the running encodes hold.    *)
(***************************************************************************)
EXTENDS LivePreview, TLAPS

-----------------------------------------------------------------------------
(* LivePreview: what holds at every step *)

Steps == {"off", "codecs", "loop", "codec 1", "codec 2", "take 1", "take 2", "wait", "ending"}

Workers == [step : Steps, generation : Nat, previous : Nat]

PreviewTypes ==
    /\ frame \in Nat /\ published \in Nat /\ thumbnail \in Nat /\ wanted \in BOOLEAN
    /\ generation \in Nat /\ cleared \in Nat /\ shown \in Nat
    /\ clearing \in [Clearer -> [on : BOOLEAN, at : Nat]]
    /\ worker \in Workers
    /\ pending \in [Codecs -> [step : {"none", "running", "done", "failed"}, frame : Nat,
                               generation : Nat]]
    /\ viewer \in [Viewer -> [waits : BOOLEAN, cleared : Nat, shown : Nat, given : Nat]]
    /\ stream \in [Viewer -> [open : BOOLEAN, last : Nat]]

Running(i) == pending[i].step = "running"

\* The buffer holds the newest frame or none; what was shown or cleared is no newer, and what
\* a clear found is cleared away before anything newer is in the buffer.
Newest ==
    /\ frame \in {0, published} /\ shown <= published /\ cleared <= published
    /\ \A c \in Clearer : clearing[c].at <= published
    /\ frame # 0 => cleared < frame /\ \A c \in Clearer : clearing[c].at < frame

\* Nobody works for a generation to come.
Generations ==
    /\ worker.generation <= generation
    /\ \A i \in Codecs : pending[i].generation <= generation

\* A picture that may still be given is newer than what was cleared away and no older than
\* what was given: the one on show, and those the codecs make for this generation.
Fresh ==
    /\ thumbnail # 0 => thumbnail > cleared /\ thumbnail >= shown
    /\ \A i \in Codecs : Running(i) =>
          /\ pending[i].frame <= published
          /\ pending[i].generation = generation =>
                /\ pending[i].frame > cleared
                /\ pending[i].frame > thumbnail => pending[i].frame >= shown

\* An encode has a worker that waits for it.
Attended == \A i \in Codecs : Running(i) => worker.step # "off"

\* A request remembers what was cleared and shown before it.
Remembered ==
    \A v \in Viewer : viewer[v].cleared <= cleared /\ viewer[v].shown <= shown

PreviewInv ==
    /\ PreviewTypes /\ thumbnail <= published /\ Newest /\ Generations /\ Fresh /\ Attended
    /\ Remembered /\ PreviewSafe

-----------------------------------------------------------------------------
(* Each step of LivePreview *)

\* The worker goes on, with the generation it read or none.
LEMMA WorkerMoves ==
    ASSUME worker \in Workers, NEW step \in Steps, WorkerTo(step)
    PROVE  /\ worker' \in Workers /\ worker'.step = step
           /\ worker'.previous = worker.previous
           /\ worker'.generation \in {0, worker.generation}
  BY DEF WorkerTo, Workers, Steps

\* Every step keeps the buffer, the thumbnails, the worker and the viewers of their types.
LEMMA PreviewTypesStep ==
    ASSUME PreviewTypes, [PreviewNext]_previewVars
    PROVE  PreviewTypes'
  <1> USE PreviewAssumption DEF PreviewTypes
  <1>1. CASE Publish
    BY <1>1 DEF Publish
  <1>2. CASE RequestAges
    BY <1>2 DEF RequestAges
  <1>3. ASSUME NEW c \in Clearer, ClearBuffer(c) PROVE PreviewTypes'
    BY <1>3 DEF ClearBuffer
  <1>4. ASSUME NEW c \in Clearer, ClearThumbnails(c) PROVE PreviewTypes'
    <2>1. clearing' \in [Clearer -> [on : BOOLEAN, at : Nat]]
      BY <1>4 DEF ClearThumbnails, NotClearing
    <2>2. cleared' \in Nat
      BY <1>4 DEF ClearThumbnails, NewerFrame
    <2>3. generation' \in Nat /\ thumbnail' \in Nat /\ shown' \in Nat
      BY <1>4 DEF ClearThumbnails
    <2>4. UNCHANGED <<frame, published, worker, pending, viewer, stream>> /\ wanted' = FALSE
      BY <1>4 DEF ClearThumbnails
    <2> QED BY <2>1, <2>2, <2>3, <2>4
  <1>5. ASSUME NEW v \in Viewer, GetBegins(v) PROVE PreviewTypes'
    <2>1. viewer' \in [Viewer -> [waits : BOOLEAN, cleared : Nat, shown : Nat, given : Nat]]
      BY <1>5 DEF GetBegins
    <2>2. worker' \in Workers
      BY <1>5 DEF GetBegins, Steps, Workers
    <2>3. UNCHANGED <<frame, published, clearing, thumbnail, generation, pending, stream,
                      cleared, shown>> /\ wanted' = TRUE
      BY <1>5 DEF GetBegins
    <2> QED BY <2>1, <2>2, <2>3
  <1>6. ASSUME NEW v \in Viewer, GetAnswers(v) PROVE PreviewTypes'
    BY <1>6 DEF GetAnswers, NewerFrame
  <1>7. ASSUME NEW v \in Viewer, GetFails(v) PROVE PreviewTypes'
    BY <1>7 DEF GetFails
  <1>8. ASSUME NEW v \in Viewer, StreamOpens(v) \/ StreamDelivers(v) \/ StreamCloses(v)
        PROVE  PreviewTypes'
    <2>1. CASE StreamOpens(v)
      BY <2>1 DEF StreamOpens, StreamFrame, NoRequest
    <2>2. CASE StreamDelivers(v)
      BY <2>2 DEF StreamDelivers, StreamFrame
    <2>3. CASE StreamCloses(v)
      BY <2>3 DEF StreamCloses, StreamFrame, NoStream
    <2> QED BY <1>8, <2>1, <2>2, <2>3
  <1>9. CASE WorkerCodecs \/ WorkerLoop \/ WorkerWaits
    <2>1. worker' \in Workers
      BY <1>9, WorkerMoves DEF WorkerCodecs, WorkerLoop, WorkerWaits, Steps, Workers
    <2> QED BY <1>9, <2>1 DEF WorkerCodecs, WorkerLoop, WorkerWaits, WorkerFrame
  <1>10. CASE WorkerEnds
    BY <1>10 DEF WorkerEnds, WorkerFrame, NoWorker, NoEncode, Steps, Workers
  <1>11. ASSUME NEW i \in Codecs, WorkerCodec(i) PROVE PreviewTypes'
    <2>1. worker' \in Workers
      BY <1>11, WorkerMoves DEF WorkerCodec, Steps
    <2> QED BY <1>11, <2>1 DEF WorkerCodec, WorkerFrame
  <1>12. ASSUME NEW i \in Codecs, WorkerTake(i) PROVE PreviewTypes'
    <2>1. CASE frame # 0 /\ frame # worker.previous
      <3>1. worker' = [step |-> "wait", generation |-> 0, previous |-> frame]
        BY <1>12, <2>1 DEF WorkerTake
      <3>2. worker' \in Workers
        BY <3>1 DEF Workers, Steps
      <3>3. pending' = [pending EXCEPT ![i] = [step |-> "running", frame |-> frame,
                                               generation |-> worker.generation]]
        BY <1>12, <2>1 DEF WorkerTake
      <3>4. worker.generation \in Nat
        BY DEF Workers
      <3> QED BY <1>12, <3>2, <3>3, <3>4 DEF WorkerTake, WorkerFrame
    <2>2. CASE frame = 0 \/ frame = worker.previous
      <3>1. UNCHANGED pending /\ (WorkerTo("ending") \/ WorkerTo("wait"))
        BY <1>12, <2>2 DEF WorkerTake
      <3>2. worker' \in Workers
        BY <3>1, WorkerMoves DEF Steps
      <3> QED BY <1>12, <3>1, <3>2 DEF WorkerTake, WorkerFrame
    <2> QED BY <2>1, <2>2
  <1>13. ASSUME NEW i \in Codecs, Encode(i) PROVE PreviewTypes'
    BY <1>13 DEF Encode, Encoded, EncodeEnded, WorkerFrame
  <1>14. ASSUME NEW i \in Codecs, EncodeFails(i) PROVE PreviewTypes'
    BY <1>14 DEF EncodeFails, EncodeEnded, WorkerFrame
  <1>15. CASE UNCHANGED previewVars
    BY <1>15 DEF previewVars
  <1> QED BY <1>1, <1>2, <1>3, <1>4, <1>5, <1>6, <1>7, <1>8, <1>9, <1>10, <1>11, <1>12,
             <1>13, <1>14, <1>15 DEF PreviewNext
\* A step that moves the worker alone, or the worker and what it makes.
LEMMA WorkerAlone ==
    ASSUME PreviewInv, PreviewTypes', UNCHANGED <<thumbnail, pending>>, WorkerFrame,
           worker'.generation <= generation,
           worker.step # "off", worker'.step # "off"
    PROVE  PreviewInv'
  <1>1. (thumbnail <= published)' /\ Newest' /\ Remembered'
    BY DEF PreviewInv, Newest, Remembered, WorkerFrame
  <1>2. Generations' /\ Attended'
    BY DEF PreviewInv, Generations, Attended, Running, WorkerFrame
  <1>3. Fresh'
    BY DEF PreviewInv, Fresh, Running, WorkerFrame
  <1>4. PreviewSafe'
    BY DEF PreviewInv, PreviewSafe, NothingCleared, NeverBack, NoneWithoutWorker, WorkerFrame
  <1> QED BY <1>1, <1>2, <1>3, <1>4 DEF PreviewInv

\* Publish, and the two halves of clear().
LEMMA BufferStep ==
    ASSUME PreviewInv, PreviewTypes',
           \/ Publish
           \/ \E c \in Clearer : ClearBuffer(c) \/ ClearThumbnails(c)
    PROVE  PreviewInv'
  <1> USE DEF PreviewInv, PreviewTypes
  <1>1. CASE Publish
    <2>1. (thumbnail <= published)' /\ Newest'
      BY <1>1 DEF Publish, Newest
    <2>2. Generations' /\ Fresh' /\ Attended'
      BY <1>1 DEF Publish, Generations, Fresh, Attended, Running
    <2>3. Remembered' /\ PreviewSafe'
      BY <1>1 DEF Publish, Remembered, PreviewSafe, NothingCleared, NeverBack, NoneWithoutWorker
    <2> QED BY <2>1, <2>2, <2>3
  <1>2. ASSUME NEW c \in Clearer, ClearBuffer(c) PROVE PreviewInv'
    <2>1. (thumbnail <= published)'
      BY <1>2 DEF ClearBuffer
    <2>2. Newest'
      BY <1>2 DEF ClearBuffer, Newest
    <2>3. Generations' /\ Fresh' /\ Attended'
      BY <1>2 DEF ClearBuffer, Generations, Fresh, Attended, Running
    <2>4. Remembered' /\ PreviewSafe'
      BY <1>2 DEF ClearBuffer, Remembered, PreviewSafe, NothingCleared, NeverBack,
                  NoneWithoutWorker
    <2> QED BY <2>1, <2>2, <2>3, <2>4
  <1>3. ASSUME NEW c \in Clearer, ClearThumbnails(c) PROVE PreviewInv'
    <2>1. /\ cleared' \in {cleared, clearing[c].at} /\ cleared' >= cleared
          /\ generation' = generation + 1 /\ thumbnail' = 0
          /\ UNCHANGED <<frame, published, worker, pending, viewer, stream, shown>>
      BY <1>3 DEF ClearThumbnails, NewerFrame
    <2>2. \A d \in Clearer : clearing'[d].at \in {0, clearing[d].at}
      BY <1>3 DEF ClearThumbnails, NotClearing
    <2>3. (thumbnail <= published)' /\ Newest'
      <3>1. clearing[c].at \in Nat /\ clearing[c].at <= published
            /\ (frame # 0 => clearing[c].at < frame)
        BY <1>3 DEF Newest
      <3>2. \A d \in Clearer : clearing'[d].at <= published
        BY <2>2 DEF Newest
      <3>3. ASSUME frame # 0, NEW d \in Clearer PROVE clearing'[d].at < frame
        <4>1. 0 < frame /\ clearing[d].at < frame
          BY <3>3 DEF Newest
        <4> QED BY <2>2, <4>1
      <3> QED BY <2>1, <3>1, <3>2, <3>3 DEF Newest
    <2>4. Generations' /\ Attended'
      BY <2>1 DEF Generations, Attended, Running, Workers
    <2>5. Fresh'
      BY <2>1 DEF Generations, Fresh, Running
    <2>6. Remembered' /\ PreviewSafe'
      BY <2>1 DEF Remembered, PreviewSafe, NothingCleared, NeverBack, NoneWithoutWorker
    <2> QED BY <2>3, <2>4, <2>5, <2>6
  <1> QED BY <1>1, <1>2, <1>3

\* A request for a picture, and the streams.
LEMMA ViewerStep ==
    ASSUME PreviewInv, PreviewTypes',
           \/ RequestAges
           \/ \E v \in Viewer : \/ GetBegins(v) \/ GetAnswers(v) \/ GetFails(v)
                                \/ StreamOpens(v) \/ StreamDelivers(v) \/ StreamCloses(v)
    PROVE  PreviewInv'
  <1> USE DEF PreviewInv, PreviewTypes
  <1>1. CASE RequestAges
    BY <1>1 DEF RequestAges, Newest, Generations, Fresh, Attended, Running, Remembered,
                PreviewSafe, NothingCleared, NeverBack, NoneWithoutWorker
  <1>2. ASSUME NEW v \in Viewer, GetBegins(v) PROVE PreviewInv'
    <2>1. /\ UNCHANGED <<frame, published, clearing, thumbnail, generation, pending, stream,
                         cleared, shown>>
          /\ worker'.generation = worker.generation /\ worker'.step # "off"
      BY <1>2 DEF GetBegins, Workers
    <2>2. \A u \in Viewer : \/ viewer'[u] = viewer[u]
                            \/ /\ viewer'[u].cleared = cleared /\ viewer'[u].shown = shown
                               /\ viewer'[u].given = 0
      BY <1>2 DEF GetBegins
    <2>3. (thumbnail <= published)' /\ Newest' /\ Fresh'
      BY <2>1 DEF Newest, Fresh, Running
    <2>4. Generations' /\ Attended'
      BY <2>1 DEF Generations, Attended, Running
    <2>5. Remembered'
      BY <2>1, <2>2 DEF Remembered
    <2>6. PreviewSafe'
      BY <2>1, <2>2 DEF PreviewSafe, NothingCleared, NeverBack, NoneWithoutWorker
    <2> QED BY <2>3, <2>4, <2>5, <2>6
  <1>3. ASSUME NEW v \in Viewer, GetAnswers(v) PROVE PreviewInv'
    <2>1. /\ UNCHANGED <<frame, published, clearing, thumbnail, wanted, generation, worker,
                         pending, stream, cleared>>
          /\ shown' \in {shown, thumbnail} /\ shown' >= shown /\ shown' >= thumbnail
          /\ thumbnail # 0
      BY <1>3 DEF GetAnswers, NewerFrame
    <2>2. \A u \in Viewer : /\ viewer'[u].cleared = viewer[u].cleared
                            /\ viewer'[u].shown = viewer[u].shown
                            /\ viewer'[u].given \in {viewer[u].given, thumbnail}
      BY <1>3 DEF GetAnswers
    <2>3. (thumbnail <= published)' /\ Newest'
      BY <2>1 DEF Newest
    <2>4. Fresh'
      BY <2>1 DEF Fresh, Running
    <2>5. Generations' /\ Attended'
      BY <2>1 DEF Generations, Attended, Running
    <2>6. Remembered'
      BY <2>1, <2>2 DEF Remembered
    <2>7. thumbnail > cleared /\ thumbnail >= shown
      BY <2>1 DEF Fresh
    <2>8. NothingCleared'
      BY <2>2, <2>7 DEF PreviewSafe, NothingCleared, Remembered
    <2>9. NeverBack'
      BY <2>2, <2>7 DEF PreviewSafe, NeverBack, Remembered
    <2>10. NoneWithoutWorker'
      BY <2>1 DEF PreviewSafe, NoneWithoutWorker
    <2> QED BY <2>3, <2>4, <2>5, <2>6, <2>8, <2>9, <2>10 DEF PreviewSafe
  <1>4. ASSUME NEW v \in Viewer,
               GetFails(v) \/ StreamOpens(v) \/ StreamDelivers(v) \/ StreamCloses(v)
        PROVE  PreviewInv'
    <2>1. /\ UNCHANGED <<frame, published, clearing, thumbnail, wanted, generation, worker,
                         pending, cleared, shown>>
      BY <1>4 DEF GetFails, StreamOpens, StreamDelivers, StreamCloses, StreamFrame
    <2>2. \A u \in Viewer : \/ /\ viewer'[u].cleared = viewer[u].cleared
                               /\ viewer'[u].shown = viewer[u].shown
                               /\ viewer'[u].given = viewer[u].given
                            \/ viewer'[u] = NoRequest
      BY <1>4 DEF GetFails, StreamOpens, StreamDelivers, StreamCloses, StreamFrame
    <2>3. (thumbnail <= published)' /\ Newest' /\ Fresh'
      BY <2>1 DEF Newest, Fresh, Running
    <2>4. Generations' /\ Attended'
      BY <2>1 DEF Generations, Attended, Running
    <2>5. Remembered'
      BY <2>1, <2>2 DEF Remembered, NoRequest
    <2>6. PreviewSafe'
      BY <2>1, <2>2 DEF PreviewSafe, NothingCleared, NeverBack, NoneWithoutWorker, NoRequest
    <2> QED BY <2>3, <2>4, <2>5, <2>6
  <1> QED BY <1>1, <1>2, <1>3, <1>4

\* The worker and its codecs.
LEMMA WorkerStep ==
    ASSUME PreviewInv, PreviewTypes',
           \/ WorkerCodecs \/ WorkerLoop \/ WorkerWaits \/ WorkerEnds
           \/ \E i \in Codecs : WorkerCodec(i) \/ WorkerTake(i) \/ Encode(i) \/ EncodeFails(i)
    PROVE  PreviewInv'
  <1> USE DEF PreviewInv, PreviewTypes
  <1>1. worker.generation \in Nat /\ worker.generation <= generation /\ 0 <= generation
    BY DEF Generations, Workers
  <1>2. CASE WorkerCodecs \/ WorkerLoop \/ WorkerWaits
    <2>1. worker'.generation \in {0, worker.generation, generation}
      BY <1>2, WorkerMoves DEF WorkerCodecs, WorkerLoop, WorkerWaits, Steps, Workers
    <2>2. worker.step # "off" /\ worker'.step # "off"
      BY <1>2, WorkerMoves DEF WorkerCodecs, WorkerLoop, WorkerWaits, Steps, Workers
    <2>3. UNCHANGED <<thumbnail, pending>> /\ WorkerFrame
      BY <1>2 DEF WorkerCodecs, WorkerLoop, WorkerWaits
    <2> QED BY <1>1, <2>1, <2>2, <2>3, WorkerAlone
  <1>3. ASSUME NEW i \in Codecs, WorkerCodec(i) PROVE PreviewInv'
    <2>1. /\ worker'.generation \in {0, worker.generation}
          /\ worker.step # "off" /\ worker'.step # "off"
      BY <1>3, WorkerMoves DEF WorkerCodec, Steps
    <2>2. UNCHANGED <<thumbnail, pending>> /\ WorkerFrame
      BY <1>3 DEF WorkerCodec
    <2> QED BY <1>1, <2>1, <2>2, WorkerAlone
  <1>4. ASSUME NEW i \in Codecs, WorkerTake(i) PROVE PreviewInv'
    <2>1. CASE frame = 0 \/ frame = worker.previous
      <3>1. UNCHANGED pending /\ (WorkerTo("ending") \/ WorkerTo("wait"))
        BY <1>4, <2>1 DEF WorkerTake
      <3>2. worker'.generation \in {0, worker.generation} /\ worker'.step # "off"
        BY <3>1, WorkerMoves DEF Steps
      <3>3. UNCHANGED thumbnail /\ WorkerFrame /\ worker.step # "off"
        BY <1>4 DEF WorkerTake
      <3> QED BY <1>1, <3>1, <3>2, <3>3, WorkerAlone
    <2>2. CASE frame # 0 /\ frame # worker.previous
      <3>1. /\ worker' = [step |-> "wait", generation |-> 0, previous |-> frame]
            /\ UNCHANGED thumbnail /\ WorkerFrame
        BY <1>4, <2>2 DEF WorkerTake
      <3>2. \A j \in Codecs : \/ pending'[j] = pending[j]
                              \/ pending'[j] = [step |-> "running", frame |-> frame,
                                                generation |-> worker.generation]
        BY <1>4, <2>2 DEF WorkerTake
      <3>3. (thumbnail <= published)' /\ Newest' /\ Remembered'
        BY <3>1 DEF Newest, Remembered, WorkerFrame
      <3>4. Generations' /\ Attended'
        BY <1>1, <3>1, <3>2 DEF Generations, Attended, Running, WorkerFrame
      <3>5. Fresh'
        BY <2>2, <3>1, <3>2 DEF Fresh, Newest, Running, WorkerFrame
      <3>6. PreviewSafe'
        BY <3>1 DEF PreviewSafe, NothingCleared, NeverBack, NoneWithoutWorker, WorkerFrame
      <3> QED BY <3>3, <3>4, <3>5, <3>6
    <2> QED BY <2>1, <2>2
  <1>5. CASE WorkerEnds
    <2>1. /\ worker' = NoWorker /\ thumbnail' = 0 /\ pending' = [i \in Codecs |-> NoEncode]
          /\ WorkerFrame
      BY <1>5 DEF WorkerEnds
    <2>2. (thumbnail <= published)' /\ Newest' /\ Remembered'
      BY <2>1 DEF Newest, Remembered, WorkerFrame
    <2>3. Generations' /\ Attended' /\ Fresh'
      BY <1>1, <2>1 DEF Generations, Attended, Fresh, Running, WorkerFrame, NoWorker, NoEncode
    <2>4. PreviewSafe'
      BY <2>1 DEF PreviewSafe, NothingCleared, NeverBack, NoneWithoutWorker, WorkerFrame
    <2> QED BY <2>2, <2>3, <2>4
  <1>6. ASSUME NEW i \in Codecs, Encode(i) PROVE PreviewInv'
    <2>1. /\ Running(i) /\ UNCHANGED worker /\ WorkerFrame
          /\ \/ thumbnail' = thumbnail
             \/ /\ pending[i].generation = generation /\ pending[i].frame > thumbnail
                /\ thumbnail' = pending[i].frame
      BY <1>6 DEF Encode, Encoded, Running
    <2>2. \A j \in Codecs : \/ pending'[j] = pending[j]
                            \/ pending'[j].step = "done" /\ pending'[j].generation = 0
      BY <1>6 DEF Encode, EncodeEnded
    <2>3. (thumbnail <= published)'
      BY <2>1 DEF Fresh, WorkerFrame
    <2>4. Newest' /\ Remembered'
      BY <2>1 DEF Newest, Remembered, WorkerFrame
    <2>5. Generations' /\ Attended'
      BY <1>1, <2>1, <2>2 DEF Generations, Attended, Running, WorkerFrame
    <2>6. Fresh'
      BY <2>1, <2>2 DEF Fresh, Running, WorkerFrame
    <2>7. PreviewSafe'
      BY <2>1 DEF PreviewSafe, NothingCleared, NeverBack, NoneWithoutWorker, Attended,
                  WorkerFrame
    <2> QED BY <2>3, <2>4, <2>5, <2>6, <2>7
  <1>7. ASSUME NEW i \in Codecs, EncodeFails(i) PROVE PreviewInv'
    <2>1. UNCHANGED <<thumbnail, worker>> /\ WorkerFrame
      BY <1>7 DEF EncodeFails
    <2>2. \A j \in Codecs : \/ pending'[j] = pending[j]
                            \/ pending'[j].step = "failed" /\ pending'[j].generation = 0
      BY <1>7 DEF EncodeFails, EncodeEnded
    <2>3. (thumbnail <= published)' /\ Newest' /\ Remembered'
      BY <2>1 DEF Newest, Remembered, WorkerFrame
    <2>4. Generations' /\ Attended' /\ Fresh'
      BY <1>1, <2>1, <2>2 DEF Generations, Attended, Fresh, Running, WorkerFrame
    <2>5. PreviewSafe'
      BY <2>1 DEF PreviewSafe, NothingCleared, NeverBack, NoneWithoutWorker, WorkerFrame
    <2> QED BY <2>3, <2>4, <2>5
  <1> QED BY <1>2, <1>3, <1>4, <1>5, <1>6, <1>7

\* PreviewInv is inductive.
LEMMA PreviewInvHolds == PreviewSpec => []PreviewInv
  <1>1. PreviewInit => PreviewInv
    <2> USE DEF PreviewInit, NotClearing, NoWorker, NoEncode, NoRequest, NoStream
    <2>1. PreviewInit => PreviewTypes
      <3>1. PreviewInit => worker \in Workers
        BY DEF Workers, Steps
      <3>2. PreviewInit => /\ clearing \in [Clearer -> [on : BOOLEAN, at : Nat]]
                           /\ stream \in [Viewer -> [open : BOOLEAN, last : Nat]]
        OBVIOUS
      <3>3. PreviewInit =>
              /\ pending \in [Codecs -> [step : {"none", "running", "done", "failed"},
                                         frame : Nat, generation : Nat]]
              /\ viewer \in [Viewer -> [waits : BOOLEAN, cleared : Nat, shown : Nat, given : Nat]]
        OBVIOUS
      <3>4. PreviewInit => wanted \in BOOLEAN
        OBVIOUS
      <3> QED BY <3>1, <3>2, <3>3, <3>4 DEF PreviewTypes
    <2>2. PreviewInit => thumbnail <= published /\ Newest /\ Remembered
      BY DEF Newest, Remembered
    <2>3. PreviewInit => Generations /\ Fresh /\ Attended
      BY DEF Generations, Fresh, Attended, Running
    <2>4. PreviewInit => PreviewSafe
      BY DEF PreviewSafe, NothingCleared, NeverBack, NoneWithoutWorker
    <2> QED BY <2>1, <2>2, <2>3, <2>4 DEF PreviewInv
  <1>2. PreviewInv /\ [PreviewNext]_previewVars => PreviewInv'
    <2> SUFFICES ASSUME PreviewInv, [PreviewNext]_previewVars PROVE PreviewInv'
      OBVIOUS
    <2>1. PreviewTypes'
      BY PreviewTypesStep DEF PreviewInv
    <2>2. CASE UNCHANGED previewVars
      BY <2>2 DEF previewVars, PreviewInv, PreviewTypes, Newest, Generations, Fresh, Attended,
                  Running, Remembered, PreviewSafe, NothingCleared, NeverBack, NoneWithoutWorker
    <2> QED BY <2>1, <2>2, BufferStep, ViewerStep, WorkerStep DEF PreviewNext
  <1> QED BY <1>1, <1>2, PTL DEF PreviewSpec

\* The live picture is live: a picture given for a request is newer than whatever was cleared
\* away before it, no older than any picture given before it, and none outlives the worker
\* (preview.py, preview_thumbnail.py).
THEOREM PreviewCorrect == PreviewSpec => []PreviewSafe
  <1>1. PreviewInv => PreviewSafe
    BY DEF PreviewInv
  <1> QED BY <1>1, PreviewInvHolds, PTL
=============================================================================
