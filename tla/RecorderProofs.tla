--------------------------- MODULE RecorderProofs ---------------------------
(***************************************************************************)
(* Proofs about QueuedRecorder: for any queue, segment length and number   *)
(* of items, and any order of submits, timeouts, failures and stops, a     *)
(* sealed take is whole.  The argument is about order, not about counts:   *)
(* what is on its way to the journals keeps the order it was handed in, so *)
(* an item that is written while nothing was lost is the next one.         *)
(***************************************************************************)
EXTENDS QueuedRecorder, TLAPS

Draining == {"open", "finalize", "drain", "put", "join", "rejoin"}
Sealing == {"finalize", "check", "encoder", "encoder exit", "encoder done", "quality"}

\* The take and the step of its stop() or fail() agree.
Stage ==
    /\ recState = "new" => closer = "open" /\ writerAt = "none"
    /\ recState = "recording" => closer = "open"
    /\ writerAt = "none" => recState \in {"new", "failed"}
    /\ recState \in {"finalizing", "stopping"} => closer \notin {"open", "done"}
    /\ recState \in {"sealed", "failed"} => closer = "done"
    /\ sealing => recState \in {"finalizing", "sealed"}
    /\ closer \in Sealing => sealing
    /\ closer = "abandon" => ~sealing
    /\ offer # NoItem => recState = "recording"

\* The writer ends before anything it writes to is given up.
Drained ==
    /\ closer \in {"open", "finalize", "drain", "put"} => writerAt # "ended"
    /\ closer \notin Draining => writerAt \in {"none", "ended"}
    /\ recState # "new" /\ closer \in Draining => owned = Owned
    /\ closer \in {"encoder exit", "encoder done", "quality"} => ~recError
    /\ closer = "quality" => ~owned.encoder

\* The writer works on an item exactly between the queue and the journal, and the stop is the
\* last thing it takes from the queue.
StopIsLast ==
    /\ writerAt \in {"encode", "index"} <=> hand # NoItem
    /\ writerAt = "ended" => recQueue = <<>>
    /\ \A i \in 1..Len(recQueue) :
          recQueue[i] = StopItem => i = Len(recQueue) /\ closer \in {"join", "rejoin"}

\* Of two items of a kind, a was handed in before b.
Precedes(a, b) == a[1] = b[1] => a[2] < b[2]

\* The item was handed in, and everything its journal holds before it.
Numbered(item) ==
    /\ item[2] < handed[item[1]]
    /\ \A i \in 1..Len(journal[item[1]]) : journal[item[1]][i] < item[2]

\* Along the way from a submit to the journal the items of a kind keep their order.
JournalOrdered == \A k \in Kinds : \A i \in 1..Len(journal[k]) : journal[k][i] < handed[k]
HandOrdered == hand # NoItem => Numbered(hand)
QueueOrdered ==
    \A j \in 1..Len(recQueue) :
        recQueue[j] # StopItem =>
           /\ Numbered(recQueue[j]) /\ Precedes(hand, recQueue[j])
           /\ \A i \in 1..(j - 1) : Precedes(recQueue[i], recQueue[j])
OfferOrdered ==
    offer # NoItem =>
        /\ Numbered(offer) /\ Precedes(hand, offer)
        /\ \A i \in 1..Len(recQueue) : Precedes(recQueue[i], offer)
Ordered == JournalOrdered /\ HandOrdered /\ QueueOrdered /\ OfferOrdered

\* While nothing was lost a journal numbers its items from zero.
Consecutive ==
    ~recError /\ dropped = {} =>
        \A k \in Kinds : \A i \in 1..Len(journal[k]) : journal[k][i] = i - 1

\* What the helper closed and what we were told of never overtake what it was given, and a
\* take that may be sealed has all of it.
Covered ==
    /\ covered <= closed /\ closed <= submitted
    /\ closer = "quality" =>
          /\ helper.process = "done"
          /\ submitted = Len(journal["frame"]) /\ covered = Len(journal["frame"])
    /\ recState = "sealed" => helper.process = "done"

RecInv ==
    /\ RecTypeOK /\ Stage /\ Drained /\ StopIsLast /\ Ordered /\ AllAccounted
    /\ Consecutive /\ Covered /\ SealedIsWhole /\ FinalizingStays

-----------------------------------------------------------------------------
(* The queue *)

Items == (Kinds \X Nat) \cup {StopItem}

\* What a put and a get leave in the queue, and where.
LEMMA Appended ==
    ASSUME NEW q \in Seq(Items), NEW item \in Items
    PROVE  /\ Len(q) \in Nat /\ Append(q, item) \in Seq(Items)
           /\ Len(Append(q, item)) = Len(q) + 1
           /\ \A i \in 1..Len(q) : Append(q, item)[i] = q[i]
           /\ Append(q, item)[Len(q) + 1] = item
  OBVIOUS

\* What is left of a queue when its first item was taken, and that item.
LEMMA Taken ==
    ASSUME NEW q \in Seq(Items), q # <<>>
    PROVE  /\ Len(q) \in Nat \ {0} /\ Tail(q) \in Seq(Items)
           /\ Len(Tail(q)) = Len(q) - 1 /\ Head(q) = q[1] /\ Head(q) \in Items
           /\ \A i \in 1..Len(Tail(q)) : Tail(q)[i] = q[i + 1]
  OBVIOUS

\* A journal of a kind is a sequence, and an entry is added at its end.
LEMMA Entered ==
    ASSUME NEW s \in Seq(Nat), NEW n \in Nat
    PROVE  /\ Len(s) \in Nat /\ Append(s, n) \in Seq(Nat) /\ Len(Append(s, n)) = Len(s) + 1
           /\ \A i \in 1..Len(s) : Append(s, n)[i] = s[i] /\ s[i] \in Nat
           /\ Append(s, n)[Len(s) + 1] = n
  OBVIOUS

\* What the types say of an item, wherever it is.
LEMMA ItemParts ==
    ASSUME TypeItems
    PROVE  /\ Len(recQueue) \in Nat
           /\ \A j \in 1..Len(recQueue) :
                 recQueue[j] # StopItem => recQueue[j][1] \in Kinds /\ recQueue[j][2] \in Nat
           /\ hand # NoItem => hand[1] \in Kinds /\ hand[2] \in Nat
           /\ offer # NoItem => offer[1] \in Kinds /\ offer[2] \in Nat
           /\ \A k \in Kinds :
                 /\ handed[k] \in Nat /\ Len(journal[k]) \in Nat
                 /\ \A i \in 1..Len(journal[k]) : journal[k][i] \in Nat
  BY DEF TypeItems

-----------------------------------------------------------------------------
(* The steps *)

\* The take, its files and its closer keep their types.
LEMMA TypeStageStep ==
    ASSUME TypeStage, [RecNext]_recVars
    PROVE  TypeStage'
  <1> USE RecorderAssumption DEF StartKeeps, SubmitKeeps, WriterKeeps, EncoderKeeps,
      WriterTo, HelperKeeps, CloserKeeps,
          CloserTo, Raises, Fault, Process, Available, QueuePut, Dropped, Written, PipeBroken,
          Spawned, Killed, submitVars, writerVars, closerVars, encoderVars, stateVars
  <1>1. CASE StartRecorder
    BY <1>1 DEF StartRecorder, TypeStage, Owned
  <1>2. CASE StartRecorderFails
    BY <1>2 DEF StartRecorderFails, TypeStage, Owned
  <1>3. ASSUME NEW k \in Kinds, Submit(k) PROVE TypeStage'
    BY <1>3 DEF Submit, TypeStage, Owned
  <1>4. CASE PutItem
    BY ZenonT(40), <1>4 DEF PutItem, TypeStage, Owned
  <1>5. CASE PutTimesOut
    BY ZenonT(40), <1>5 DEF PutTimesOut, TypeStage, Owned
  <1>6. CASE WriterGets
    BY ZenonT(40), <1>6 DEF WriterGets, TypeStage, Owned
  <1>7. CASE WriterEncodes
    BY ZenonT(40), <1>7 DEF WriterEncodes, TypeStage, Owned
  <1>8. CASE WriterIndexes
    BY ZenonT(40), <1>8 DEF WriterIndexes, TypeStage, Owned
  <1>9. CASE CheckpointSkips
    BY <1>9 DEF CheckpointSkips, TypeStage, Owned
  <1>10. CASE CheckpointWrites
    BY <1>10 DEF CheckpointWrites, TypeStage, Owned
  <1>11. CASE CheckpointPublishes
    BY <1>11 DEF CheckpointPublishes, TypeStage, Owned
  <1>12. CASE WriterRaises
    BY ZenonT(40), <1>12 DEF WriterRaises, TypeStage, Owned
  <1>13. CASE HelperCloses
    BY ZenonT(40), <1>13 DEF HelperCloses, TypeStage, Owned
  <1>14. CASE HelperEnds
    BY ZenonT(40), <1>14 DEF HelperEnds, TypeStage, Owned
  <1>15. CASE HelperFails
    BY ZenonT(40), <1>15 DEF HelperFails, TypeStage, Owned
  <1>16. CASE HelperHangs
    BY ZenonT(40), <1>16 DEF HelperHangs, TypeStage, Owned
  <1>17. CASE ReaderReads
    BY ZenonT(40), <1>17 DEF ReaderReads, TypeStage, Owned
  <1>18. CASE HarvesterFails
    BY <1>18 DEF HarvesterFails, TypeStage, Owned
  <1>19. CASE StopBegins
    BY <1>19 DEF StopBegins, TypeStage, Owned
  <1>20. CASE FailBegins
    BY <1>20 DEF FailBegins, TypeStage, Owned
  <1>21. CASE MarkFinalizing
    BY <1>21 DEF MarkFinalizing, TypeStage, Owned
  <1>22. CASE DrainBegins
    BY <1>22 DEF DrainBegins, TypeStage, Owned
  <1>23. CASE PutStop
    BY <1>23 DEF PutStop, TypeStage, Owned
  <1>24. CASE JoinTimesOut
    BY <1>24 DEF JoinTimesOut, TypeStage, Owned
  <1>25. CASE Joined
    BY <1>25 DEF Joined, TypeStage, Owned
  <1>26. CASE SyncFiles
    BY <1>26 DEF SyncFiles, TypeStage, Owned
  <1>27. CASE EndInput
    BY <1>27 DEF EndInput, TypeStage, Owned
  <1>28. CASE WaitEncoder
    BY <1>28 DEF WaitEncoder, TypeStage, Owned
  <1>29. CASE FinishEncoder
    BY <1>29 DEF FinishEncoder, TypeStage, Owned
  <1>30. CASE PublishTake
    BY <1>30 DEF PublishTake, TypeStage, Owned
  <1>31. CASE AbandonTake
    BY <1>31 DEF AbandonTake, TypeStage, Owned
  <1>32. CASE UNCHANGED recVars
    BY ZenonT(40), <1>32 DEF recVars, TypeStage, Owned
  <1> QED
    BY <1>1, <1>2, <1>3, <1>4, <1>5, <1>6, <1>7, <1>8, <1>9, <1>10, <1>11, <1>12, <1>13,
       <1>14, <1>15, <1>16, <1>17, <1>18, <1>19, <1>20, <1>21, <1>22, <1>23, <1>24, <1>25,
       <1>26, <1>27, <1>28, <1>29, <1>30, <1>31, <1>32 DEF RecNext, WriterNext,
           HelperNext, CloserNext

\* Items, wherever they are, keep their types.
LEMMA TypeItemsStep ==
    ASSUME TypeItems, StopIsLast, Ordered, [RecNext]_recVars
    PROVE  TypeItems'
  <1> USE RecorderAssumption DEF StartKeeps, SubmitKeeps, WriterKeeps, EncoderKeeps,
      WriterTo, HelperKeeps, CloserKeeps,
          CloserTo, Raises, Fault, Process, Available, QueuePut, Dropped, Written, PipeBroken,
          Spawned, Killed, submitVars, writerVars, closerVars, encoderVars, stateVars
  <1>1. CASE StartRecorder
    BY <1>1 DEF StartRecorder, TypeItems, Kinds, NoItem, StopItem
  <1>2. CASE StartRecorderFails
    BY <1>2 DEF StartRecorderFails, TypeItems, Kinds, NoItem, StopItem
  <1>3. ASSUME NEW k \in Kinds, Submit(k) PROVE TypeItems'
    BY <1>3 DEF Submit, TypeItems, Kinds, NoItem, StopItem
  <1>4. CASE PutItem
    BY <1>4 DEF PutItem, TypeItems, Kinds, NoItem, StopItem
  <1>5. CASE PutTimesOut
    <2>1. offer # NoItem => offer[2] < handed[offer[1]]
      BY DEF Ordered, OfferOrdered, Numbered
    <2>2. offer # NoItem => offer[1] \in Kinds /\ offer[2] \in 0..MaxItems
      BY <2>1, ItemParts DEF TypeItems
    <2> QED BY <1>5, <2>2 DEF PutTimesOut, TypeItems, NoItem
  <1>6. CASE WriterGets
    BY SMTT(20), <1>6 DEF WriterGets, TypeItems, Kinds, NoItem, StopItem
  <1>7. CASE WriterEncodes
    BY <1>7 DEF WriterEncodes, TypeItems, Kinds, NoItem, StopItem
  <1>8. CASE WriterIndexes
    <2> DEFINE k == hand[1]
               n == hand[2]
    <2>1. /\ k \in Kinds /\ n \in Nat /\ hand = <<k, n>>
          /\ journal' = [journal EXCEPT ![k] = Append(journal[k], n)]
          /\ journal \in [Kinds -> Seq(Nat)]
      BY <1>8 DEF WriterIndexes, TypeItems, StopIsLast, NoItem
    <2> HIDE DEF k, n
    <2>a. /\ journal[k] \in Seq(Nat) /\ journal'[k] = Append(journal[k], n)
          /\ \A l \in Kinds \ {k} : journal'[l] = journal[l]
      BY <2>1
    <2>2. /\ Len(journal[k]) \in Nat /\ Len(journal'[k]) = Len(journal[k]) + 1
          /\ \A i \in 1..Len(journal[k]) : journal'[k][i] = journal[k][i] /\ journal[k][i] \in Nat
          /\ journal'[k][Len(journal[k]) + 1] = n
          /\ \A l \in Kinds \ {k} : journal'[l] = journal[l]
      BY <2>1, <2>a, Entered
    <2>3. journal' \in [Kinds -> Seq(Nat)]
      BY <2>1, Entered DEF TypeItems
    <2> QED BY <1>8, <2>3 DEF WriterIndexes, TypeItems, NoItem
  <1>9. CASE CheckpointSkips
    BY <1>9 DEF CheckpointSkips, TypeItems, Kinds, NoItem, StopItem
  <1>10. CASE CheckpointWrites
    BY <1>10 DEF CheckpointWrites, TypeItems, Kinds, NoItem, StopItem
  <1>11. CASE CheckpointPublishes
    BY <1>11 DEF CheckpointPublishes, TypeItems, Kinds, NoItem, StopItem
  <1>12. CASE WriterRaises
    BY <1>12 DEF WriterRaises, TypeItems, Kinds, NoItem, StopItem
  <1>13. CASE HelperCloses
    BY <1>13 DEF HelperCloses, TypeItems, Kinds, NoItem, StopItem
  <1>14. CASE HelperEnds
    BY <1>14 DEF HelperEnds, TypeItems, Kinds, NoItem, StopItem
  <1>15. CASE HelperFails
    BY <1>15 DEF HelperFails, TypeItems, Kinds, NoItem, StopItem
  <1>16. CASE HelperHangs
    BY <1>16 DEF HelperHangs, TypeItems, Kinds, NoItem, StopItem
  <1>17. CASE ReaderReads
    BY <1>17 DEF ReaderReads, TypeItems, Kinds, NoItem, StopItem
  <1>18. CASE HarvesterFails
    BY <1>18 DEF HarvesterFails, TypeItems, Kinds, NoItem, StopItem
  <1>19. CASE StopBegins
    BY <1>19 DEF StopBegins, TypeItems, Kinds, NoItem, StopItem
  <1>20. CASE FailBegins
    BY <1>20 DEF FailBegins, TypeItems, Kinds, NoItem, StopItem
  <1>21. CASE MarkFinalizing
    BY <1>21 DEF MarkFinalizing, TypeItems, Kinds, NoItem, StopItem
  <1>22. CASE DrainBegins
    BY <1>22 DEF DrainBegins, TypeItems, Kinds, NoItem, StopItem
  <1>23. CASE PutStop
    BY <1>23 DEF PutStop, TypeItems, Kinds, NoItem, StopItem
  <1>24. CASE JoinTimesOut
    BY <1>24 DEF JoinTimesOut, TypeItems, Kinds, NoItem, StopItem
  <1>25. CASE Joined
    BY <1>25 DEF Joined, TypeItems, Kinds, NoItem, StopItem
  <1>26. CASE SyncFiles
    BY <1>26 DEF SyncFiles, TypeItems, Kinds, NoItem, StopItem
  <1>27. CASE EndInput
    BY <1>27 DEF EndInput, TypeItems, Kinds, NoItem, StopItem
  <1>28. CASE WaitEncoder
    BY <1>28 DEF WaitEncoder, TypeItems, Kinds, NoItem, StopItem
  <1>29. CASE FinishEncoder
    BY <1>29 DEF FinishEncoder, TypeItems, Kinds, NoItem, StopItem
  <1>30. CASE PublishTake
    BY <1>30 DEF PublishTake, TypeItems, Kinds, NoItem, StopItem
  <1>31. CASE AbandonTake
    BY <1>31 DEF AbandonTake, TypeItems, Kinds, NoItem, StopItem
  <1>32. CASE UNCHANGED recVars
    BY <1>32 DEF recVars, TypeItems, Kinds, NoItem, StopItem
  <1> QED
    BY <1>1, <1>2, <1>3, <1>4, <1>5, <1>6, <1>7, <1>8, <1>9, <1>10, <1>11, <1>12, <1>13,
       <1>14, <1>15, <1>16, <1>17, <1>18, <1>19, <1>20, <1>21, <1>22, <1>23, <1>24, <1>25,
       <1>26, <1>27, <1>28, <1>29, <1>30, <1>31, <1>32 DEF RecNext, WriterNext,
           HelperNext, CloserNext

\* The helper and what we know of it keep their types.
LEMMA TypeHelperStep ==
    ASSUME TypeHelper, [RecNext]_recVars
    PROVE  TypeHelper'
  <1> USE RecorderAssumption DEF StartKeeps, SubmitKeeps, WriterKeeps, EncoderKeeps,
      WriterTo, HelperKeeps, CloserKeeps,
          CloserTo, Raises, Fault, Process, Available, QueuePut, Dropped, Written, PipeBroken,
          Spawned, Killed, submitVars, writerVars, closerVars, encoderVars, stateVars
  <1>1. CASE StartRecorder
    BY <1>1 DEF StartRecorder, TypeHelper, Owned
  <1>2. CASE StartRecorderFails
    BY <1>2 DEF StartRecorderFails, TypeHelper, Owned
  <1>3. ASSUME NEW k \in Kinds, Submit(k) PROVE TypeHelper'
    BY <1>3 DEF Submit, TypeHelper, Owned
  <1>4. CASE PutItem
    BY <1>4 DEF PutItem, TypeHelper, Owned
  <1>5. CASE PutTimesOut
    BY <1>5 DEF PutTimesOut, TypeHelper, Owned
  <1>6. CASE WriterGets
    BY <1>6 DEF WriterGets, TypeHelper, Owned
  <1>7. CASE WriterEncodes
    BY <1>7 DEF WriterEncodes, TypeHelper, Owned
  <1>8. CASE WriterIndexes
    BY <1>8 DEF WriterIndexes, TypeHelper, Owned
  <1>9. CASE CheckpointSkips
    BY <1>9 DEF CheckpointSkips, TypeHelper, Owned
  <1>10. CASE CheckpointWrites
    BY <1>10 DEF CheckpointWrites, TypeHelper, Owned
  <1>11. CASE CheckpointPublishes
    BY <1>11 DEF CheckpointPublishes, TypeHelper, Owned
  <1>12. CASE WriterRaises
    BY <1>12 DEF WriterRaises, TypeHelper, Owned
  <1>13. CASE HelperCloses
    BY <1>13 DEF HelperCloses, TypeHelper, Owned
  <1>14. CASE HelperEnds
    BY <1>14 DEF HelperEnds, TypeHelper, Owned
  <1>15. CASE HelperFails
    BY <1>15 DEF HelperFails, TypeHelper, Owned
  <1>16. CASE HelperHangs
    BY <1>16 DEF HelperHangs, TypeHelper, Owned
  <1>17. CASE ReaderReads
    BY <1>17 DEF ReaderReads, TypeHelper, Owned
  <1>18. CASE HarvesterFails
    <2>1. /\ UNCHANGED <<owned, helper, submitted, closed, covered, helperError>>
          /\ recFaults' = recFaults + 1
      BY <1>18 DEF HarvesterFails
    <2> QED BY <2>1 DEF TypeHelper
  <1>19. CASE StopBegins
    BY <1>19 DEF StopBegins, TypeHelper, Owned
  <1>20. CASE FailBegins
    BY <1>20 DEF FailBegins, TypeHelper, Owned
  <1>21. CASE MarkFinalizing
    BY <1>21 DEF MarkFinalizing, TypeHelper, Owned
  <1>22. CASE DrainBegins
    BY <1>22 DEF DrainBegins, TypeHelper, Owned
  <1>23. CASE PutStop
    BY <1>23 DEF PutStop, TypeHelper, Owned
  <1>24. CASE JoinTimesOut
    BY <1>24 DEF JoinTimesOut, TypeHelper, Owned
  <1>25. CASE Joined
    BY <1>25 DEF Joined, TypeHelper, Owned
  <1>26. CASE SyncFiles
    <2>1. /\ UNCHANGED <<helper, submitted, closed, covered, helperError>>
          /\ recFaults' \in {recFaults, recFaults + 1}
          /\ owned' \in {owned, [owned EXCEPT !.journals = FALSE]}
      BY <1>26 DEF SyncFiles
    <2>2. owned' \in [journals : BOOLEAN, encoder : BOOLEAN]
      BY <2>1 DEF TypeHelper
    <2>3. recFaults' \in Nat
      BY <2>1 DEF TypeHelper
    <2> QED BY <2>1, <2>2, <2>3 DEF TypeHelper
  <1>27. CASE EndInput
    <2>1. /\ UNCHANGED <<owned, submitted, closed, covered, helperError>>
          /\ recFaults' \in {recFaults, recFaults + 1}
          /\ helper' \in {helper, [helper EXCEPT !.input = FALSE]}
      BY <1>27 DEF EndInput
    <2>2. helper' \in [process : {"none", "running", "hung", "failed", "done"}, input : BOOLEAN]
      BY <2>1 DEF TypeHelper
    <2>3. recFaults' \in Nat
      BY <2>1 DEF TypeHelper
    <2> QED BY <2>1, <2>2, <2>3 DEF TypeHelper
  <1>28. CASE WaitEncoder
    BY <1>28 DEF WaitEncoder, TypeHelper, Owned
  <1>29. CASE FinishEncoder
    BY <1>29 DEF FinishEncoder, TypeHelper, Owned
  <1>30. CASE PublishTake
    BY <1>30 DEF PublishTake, TypeHelper, Owned
  <1>31. CASE AbandonTake
    BY <1>31 DEF AbandonTake, TypeHelper, Owned
  <1>32. CASE UNCHANGED recVars
    BY <1>32 DEF recVars, TypeHelper, Owned
  <1> QED
    BY <1>1, <1>2, <1>3, <1>4, <1>5, <1>6, <1>7, <1>8, <1>9, <1>10, <1>11, <1>12, <1>13,
       <1>14, <1>15, <1>16, <1>17, <1>18, <1>19, <1>20, <1>21, <1>22, <1>23, <1>24, <1>25,
       <1>26, <1>27, <1>28, <1>29, <1>30, <1>31, <1>32 DEF RecNext, WriterNext,
           HelperNext, CloserNext

\* The take and its stop() or fail() go through their steps together.
LEMMA StageStep ==
    ASSUME TypeStage, Stage, Drained, [RecNext]_recVars
    PROVE  Stage'
  <1> USE RecorderAssumption DEF StartKeeps, SubmitKeeps, WriterKeeps, EncoderKeeps,
      WriterTo, HelperKeeps, CloserKeeps,
          CloserTo, Raises, Fault, Process, Available, QueuePut, Dropped, Written, PipeBroken,
          Spawned, Killed, submitVars, writerVars, closerVars, encoderVars, stateVars
  <1>1. CASE StartRecorder
    BY <1>1 DEF StartRecorder, TypeStage, Stage, Drained, Draining, Sealing, NoItem
  <1>2. CASE StartRecorderFails
    BY <1>2 DEF StartRecorderFails, TypeStage, Stage, Drained, Draining, Sealing, NoItem
  <1>3. ASSUME NEW k \in Kinds, Submit(k) PROVE Stage'
    BY <1>3 DEF Submit, TypeStage, Stage, Drained, Draining, Sealing, NoItem
  <1>4. CASE PutItem
    BY <1>4 DEF PutItem, TypeStage, Stage, Drained, Draining, Sealing, NoItem
  <1>5. CASE PutTimesOut
    BY <1>5 DEF PutTimesOut, TypeStage, Stage, Drained, Draining, Sealing, NoItem
  <1>6. CASE WriterGets
    BY <1>6 DEF WriterGets, TypeStage, Stage, Drained, Draining, Sealing, NoItem
  <1>7. CASE WriterEncodes
    BY <1>7 DEF WriterEncodes, TypeStage, Stage, Drained, Draining, Sealing, NoItem
  <1>8. CASE WriterIndexes
    BY <1>8 DEF WriterIndexes, TypeStage, Stage, Drained, Draining, Sealing, NoItem
  <1>9. CASE CheckpointSkips
    BY <1>9 DEF CheckpointSkips, TypeStage, Stage, Drained, Draining, Sealing, NoItem
  <1>10. CASE CheckpointWrites
    BY <1>10 DEF CheckpointWrites, TypeStage, Stage, Drained, Draining, Sealing, NoItem
  <1>11. CASE CheckpointPublishes
    BY <1>11 DEF CheckpointPublishes, TypeStage, Stage, Drained, Draining, Sealing, NoItem
  <1>12. CASE WriterRaises
    BY <1>12 DEF WriterRaises, TypeStage, Stage, Drained, Draining, Sealing, NoItem
  <1>13. CASE HelperCloses
    BY <1>13 DEF HelperCloses, TypeStage, Stage, Drained, Draining, Sealing, NoItem
  <1>14. CASE HelperEnds
    BY <1>14 DEF HelperEnds, TypeStage, Stage, Drained, Draining, Sealing, NoItem
  <1>15. CASE HelperFails
    BY <1>15 DEF HelperFails, TypeStage, Stage, Drained, Draining, Sealing, NoItem
  <1>16. CASE HelperHangs
    BY <1>16 DEF HelperHangs, TypeStage, Stage, Drained, Draining, Sealing, NoItem
  <1>17. CASE ReaderReads
    BY <1>17 DEF ReaderReads, TypeStage, Stage, Drained, Draining, Sealing, NoItem
  <1>18. CASE HarvesterFails
    BY <1>18 DEF HarvesterFails, TypeStage, Stage, Drained, Draining, Sealing, NoItem
  <1>19. CASE StopBegins
    BY <1>19 DEF StopBegins, TypeStage, Stage, Drained, Draining, Sealing, NoItem
  <1>20. CASE FailBegins
    BY <1>20 DEF FailBegins, TypeStage, Stage, Drained, Draining, Sealing, NoItem
  <1>21. CASE MarkFinalizing
    BY <1>21 DEF MarkFinalizing, TypeStage, Stage, Drained, Draining, Sealing, NoItem
  <1>22. CASE DrainBegins
    BY <1>22 DEF DrainBegins, TypeStage, Stage, Drained, Draining, Sealing, NoItem
  <1>23. CASE PutStop
    BY <1>23 DEF PutStop, TypeStage, Stage, Drained, Draining, Sealing, NoItem
  <1>24. CASE JoinTimesOut
    BY <1>24 DEF JoinTimesOut, TypeStage, Stage, Drained, Draining, Sealing, NoItem
  <1>25. CASE Joined
    BY <1>25 DEF Joined, TypeStage, Stage, Drained, Draining, Sealing, NoItem
  <1>26. CASE SyncFiles
    BY <1>26 DEF SyncFiles, TypeStage, Stage, Drained, Draining, Sealing, NoItem
  <1>27. CASE EndInput
    BY <1>27 DEF EndInput, TypeStage, Stage, Drained, Draining, Sealing, NoItem
  <1>28. CASE WaitEncoder
    BY <1>28 DEF WaitEncoder, TypeStage, Stage, Drained, Draining, Sealing, NoItem
  <1>29. CASE FinishEncoder
    BY <1>29 DEF FinishEncoder, TypeStage, Stage, Drained, Draining, Sealing, NoItem
  <1>30. CASE PublishTake
    BY <1>30 DEF PublishTake, TypeStage, Stage, Drained, Draining, Sealing, NoItem
  <1>31. CASE AbandonTake
    BY <1>31 DEF AbandonTake, TypeStage, Stage, Drained, Draining, Sealing, NoItem
  <1>32. CASE UNCHANGED recVars
    BY <1>32 DEF recVars, TypeStage, Stage, Drained, Draining, Sealing, NoItem
  <1> QED
    BY <1>1, <1>2, <1>3, <1>4, <1>5, <1>6, <1>7, <1>8, <1>9, <1>10, <1>11, <1>12, <1>13,
       <1>14, <1>15, <1>16, <1>17, <1>18, <1>19, <1>20, <1>21, <1>22, <1>23, <1>24, <1>25,
       <1>26, <1>27, <1>28, <1>29, <1>30, <1>31, <1>32 DEF RecNext, WriterNext,
           HelperNext, CloserNext

\* The writer is waited for before anything it writes to is given up.
LEMMA DrainedStep ==
    ASSUME TypeStage, TypeItems, TypeHelper, Stage, Drained, StopIsLast, [RecNext]_recVars
    PROVE  Drained'
  <1> USE RecorderAssumption DEF StartKeeps, SubmitKeeps, WriterKeeps, EncoderKeeps,
      WriterTo, HelperKeeps, CloserKeeps,
          CloserTo, Raises, Fault, Process, Available, QueuePut, Dropped, Written, PipeBroken,
          Spawned, Killed, submitVars, writerVars, closerVars, encoderVars, stateVars
  <1>1. CASE StartRecorder
    BY <1>1 DEF StartRecorder, TypeStage, TypeHelper, Stage, Drained, Draining, Sealing,
       NoItem, Owned
  <1>2. CASE StartRecorderFails
    BY <1>2 DEF StartRecorderFails, TypeStage, TypeHelper, Stage, Drained, Draining,
       Sealing, NoItem, Owned
  <1>3. ASSUME NEW k \in Kinds, Submit(k) PROVE Drained'
    BY <1>3 DEF Submit, TypeStage, TypeHelper, Stage, Drained, Draining, Sealing, NoItem,
       Owned
  <1>4. CASE PutItem
    BY <1>4 DEF PutItem, TypeStage, TypeHelper, Stage, Drained, Draining, Sealing, NoItem,
       Owned
  <1>5. CASE PutTimesOut
    BY <1>5 DEF PutTimesOut, TypeStage, TypeHelper, Stage, Drained, Draining, Sealing,
       NoItem, Owned
  <1>6. CASE WriterGets
    <2>1. recQueue \in Seq(Items) /\ recQueue # <<>> /\ recQueue' = Tail(recQueue)
      BY <1>6 DEF WriterGets, TypeItems, Items
    <2>2. /\ Len(recQueue) \in Nat \ {0} /\ Len(recQueue') = Len(recQueue) - 1
          /\ Head(recQueue) = recQueue[1] /\ Head(recQueue) \in Items
          /\ \A i \in 1..Len(recQueue') : recQueue'[i] = recQueue[i + 1]
      BY <2>1, Taken
    <2>3. writerAt' = "ended" => recQueue[1] = StopItem
      BY <1>6, <2>2 DEF WriterGets
    <2>4. writerAt' = "ended" => closer \in {"join", "rejoin"}
      BY <2>2, <2>3 DEF StopIsLast
    <2>5. UNCHANGED <<closer, recState, owned, recError>>
      BY <1>6 DEF WriterGets
    <2>6. writerAt' \in {writerAt, "ended", "encode", "index"} /\ writerAt = "get"
      BY <1>6 DEF WriterGets
    <2> QED BY <2>4, <2>5, <2>6 DEF Drained, Draining
  <1>7. CASE WriterEncodes
    BY <1>7 DEF WriterEncodes, TypeStage, TypeHelper, Stage, Drained, Draining, Sealing,
       NoItem, Owned
  <1>8. CASE WriterIndexes
    BY <1>8 DEF WriterIndexes, TypeStage, TypeHelper, Stage, Drained, Draining, Sealing,
       NoItem, Owned
  <1>9. CASE CheckpointSkips
    BY <1>9 DEF CheckpointSkips, TypeStage, TypeHelper, Stage, Drained, Draining, Sealing,
       NoItem, Owned
  <1>10. CASE CheckpointWrites
    BY <1>10 DEF CheckpointWrites, TypeStage, TypeHelper, Stage, Drained, Draining,
       Sealing, NoItem, Owned
  <1>11. CASE CheckpointPublishes
    BY <1>11 DEF CheckpointPublishes, TypeStage, TypeHelper, Stage, Drained, Draining,
       Sealing, NoItem, Owned
  <1>12. CASE WriterRaises
    BY <1>12 DEF WriterRaises, TypeStage, TypeHelper, Stage, Drained, Draining, Sealing,
       NoItem, Owned
  <1>13. CASE HelperCloses
    BY <1>13 DEF HelperCloses, TypeStage, TypeHelper, Stage, Drained, Draining, Sealing,
       NoItem, Owned
  <1>14. CASE HelperEnds
    BY <1>14 DEF HelperEnds, TypeStage, TypeHelper, Stage, Drained, Draining, Sealing,
       NoItem, Owned
  <1>15. CASE HelperFails
    BY <1>15 DEF HelperFails, TypeStage, TypeHelper, Stage, Drained, Draining, Sealing,
       NoItem, Owned
  <1>16. CASE HelperHangs
    BY <1>16 DEF HelperHangs, TypeStage, TypeHelper, Stage, Drained, Draining, Sealing,
       NoItem, Owned
  <1>17. CASE ReaderReads
    BY <1>17 DEF ReaderReads, TypeStage, TypeHelper, Stage, Drained, Draining, Sealing,
       NoItem, Owned
  <1>18. CASE HarvesterFails
    BY <1>18 DEF HarvesterFails, TypeStage, TypeHelper, Stage, Drained, Draining, Sealing,
       NoItem, Owned
  <1>19. CASE StopBegins
    BY <1>19 DEF StopBegins, TypeStage, TypeHelper, Stage, Drained, Draining, Sealing,
       NoItem, Owned
  <1>20. CASE FailBegins
    BY <1>20 DEF FailBegins, TypeStage, TypeHelper, Stage, Drained, Draining, Sealing,
       NoItem, Owned
  <1>21. CASE MarkFinalizing
    BY <1>21 DEF MarkFinalizing, TypeStage, TypeHelper, Stage, Drained, Draining, Sealing,
       NoItem, Owned
  <1>22. CASE DrainBegins
    BY <1>22 DEF DrainBegins, TypeStage, TypeHelper, Stage, Drained, Draining, Sealing,
       NoItem, Owned
  <1>23. CASE PutStop
    BY <1>23 DEF PutStop, TypeStage, TypeHelper, Stage, Drained, Draining, Sealing,
       NoItem, Owned
  <1>24. CASE JoinTimesOut
    BY <1>24 DEF JoinTimesOut, TypeStage, TypeHelper, Stage, Drained, Draining, Sealing,
       NoItem, Owned
  <1>25. CASE Joined
    BY <1>25 DEF Joined, TypeStage, TypeHelper, Stage, Drained, Draining, Sealing, NoItem,
       Owned
  <1>26. CASE SyncFiles
    BY <1>26 DEF SyncFiles, TypeStage, TypeHelper, Stage, Drained, Draining, Sealing,
       NoItem, Owned
  <1>27. CASE EndInput
    BY <1>27 DEF EndInput, TypeStage, TypeHelper, Stage, Drained, Draining, Sealing,
       NoItem, Owned
  <1>28. CASE WaitEncoder
    BY <1>28 DEF WaitEncoder, TypeStage, TypeHelper, Stage, Drained, Draining, Sealing,
       NoItem, Owned
  <1>29. CASE FinishEncoder
    BY <1>29 DEF FinishEncoder, TypeStage, TypeHelper, Stage, Drained, Draining, Sealing,
       NoItem, Owned
  <1>30. CASE PublishTake
    BY <1>30 DEF PublishTake, TypeStage, TypeHelper, Stage, Drained, Draining, Sealing,
       NoItem, Owned
  <1>31. CASE AbandonTake
    BY <1>31 DEF AbandonTake, TypeStage, TypeHelper, Stage, Drained, Draining, Sealing,
       NoItem, Owned
  <1>32. CASE UNCHANGED recVars
    BY <1>32 DEF recVars, TypeStage, TypeHelper, Stage, Drained, Draining, Sealing,
        NoItem, Owned
  <1> QED
    BY <1>1, <1>2, <1>3, <1>4, <1>5, <1>6, <1>7, <1>8, <1>9, <1>10, <1>11, <1>12, <1>13,
       <1>14, <1>15, <1>16, <1>17, <1>18, <1>19, <1>20, <1>21, <1>22, <1>23, <1>24, <1>25,
       <1>26, <1>27, <1>28, <1>29, <1>30, <1>31, <1>32 DEF RecNext, WriterNext,
           HelperNext, CloserNext

\* Nothing is put into the queue behind the stop.
LEMMA StopIsLastStep ==
    ASSUME TypeStage, TypeItems, Stage, Drained, StopIsLast, [RecNext]_recVars
    PROVE  StopIsLast'
  <1> USE RecorderAssumption DEF StartKeeps, SubmitKeeps, WriterKeeps, EncoderKeeps,
      WriterTo, HelperKeeps, CloserKeeps,
          CloserTo, Raises, Fault, Process, Available, QueuePut, Dropped, Written, PipeBroken,
          Spawned, Killed, submitVars, writerVars, closerVars, encoderVars, stateVars
  <1>1. CASE StartRecorder
    BY <1>1 DEF StartRecorder, TypeStage, TypeItems, Stage, Drained, Draining, StopIsLast,
       NoItem, StopItem, Kinds
  <1>2. CASE StartRecorderFails
    BY <1>2 DEF StartRecorderFails, TypeStage, TypeItems, Stage, Drained, Draining,
       StopIsLast, NoItem, StopItem, Kinds
  <1>3. ASSUME NEW k \in Kinds, Submit(k) PROVE StopIsLast'
    BY <1>3 DEF Submit, TypeStage, TypeItems, Stage, Drained, Draining, StopIsLast,
       NoItem, StopItem, Kinds
  <1>4. CASE PutItem
    <2>1. recQueue \in Seq(Items) /\ offer \in Items /\ recQueue' = Append(recQueue, offer)
      BY <1>4 DEF PutItem, TypeItems, Items, NoItem, StopItem
    <2>2. /\ Len(recQueue) \in Nat /\ Len(recQueue') = Len(recQueue) + 1
          /\ \A i \in 1..Len(recQueue) : recQueue'[i] = recQueue[i]
          /\ recQueue'[Len(recQueue) + 1] = offer
      BY <2>1, Appended
    <2>3. closer = "open" /\ writerAt # "ended" /\ offer # StopItem
      BY <1>4 DEF PutItem, Stage, Drained, TypeItems, Kinds, NoItem, StopItem
    <2>4. \A i \in 1..Len(recQueue) : recQueue[i] # StopItem
      BY <2>3 DEF StopIsLast
    <2>5. \A i \in 1..Len(recQueue') : recQueue'[i] # StopItem
      <3> SUFFICES ASSUME NEW i \in 1..Len(recQueue') PROVE recQueue'[i] # StopItem
        OBVIOUS
      <3>1. CASE i \in 1..Len(recQueue)
        BY <2>2, <2>4, <3>1
      <3>2. CASE i = Len(recQueue) + 1
        BY <2>2, <2>3, <3>2
      <3> QED BY <2>2, <3>1, <3>2
    <2>6. UNCHANGED <<writerAt, hand>>
      BY <1>4 DEF PutItem
    <2> QED BY <2>3, <2>5, <2>6 DEF StopIsLast
  <1>5. CASE PutTimesOut
    BY <1>5 DEF PutTimesOut, TypeStage, TypeItems, Stage, Drained, Draining, StopIsLast,
       NoItem, StopItem, Kinds
  <1>6. CASE WriterGets
    <2>1. recQueue \in Seq(Items) /\ recQueue # <<>> /\ recQueue' = Tail(recQueue)
      BY <1>6 DEF WriterGets, TypeItems, Items
    <2>2. /\ Len(recQueue) \in Nat \ {0} /\ Len(recQueue') = Len(recQueue) - 1
          /\ Head(recQueue) = recQueue[1] /\ Head(recQueue) \in Items
          /\ \A i \in 1..Len(recQueue') : recQueue'[i] = recQueue[i + 1]
      BY <2>1, Taken
    <2>3. closer' = closer
      BY <1>6 DEF WriterGets
    <2>4. \A i \in 1..Len(recQueue') :
             recQueue'[i] = StopItem => i = Len(recQueue') /\ closer' \in {"join", "rejoin"}
      BY <2>2, <2>3 DEF StopIsLast
    <2>5. CASE Head(recQueue) = StopItem
      <3>1. Len(recQueue) = 1
        BY <2>2, <2>5 DEF StopIsLast
      <3>2. recQueue' = <<>>
        BY <2>1, <2>2, <3>1
      <3> QED BY <1>6, <2>4, <2>5, <3>2 DEF WriterGets, StopIsLast
    <2>6. CASE Head(recQueue) # StopItem
      <3>1. Head(recQueue) # NoItem
        BY <2>2, <2>6 DEF Items, Kinds, NoItem
      <3> QED BY <1>6, <2>4, <2>6, <3>1 DEF WriterGets, StopIsLast
    <2> QED BY <2>5, <2>6
  <1>7. CASE WriterEncodes
    BY <1>7 DEF WriterEncodes, TypeStage, TypeItems, Stage, Drained, Draining, StopIsLast,
       NoItem, StopItem, Kinds
  <1>8. CASE WriterIndexes
    BY <1>8 DEF WriterIndexes, TypeStage, TypeItems, Stage, Drained, Draining, StopIsLast,
       NoItem, StopItem, Kinds
  <1>9. CASE CheckpointSkips
    BY <1>9 DEF CheckpointSkips, TypeStage, TypeItems, Stage, Drained, Draining,
       StopIsLast, NoItem, StopItem, Kinds
  <1>10. CASE CheckpointWrites
    BY <1>10 DEF CheckpointWrites, TypeStage, TypeItems, Stage, Drained, Draining,
       StopIsLast, NoItem, StopItem, Kinds
  <1>11. CASE CheckpointPublishes
    BY <1>11 DEF CheckpointPublishes, TypeStage, TypeItems, Stage, Drained, Draining,
       StopIsLast, NoItem, StopItem, Kinds
  <1>12. CASE WriterRaises
    BY <1>12 DEF WriterRaises, TypeStage, TypeItems, Stage, Drained, Draining, StopIsLast,
       NoItem, StopItem, Kinds
  <1>13. CASE HelperCloses
    BY <1>13 DEF HelperCloses, TypeStage, TypeItems, Stage, Drained, Draining, StopIsLast,
       NoItem, StopItem, Kinds
  <1>14. CASE HelperEnds
    BY <1>14 DEF HelperEnds, TypeStage, TypeItems, Stage, Drained, Draining, StopIsLast,
       NoItem, StopItem, Kinds
  <1>15. CASE HelperFails
    BY <1>15 DEF HelperFails, TypeStage, TypeItems, Stage, Drained, Draining, StopIsLast,
       NoItem, StopItem, Kinds
  <1>16. CASE HelperHangs
    BY <1>16 DEF HelperHangs, TypeStage, TypeItems, Stage, Drained, Draining, StopIsLast,
       NoItem, StopItem, Kinds
  <1>17. CASE ReaderReads
    BY <1>17 DEF ReaderReads, TypeStage, TypeItems, Stage, Drained, Draining, StopIsLast,
       NoItem, StopItem, Kinds
  <1>18. CASE HarvesterFails
    BY <1>18 DEF HarvesterFails, TypeStage, TypeItems, Stage, Drained, Draining,
       StopIsLast, NoItem, StopItem, Kinds
  <1>19. CASE StopBegins
    BY <1>19 DEF StopBegins, TypeStage, TypeItems, Stage, Drained, Draining, StopIsLast,
       NoItem, StopItem, Kinds
  <1>20. CASE FailBegins
    BY <1>20 DEF FailBegins, TypeStage, TypeItems, Stage, Drained, Draining, StopIsLast,
       NoItem, StopItem, Kinds
  <1>21. CASE MarkFinalizing
    BY <1>21 DEF MarkFinalizing, TypeStage, TypeItems, Stage, Drained, Draining,
       StopIsLast, NoItem, StopItem, Kinds
  <1>22. CASE DrainBegins
    BY <1>22 DEF DrainBegins, TypeStage, TypeItems, Stage, Drained, Draining, StopIsLast,
       NoItem, StopItem, Kinds
  <1>23. CASE PutStop
    <2>1. recQueue \in Seq(Items) /\ StopItem \in Items /\ recQueue' = Append(recQueue, StopItem)
      BY <1>23 DEF PutStop, TypeItems, Items, NoItem, StopItem
    <2>2. /\ Len(recQueue) \in Nat /\ Len(recQueue') = Len(recQueue) + 1
          /\ \A i \in 1..Len(recQueue) : recQueue'[i] = recQueue[i]
          /\ recQueue'[Len(recQueue) + 1] = StopItem
      BY <2>1, Appended
    <2>3. closer = "put" /\ closer' = "join" /\ writerAt # "ended"
      BY <1>23 DEF PutStop, Drained
    <2>4. \A i \in 1..Len(recQueue) : recQueue[i] # StopItem
      BY <2>3 DEF StopIsLast
    <2>5. \A i \in 1..Len(recQueue') : recQueue'[i] = StopItem => i = Len(recQueue')
      BY <2>2, <2>4
    <2>6. UNCHANGED <<writerAt, hand>>
      BY <1>23 DEF PutStop
    <2> QED BY <2>3, <2>5, <2>6 DEF StopIsLast
  <1>24. CASE JoinTimesOut
    BY <1>24 DEF JoinTimesOut, TypeStage, TypeItems, Stage, Drained, Draining, StopIsLast,
       NoItem, StopItem, Kinds
  <1>25. CASE Joined
    <2>1. recQueue = <<>> /\ UNCHANGED <<recQueue, writerAt, hand>>
      BY <1>25 DEF Joined, StopIsLast
    <2>2. Len(recQueue') = 0
      BY <2>1
    <2> QED BY <2>1, <2>2 DEF StopIsLast
  <1>26. CASE SyncFiles
    BY <1>26 DEF SyncFiles, TypeStage, TypeItems, Stage, Drained, Draining, StopIsLast,
       NoItem, StopItem, Kinds
  <1>27. CASE EndInput
    BY <1>27 DEF EndInput, TypeStage, TypeItems, Stage, Drained, Draining, StopIsLast,
       NoItem, StopItem, Kinds
  <1>28. CASE WaitEncoder
    BY <1>28 DEF WaitEncoder, TypeStage, TypeItems, Stage, Drained, Draining, StopIsLast,
       NoItem, StopItem, Kinds
  <1>29. CASE FinishEncoder
    BY <1>29 DEF FinishEncoder, TypeStage, TypeItems, Stage, Drained, Draining,
       StopIsLast, NoItem, StopItem, Kinds
  <1>30. CASE PublishTake
    BY <1>30 DEF PublishTake, TypeStage, TypeItems, Stage, Drained, Draining, StopIsLast,
       NoItem, StopItem, Kinds
  <1>31. CASE AbandonTake
    BY <1>31 DEF AbandonTake, TypeStage, TypeItems, Stage, Drained, Draining, StopIsLast,
       NoItem, StopItem, Kinds
  <1>32. CASE UNCHANGED recVars
    BY <1>32 DEF recVars, TypeStage, TypeItems, Stage, Drained, Draining, StopIsLast,
        NoItem, StopItem, Kinds
  <1> QED
    BY <1>1, <1>2, <1>3, <1>4, <1>5, <1>6, <1>7, <1>8, <1>9, <1>10, <1>11, <1>12, <1>13,
       <1>14, <1>15, <1>16, <1>17, <1>18, <1>19, <1>20, <1>21, <1>22, <1>23, <1>24, <1>25,
       <1>26, <1>27, <1>28, <1>29, <1>30, <1>31, <1>32 DEF RecNext, WriterNext,
           HelperNext, CloserNext

\* Submits, the queue and the writer keep the order of each kind.
LEMMA OrderedStep ==
    ASSUME TypeItems, StopIsLast, Ordered, [RecNext]_recVars
    PROVE  Ordered'
  <1> USE RecorderAssumption DEF StartKeeps, SubmitKeeps, WriterKeeps, EncoderKeeps,
      WriterTo, HelperKeeps, CloserKeeps,
          CloserTo, Raises, Fault, Process, Available, QueuePut, Dropped, Written, PipeBroken,
          Spawned, Killed, submitVars, writerVars, closerVars, encoderVars, stateVars
  <1>1. CASE StartRecorder
    BY <1>1 DEF StartRecorder, TypeItems, StopIsLast, Ordered, JournalOrdered,
       HandOrdered, QueueOrdered, OfferOrdered, Numbered, Precedes, NoItem, StopItem,
       Kinds
  <1>2. CASE StartRecorderFails
    BY <1>2 DEF StartRecorderFails, TypeItems, StopIsLast, Ordered, JournalOrdered,
       HandOrdered, QueueOrdered, OfferOrdered, Numbered, Precedes, NoItem, StopItem,
       Kinds
  <1>3. ASSUME NEW k \in Kinds, Submit(k) PROVE Ordered'
    <2>1. /\ offer = NoItem /\ offer' = <<k, handed[k]>>
          /\ handed' = [handed EXCEPT ![k] = @ + 1] /\ UNCHANGED <<recQueue, hand, journal>>
      BY <1>3 DEF Submit
    <2>2. handed[k] < handed'[k] /\ \A l \in Kinds : handed[l] \in Nat /\ handed[l] <= handed'[l]
                                                   /\ handed'[l] \in Nat
      BY <2>1 DEF TypeItems
    <2>3. JournalOrdered'
      BY <2>1, <2>2, ItemParts DEF Ordered, JournalOrdered
    <2>4. HandOrdered'
      BY <2>1, <2>2, ItemParts DEF Ordered, HandOrdered, Numbered
    <2>5. QueueOrdered'
      <3> SUFFICES ASSUME NEW j \in 1..Len(recQueue), recQueue[j] # StopItem
                   PROVE  /\ Numbered(recQueue[j])' /\ Precedes(hand, recQueue[j])'
                          /\ \A i \in 1..(j - 1) : Precedes(recQueue[i], recQueue[j])'
        BY <2>1 DEF QueueOrdered
      <3>1. /\ Numbered(recQueue[j]) /\ Precedes(hand, recQueue[j])
            /\ \A i \in 1..(j - 1) : Precedes(recQueue[i], recQueue[j])
        BY DEF Ordered, QueueOrdered
      <3>2. Numbered(recQueue[j])'
        BY <2>1, <2>2, <3>1, ItemParts DEF Numbered
      <3> QED BY <2>1, <3>1, <3>2 DEF Precedes
    <2>6. OfferOrdered'
      <3>1. Numbered(offer)'
        BY <2>1, <2>2 DEF Ordered, JournalOrdered, Numbered
      <3>2. Precedes(hand, offer)'
        BY <2>1, <2>2 DEF Ordered, HandOrdered, Numbered, Precedes, NoItem, Kinds
      <3>3. \A i \in 1..Len(recQueue) : Precedes(recQueue[i], offer)'
        BY <2>1, <2>2 DEF Ordered, QueueOrdered, Numbered, Precedes, StopItem, Kinds
      <3> QED BY <2>1, <3>1, <3>2, <3>3 DEF OfferOrdered
    <2> QED BY <2>3, <2>4, <2>5, <2>6 DEF Ordered
  <1>4. CASE PutItem
    <2>1. recQueue \in Seq(Items) /\ offer \in Items /\ recQueue' = Append(recQueue, offer)
      BY <1>4 DEF PutItem, TypeItems, Items, NoItem, StopItem
    <2>2. /\ Len(recQueue) \in Nat /\ Len(recQueue') = Len(recQueue) + 1
          /\ \A i \in 1..Len(recQueue) : recQueue'[i] = recQueue[i]
          /\ recQueue'[Len(recQueue) + 1] = offer
      BY <2>1, Appended
    <2>3. offer # NoItem /\ offer' = NoItem /\ UNCHANGED <<handed, hand, journal>>
      BY <1>4 DEF PutItem
    <2>4. JournalOrdered' /\ HandOrdered' /\ OfferOrdered'
      BY <2>3 DEF Ordered, JournalOrdered, HandOrdered, OfferOrdered, Numbered
    <2>5. QueueOrdered'
      <3> SUFFICES ASSUME NEW j \in 1..Len(recQueue'), recQueue'[j] # StopItem
                   PROVE  /\ Numbered(recQueue[j])' /\ Precedes(hand, recQueue[j])'
                          /\ \A i \in 1..(j - 1) : Precedes(recQueue[i], recQueue[j])'
        BY DEF QueueOrdered
      <3>1. CASE j \in 1..Len(recQueue)
        <4>1. recQueue'[j] = recQueue[j] /\ \A i \in 1..(j - 1) : recQueue'[i] = recQueue[i]
          BY <2>2, <3>1
        <4> QED BY <2>3, <3>1, <4>1 DEF Ordered, QueueOrdered, Numbered, Precedes
      <3>2. CASE j = Len(recQueue) + 1
        <4>1. recQueue'[j] = offer /\ \A i \in 1..(j - 1) : recQueue'[i] = recQueue[i]
          BY <2>2, <3>2
        <4> QED BY <2>2, <2>3, <3>2, <4>1 DEF Ordered, OfferOrdered, Numbered, Precedes
      <3> QED BY <2>2, <3>1, <3>2
    <2> QED BY <2>4, <2>5 DEF Ordered
  <1>5. CASE PutTimesOut
    BY <1>5 DEF PutTimesOut, TypeItems, StopIsLast, Ordered, JournalOrdered, HandOrdered,
       QueueOrdered, OfferOrdered, Numbered, Precedes, NoItem, StopItem, Kinds
  <1>6. CASE WriterGets
    <2>1. recQueue \in Seq(Items) /\ recQueue # <<>> /\ recQueue' = Tail(recQueue)
      BY <1>6 DEF WriterGets, TypeItems, Items
    <2>2. /\ Len(recQueue) \in Nat \ {0} /\ Len(recQueue') = Len(recQueue) - 1
          /\ Head(recQueue) = recQueue[1] /\ Head(recQueue) \in Items
          /\ \A i \in 1..Len(recQueue') : recQueue'[i] = recQueue[i + 1]
      BY <2>1, Taken
    <2>3. /\ UNCHANGED <<handed, offer, journal>> /\ hand = NoItem
          /\ hand' = NoItem \/ (hand' = recQueue[1] /\ recQueue[1] # StopItem)
      BY <1>6, <2>2 DEF WriterGets, StopIsLast
    <2>4. JournalOrdered'
      BY <2>3 DEF Ordered, JournalOrdered
    <2>5. HandOrdered'
      BY <2>2, <2>3 DEF Ordered, HandOrdered, QueueOrdered, Numbered
    <2>6. QueueOrdered'
      <3> SUFFICES ASSUME NEW j \in 1..Len(recQueue'), recQueue'[j] # StopItem
                   PROVE  /\ Numbered(recQueue[j])' /\ Precedes(hand, recQueue[j])'
                          /\ \A i \in 1..(j - 1) : Precedes(recQueue[i], recQueue[j])'
        BY DEF QueueOrdered
      <3>1. /\ j + 1 \in 1..Len(recQueue) /\ recQueue'[j] = recQueue[j + 1]
            /\ 1 \in 1..((j + 1) - 1)
            /\ \A i \in 1..(j - 1) : i + 1 \in 1..((j + 1) - 1) /\ recQueue'[i] = recQueue[i + 1]
        BY <2>2
      <3>2. /\ Numbered(recQueue[j + 1])
            /\ \A i \in 1..((j + 1) - 1) : Precedes(recQueue[i], recQueue[j + 1])
        BY <3>1 DEF Ordered, QueueOrdered
      <3>3. Numbered(recQueue[j])'
        BY <2>3, <3>1, <3>2 DEF Numbered
      <3>4. Precedes(hand, recQueue[j])'
        <4>1. recQueue[j + 1][1] \in Kinds
          BY <3>1, ItemParts
        <4>2. CASE hand' = NoItem
          BY <3>1, <4>1, <4>2 DEF Precedes, NoItem, Kinds
        <4>3. CASE hand' = recQueue[1]
          BY <3>1, <3>2, <4>3 DEF Precedes
        <4> QED BY <2>3, <4>2, <4>3
      <3>5. \A i \in 1..(j - 1) : Precedes(recQueue[i], recQueue[j])'
        BY <3>1, <3>2 DEF Precedes
      <3> QED BY <3>3, <3>4, <3>5
    <2>7. OfferOrdered'
      <3> SUFFICES ASSUME offer # NoItem
                   PROVE  /\ Numbered(offer)' /\ Precedes(hand, offer)'
                          /\ \A i \in 1..Len(recQueue') : Precedes(recQueue[i], offer)'
        BY <2>3 DEF OfferOrdered
      <3>1. Numbered(offer) /\ \A i \in 1..Len(recQueue) : Precedes(recQueue[i], offer)
        BY DEF Ordered, OfferOrdered
      <3>2. Numbered(offer)'
        BY <2>3, <3>1 DEF Numbered
      <3>3. Precedes(hand, offer)'
        BY SMTT(20), <2>2, <2>3, <3>1, ItemParts DEF Precedes, NoItem, Kinds
      <3>4. \A i \in 1..Len(recQueue') : Precedes(recQueue[i], offer)'
        <4> SUFFICES ASSUME NEW i \in 1..Len(recQueue') PROVE Precedes(recQueue[i], offer)'
          OBVIOUS
        <4>1. i + 1 \in 1..Len(recQueue) /\ recQueue'[i] = recQueue[i + 1]
          BY <2>2
        <4> QED BY <2>3, <3>1, <4>1 DEF Precedes
      <3> QED BY <3>2, <3>3, <3>4
    <2> QED BY <2>4, <2>5, <2>6, <2>7 DEF Ordered
  <1>7. CASE WriterEncodes
    BY <1>7 DEF WriterEncodes, TypeItems, StopIsLast, Ordered, JournalOrdered,
       HandOrdered, QueueOrdered, OfferOrdered, Numbered, Precedes, NoItem, StopItem,
       Kinds
  <1>8. CASE WriterIndexes
    <2> DEFINE k == hand[1]
               n == hand[2]
    <2>1. /\ k \in Kinds /\ n \in Nat /\ hand = <<k, n>>
          /\ journal' = [journal EXCEPT ![k] = Append(journal[k], n)]
          /\ journal \in [Kinds -> Seq(Nat)]
      BY <1>8 DEF WriterIndexes, TypeItems, StopIsLast, NoItem
    <2> HIDE DEF k, n
    <2>a. /\ journal[k] \in Seq(Nat) /\ journal'[k] = Append(journal[k], n)
          /\ \A l \in Kinds \ {k} : journal'[l] = journal[l]
      BY <2>1
    <2>2. /\ Len(journal[k]) \in Nat /\ Len(journal'[k]) = Len(journal[k]) + 1
          /\ \A i \in 1..Len(journal[k]) : journal'[k][i] = journal[k][i] /\ journal[k][i] \in Nat
          /\ journal'[k][Len(journal[k]) + 1] = n
          /\ \A l \in Kinds \ {k} : journal'[l] = journal[l]
      BY <2>1, <2>a, Entered
    <2>3. hand' = NoItem /\ UNCHANGED <<handed, offer, recQueue>>
      BY <1>8 DEF WriterIndexes
    <2>4. /\ n < handed[k] /\ hand[1] = k /\ hand[2] = n /\ hand # NoItem
          /\ \A i \in 1..Len(journal[k]) : journal[k][i] < n
      BY <2>1 DEF Ordered, HandOrdered, Numbered, NoItem, Kinds
    <2>5. JournalOrdered' /\ HandOrdered'
      BY <2>1, <2>2, <2>3, <2>4 DEF Ordered, JournalOrdered, HandOrdered
    <2>6. ASSUME NEW item, item[1] \in Kinds, Numbered(item), Precedes(hand, item),
                 item[2] \in Nat
          PROVE  item[2] < handed[item[1]]
                 /\ \A i \in 1..Len(journal'[item[1]]) : journal'[item[1]][i] < item[2]
      <3>1. CASE item[1] = k
        BY <2>2, <2>4, <2>6, <3>1 DEF Numbered, Precedes
      <3>2. CASE item[1] # k
        BY <2>2, <2>6, <3>2 DEF Numbered
      <3> QED BY <3>1, <3>2
    <2>7. QueueOrdered'
      <3> SUFFICES ASSUME NEW j \in 1..Len(recQueue), recQueue[j] # StopItem
                   PROVE  /\ Numbered(recQueue[j])' /\ Precedes(hand, recQueue[j])'
                          /\ \A i \in 1..(j - 1) : Precedes(recQueue[i], recQueue[j])'
        BY <2>3 DEF QueueOrdered
      <3>1. recQueue[j][1] \in Kinds /\ recQueue[j][2] \in Nat
        BY ItemParts
      <3>2. /\ Numbered(recQueue[j]) /\ Precedes(hand, recQueue[j])
            /\ \A i \in 1..(j - 1) : Precedes(recQueue[i], recQueue[j])
        BY DEF Ordered, QueueOrdered
      <3>3. Numbered(recQueue[j])'
        BY <2>3, <2>6, <3>1, <3>2 DEF Numbered
      <3>4. Precedes(hand, recQueue[j])'
        BY <2>3, <3>1 DEF Precedes, NoItem, Kinds
      <3> QED BY <2>3, <3>2, <3>3, <3>4 DEF Precedes
    <2>8. OfferOrdered'
      <3> SUFFICES ASSUME offer # NoItem
                   PROVE  /\ Numbered(offer)' /\ Precedes(hand, offer)'
                          /\ \A i \in 1..Len(recQueue) : Precedes(recQueue[i], offer)'
        BY <2>3 DEF OfferOrdered
      <3>1. offer[1] \in Kinds /\ offer[2] \in Nat
        BY ItemParts
      <3>2. /\ Numbered(offer) /\ Precedes(hand, offer)
            /\ \A i \in 1..Len(recQueue) : Precedes(recQueue[i], offer)
        BY DEF Ordered, OfferOrdered
      <3>3. Numbered(offer)'
        BY <2>3, <2>6, <3>1, <3>2 DEF Numbered
      <3>4. Precedes(hand, offer)'
        BY <2>3, <3>1 DEF Precedes, NoItem, Kinds
      <3> QED BY <2>3, <3>2, <3>3, <3>4 DEF Precedes
    <2> QED BY <2>5, <2>7, <2>8 DEF Ordered
  <1>9. CASE CheckpointSkips
    BY <1>9 DEF CheckpointSkips, TypeItems, StopIsLast, Ordered, JournalOrdered,
       HandOrdered, QueueOrdered, OfferOrdered, Numbered, Precedes, NoItem, StopItem,
       Kinds
  <1>10. CASE CheckpointWrites
    BY <1>10 DEF CheckpointWrites, TypeItems, StopIsLast, Ordered, JournalOrdered,
       HandOrdered, QueueOrdered, OfferOrdered, Numbered, Precedes, NoItem, StopItem,
       Kinds
  <1>11. CASE CheckpointPublishes
    BY <1>11 DEF CheckpointPublishes, TypeItems, StopIsLast, Ordered, JournalOrdered,
       HandOrdered, QueueOrdered, OfferOrdered, Numbered, Precedes, NoItem, StopItem,
       Kinds
  <1>12. CASE WriterRaises
    <2>1. UNCHANGED <<handed, offer, recQueue, journal>> /\ hand' = NoItem
      BY <1>12 DEF WriterRaises
    <2>2. JournalOrdered' /\ HandOrdered'
      BY <2>1 DEF Ordered, JournalOrdered, HandOrdered
    <2>3. \A j \in 1..Len(recQueue) : recQueue[j] # StopItem => Precedes(hand, recQueue[j])'
      BY <2>1, ItemParts DEF Precedes, NoItem, Kinds
    <2>4. offer # NoItem => Precedes(hand, offer)'
      BY <2>1, ItemParts DEF Precedes, NoItem, Kinds
    <2>5. QueueOrdered'
      BY <2>1, <2>3 DEF Ordered, QueueOrdered, Numbered, Precedes
    <2>6. OfferOrdered'
      BY <2>1, <2>4 DEF Ordered, OfferOrdered, Numbered, Precedes
    <2> QED BY <2>2, <2>5, <2>6 DEF Ordered
  <1>13. CASE HelperCloses
    BY <1>13 DEF HelperCloses, TypeItems, StopIsLast, Ordered, JournalOrdered,
       HandOrdered, QueueOrdered, OfferOrdered, Numbered, Precedes, NoItem, StopItem,
       Kinds
  <1>14. CASE HelperEnds
    BY <1>14 DEF HelperEnds, TypeItems, StopIsLast, Ordered, JournalOrdered, HandOrdered,
       QueueOrdered, OfferOrdered, Numbered, Precedes, NoItem, StopItem, Kinds
  <1>15. CASE HelperFails
    BY <1>15 DEF HelperFails, TypeItems, StopIsLast, Ordered, JournalOrdered, HandOrdered,
       QueueOrdered, OfferOrdered, Numbered, Precedes, NoItem, StopItem, Kinds
  <1>16. CASE HelperHangs
    BY <1>16 DEF HelperHangs, TypeItems, StopIsLast, Ordered, JournalOrdered, HandOrdered,
       QueueOrdered, OfferOrdered, Numbered, Precedes, NoItem, StopItem, Kinds
  <1>17. CASE ReaderReads
    BY <1>17 DEF ReaderReads, TypeItems, StopIsLast, Ordered, JournalOrdered, HandOrdered,
       QueueOrdered, OfferOrdered, Numbered, Precedes, NoItem, StopItem, Kinds
  <1>18. CASE HarvesterFails
    BY <1>18 DEF HarvesterFails, TypeItems, StopIsLast, Ordered, JournalOrdered,
       HandOrdered, QueueOrdered, OfferOrdered, Numbered, Precedes, NoItem, StopItem,
       Kinds
  <1>19. CASE StopBegins
    BY <1>19 DEF StopBegins, TypeItems, StopIsLast, Ordered, JournalOrdered, HandOrdered,
       QueueOrdered, OfferOrdered, Numbered, Precedes, NoItem, StopItem, Kinds
  <1>20. CASE FailBegins
    BY <1>20 DEF FailBegins, TypeItems, StopIsLast, Ordered, JournalOrdered, HandOrdered,
       QueueOrdered, OfferOrdered, Numbered, Precedes, NoItem, StopItem, Kinds
  <1>21. CASE MarkFinalizing
    BY <1>21 DEF MarkFinalizing, TypeItems, StopIsLast, Ordered, JournalOrdered,
       HandOrdered, QueueOrdered, OfferOrdered, Numbered, Precedes, NoItem, StopItem,
       Kinds
  <1>22. CASE DrainBegins
    BY <1>22 DEF DrainBegins, TypeItems, StopIsLast, Ordered, JournalOrdered, HandOrdered,
       QueueOrdered, OfferOrdered, Numbered, Precedes, NoItem, StopItem, Kinds
  <1>23. CASE PutStop
    <2>1. recQueue \in Seq(Items) /\ StopItem \in Items /\ recQueue' = Append(recQueue, StopItem)
      BY <1>23 DEF PutStop, TypeItems, Items, NoItem, StopItem
    <2>2. /\ Len(recQueue) \in Nat /\ Len(recQueue') = Len(recQueue) + 1
          /\ \A i \in 1..Len(recQueue) : recQueue'[i] = recQueue[i]
          /\ recQueue'[Len(recQueue) + 1] = StopItem
      BY <2>1, Appended
    <2>3. UNCHANGED <<handed, hand, journal, offer>>
      BY <1>23 DEF PutStop
    <2>4. JournalOrdered' /\ HandOrdered'
      BY <2>3 DEF Ordered, JournalOrdered, HandOrdered, Numbered
    <2>5. QueueOrdered'
      <3> SUFFICES ASSUME NEW j \in 1..Len(recQueue'), recQueue'[j] # StopItem
                   PROVE  /\ Numbered(recQueue[j])' /\ Precedes(hand, recQueue[j])'
                          /\ \A i \in 1..(j - 1) : Precedes(recQueue[i], recQueue[j])'
        BY DEF QueueOrdered
      <3>1. j \in 1..Len(recQueue)
        BY <2>2
      <3>2. recQueue'[j] = recQueue[j] /\ \A i \in 1..(j - 1) : recQueue'[i] = recQueue[i]
        BY <2>2, <3>1
      <3> QED BY <2>3, <3>1, <3>2 DEF Ordered, QueueOrdered, Numbered, Precedes
    <2>6. OfferOrdered'
      <3> SUFFICES ASSUME offer # NoItem, NEW i \in 1..Len(recQueue')
                   PROVE  Precedes(recQueue[i], offer)'
        BY <2>3 DEF Ordered, OfferOrdered, Numbered, Precedes
      <3>1. CASE i \in 1..Len(recQueue)
        BY <2>2, <2>3, <3>1 DEF Ordered, OfferOrdered, Precedes
      <3>2. CASE i = Len(recQueue) + 1
        BY <2>2, <2>3, <3>2, ItemParts DEF Precedes, StopItem, Kinds
      <3> QED BY <2>2, <3>1, <3>2
    <2> QED BY <2>4, <2>5, <2>6 DEF Ordered
  <1>24. CASE JoinTimesOut
    BY <1>24 DEF JoinTimesOut, TypeItems, StopIsLast, Ordered, JournalOrdered,
       HandOrdered, QueueOrdered, OfferOrdered, Numbered, Precedes, NoItem, StopItem,
       Kinds
  <1>25. CASE Joined
    BY <1>25 DEF Joined, TypeItems, StopIsLast, Ordered, JournalOrdered, HandOrdered,
       QueueOrdered, OfferOrdered, Numbered, Precedes, NoItem, StopItem, Kinds
  <1>26. CASE SyncFiles
    BY <1>26 DEF SyncFiles, TypeItems, StopIsLast, Ordered, JournalOrdered, HandOrdered,
       QueueOrdered, OfferOrdered, Numbered, Precedes, NoItem, StopItem, Kinds
  <1>27. CASE EndInput
    BY <1>27 DEF EndInput, TypeItems, StopIsLast, Ordered, JournalOrdered, HandOrdered,
       QueueOrdered, OfferOrdered, Numbered, Precedes, NoItem, StopItem, Kinds
  <1>28. CASE WaitEncoder
    BY <1>28 DEF WaitEncoder, TypeItems, StopIsLast, Ordered, JournalOrdered, HandOrdered,
       QueueOrdered, OfferOrdered, Numbered, Precedes, NoItem, StopItem, Kinds
  <1>29. CASE FinishEncoder
    BY <1>29 DEF FinishEncoder, TypeItems, StopIsLast, Ordered, JournalOrdered,
       HandOrdered, QueueOrdered, OfferOrdered, Numbered, Precedes, NoItem, StopItem,
       Kinds
  <1>30. CASE PublishTake
    BY <1>30 DEF PublishTake, TypeItems, StopIsLast, Ordered, JournalOrdered, HandOrdered,
       QueueOrdered, OfferOrdered, Numbered, Precedes, NoItem, StopItem, Kinds
  <1>31. CASE AbandonTake
    BY <1>31 DEF AbandonTake, TypeItems, StopIsLast, Ordered, JournalOrdered, HandOrdered,
       QueueOrdered, OfferOrdered, Numbered, Precedes, NoItem, StopItem, Kinds
  <1>32. CASE UNCHANGED recVars
    BY <1>32 DEF recVars, TypeItems, StopIsLast, Ordered, JournalOrdered, HandOrdered,
        QueueOrdered, OfferOrdered, Numbered, Precedes, NoItem, StopItem, Kinds
  <1> QED
    BY <1>1, <1>2, <1>3, <1>4, <1>5, <1>6, <1>7, <1>8, <1>9, <1>10, <1>11, <1>12, <1>13,
       <1>14, <1>15, <1>16, <1>17, <1>18, <1>19, <1>20, <1>21, <1>22, <1>23, <1>24, <1>25,
       <1>26, <1>27, <1>28, <1>29, <1>30, <1>31, <1>32 DEF RecNext, WriterNext,
           HelperNext, CloserNext

\* No step loses an item without a drop or an error.
LEMMA AccountedStep ==
    ASSUME TypeItems, StopIsLast, AllAccounted, [RecNext]_recVars
    PROVE  AllAccounted'
  <1> USE RecorderAssumption DEF StartKeeps, SubmitKeeps, WriterKeeps, EncoderKeeps,
      WriterTo, HelperKeeps, CloserKeeps,
          CloserTo, Raises, Fault, Process, Available, QueuePut, Dropped, Written, PipeBroken,
          Spawned, Killed, submitVars, writerVars, closerVars, encoderVars, stateVars
  <1>1. CASE StartRecorder
    BY <1>1 DEF StartRecorder, TypeItems, StopIsLast, AllAccounted, NoItem, StopItem,
       Kinds
  <1>2. CASE StartRecorderFails
    BY <1>2 DEF StartRecorderFails, TypeItems, StopIsLast, AllAccounted, NoItem, StopItem,
       Kinds
  <1>3. ASSUME NEW k \in Kinds, Submit(k) PROVE AllAccounted'
    <2> SUFFICES ASSUME NEW l \in Kinds, NEW n \in 0..(handed'[l] - 1), ~recError'
                 PROVE  \/ \E i \in 1..Len(journal'[l]) : journal'[l][i] = n
                        \/ hand' = <<l, n>> \/ offer' = <<l, n>>
                        \/ \E i \in 1..Len(recQueue') : recQueue'[i] = <<l, n>>
                        \/ l = "frame" /\ n \in dropped'
      BY DEF AllAccounted
    <2> QED
      <3>1. CASE l = k /\ n = handed[k]
        BY <1>3, <3>1 DEF Submit, TypeItems, StopIsLast, AllAccounted, NoItem, StopItem,
            Kinds
      <3>2. CASE ~(l = k /\ n = handed[k])
        <4>1. n \in 0..(handed[l] - 1) /\ ~recError
          BY <1>3, <3>2 DEF Submit, TypeItems, StopIsLast, AllAccounted, NoItem, StopItem,
              Kinds
        <4>2. offer # <<l, n>>
          BY <1>3 DEF Submit, TypeItems, StopIsLast, AllAccounted, NoItem, StopItem, Kinds
        <4> QED BY <1>3, <4>1, <4>2 DEF Submit, TypeItems, StopIsLast, AllAccounted,
            NoItem, StopItem, Kinds
      <3> QED BY <3>1, <3>2
  <1>4. CASE PutItem
    <2>1. recQueue \in Seq(Items) /\ offer \in Items /\ recQueue' = Append(recQueue, offer)
      BY <1>4 DEF PutItem, TypeItems, Items, NoItem, StopItem
    <2>2. /\ Len(recQueue) \in Nat /\ Len(recQueue') = Len(recQueue) + 1
          /\ \A i \in 1..Len(recQueue) : recQueue'[i] = recQueue[i]
          /\ recQueue'[Len(recQueue) + 1] = offer
      BY <2>1, Appended
    <2> SUFFICES ASSUME NEW l \in Kinds, NEW n \in 0..(handed'[l] - 1), ~recError'
                 PROVE  \/ \E i \in 1..Len(journal'[l]) : journal'[l][i] = n
                        \/ hand' = <<l, n>> \/ offer' = <<l, n>>
                        \/ \E i \in 1..Len(recQueue') : recQueue'[i] = <<l, n>>
                        \/ l = "frame" /\ n \in dropped'
      BY DEF AllAccounted
    <2> QED
      <3>1. n \in 0..(handed[l] - 1) /\ ~recError
        BY <1>4 DEF PutItem, TypeItems, StopIsLast, AllAccounted, NoItem, StopItem, Kinds
      <3>2. CASE offer = <<l, n>>
        <4>1. /\ Len(recQueue) + 1 \in 1..Len(recQueue')
              /\ recQueue'[Len(recQueue) + 1] = <<l, n>>
          BY <2>2, <3>2
        <4> QED BY <4>1
      <3>3. CASE \E i \in 1..Len(recQueue) : recQueue[i] = <<l, n>>
        BY <2>2, <3>3
      <3> QED BY <1>4, <3>1, <3>2, <3>3 DEF PutItem, TypeItems, StopIsLast, AllAccounted,
          NoItem, StopItem, Kinds
  <1>5. CASE PutTimesOut
    <2> SUFFICES ASSUME NEW l \in Kinds, NEW n \in 0..(handed'[l] - 1), ~recError'
                 PROVE  \/ \E i \in 1..Len(journal'[l]) : journal'[l][i] = n
                        \/ hand' = <<l, n>> \/ offer' = <<l, n>>
                        \/ \E i \in 1..Len(recQueue') : recQueue'[i] = <<l, n>>
                        \/ l = "frame" /\ n \in dropped'
      BY DEF AllAccounted
    <2> QED
      <3>1. n \in 0..(handed[l] - 1) /\ ~recError
        BY <1>5 DEF PutTimesOut, TypeItems, StopIsLast, AllAccounted, NoItem, StopItem,
            Kinds
      <3>2. CASE offer = <<l, n>>
        BY <1>5, <3>2 DEF PutTimesOut, TypeItems, StopIsLast, AllAccounted, NoItem,
            StopItem, Kinds
      <3>3. /\ journal' = journal /\ hand' = hand /\ recQueue' = recQueue
            /\ dropped \subseteq dropped'
        BY <1>5 DEF PutTimesOut
      <3>4. CASE offer # <<l, n>>
        <4>1. \/ \E i \in 1..Len(journal[l]) : journal[l][i] = n
              \/ hand = <<l, n>>
              \/ \E i \in 1..Len(recQueue) : recQueue[i] = <<l, n>>
              \/ l = "frame" /\ n \in dropped
          BY <3>1, <3>4 DEF AllAccounted
        <4> QED BY <3>3, <4>1
      <3> QED BY <3>2, <3>4
  <1>6. CASE WriterGets
    <2>1. recQueue \in Seq(Items) /\ recQueue # <<>> /\ recQueue' = Tail(recQueue)
      BY <1>6 DEF WriterGets, TypeItems, Items
    <2>2. /\ Len(recQueue) \in Nat \ {0} /\ Len(recQueue') = Len(recQueue) - 1
          /\ Head(recQueue) = recQueue[1] /\ Head(recQueue) \in Items
          /\ \A i \in 1..Len(recQueue') : recQueue'[i] = recQueue[i + 1]
      BY <2>1, Taken
    <2> SUFFICES ASSUME NEW l \in Kinds, NEW n \in 0..(handed'[l] - 1), ~recError'
                 PROVE  \/ \E i \in 1..Len(journal'[l]) : journal'[l][i] = n
                        \/ hand' = <<l, n>> \/ offer' = <<l, n>>
                        \/ \E i \in 1..Len(recQueue') : recQueue'[i] = <<l, n>>
                        \/ l = "frame" /\ n \in dropped'
      BY DEF AllAccounted
    <2> QED
      <3>1. n \in 0..(handed[l] - 1) /\ ~recError
        BY <1>6 DEF WriterGets, TypeItems, StopIsLast, AllAccounted, NoItem, StopItem, Kinds
      <3>2. CASE \E i \in 1..Len(recQueue) : recQueue[i] = <<l, n>>
        <4>1. PICK i \in 1..Len(recQueue) : recQueue[i] = <<l, n>>
          BY <3>2
        <4>2. CASE i = 1
          <5>1. Head(recQueue) = <<l, n>> /\ <<l, n>> # StopItem
            BY <2>2, <4>1, <4>2 DEF StopItem, Kinds
          <5>2. hand' = Head(recQueue)
            BY <1>6, <3>1, <5>1 DEF WriterGets
          <5> QED BY <5>1, <5>2
        <4>3. CASE i # 1
          <5>1. i - 1 \in 1..Len(recQueue') /\ recQueue'[i - 1] = <<l, n>>
            BY <2>2, <4>1, <4>3
          <5> QED BY <5>1
        <4> QED BY <4>2, <4>3
      <3>3. hand # <<l, n>>
        BY <1>6 DEF WriterGets, TypeItems, StopIsLast, AllAccounted, NoItem, StopItem, Kinds
      <3> QED BY <1>6, <3>1, <3>2, <3>3 DEF WriterGets, TypeItems, StopIsLast,
          AllAccounted, NoItem, StopItem, Kinds
  <1>7. CASE WriterEncodes
    BY <1>7 DEF WriterEncodes, TypeItems, StopIsLast, AllAccounted, NoItem, StopItem,
       Kinds
  <1>8. CASE WriterIndexes
    <2> DEFINE k == hand[1]
               n == hand[2]
    <2>1. /\ k \in Kinds /\ n \in Nat /\ hand = <<k, n>>
          /\ journal' = [journal EXCEPT ![k] = Append(journal[k], n)]
          /\ journal \in [Kinds -> Seq(Nat)]
      BY <1>8 DEF WriterIndexes, TypeItems, StopIsLast, NoItem
    <2> HIDE DEF k, n
    <2>a. /\ journal[k] \in Seq(Nat) /\ journal'[k] = Append(journal[k], n)
          /\ \A l \in Kinds \ {k} : journal'[l] = journal[l]
      BY <2>1
    <2>2. /\ Len(journal[k]) \in Nat /\ Len(journal'[k]) = Len(journal[k]) + 1
          /\ \A i \in 1..Len(journal[k]) : journal'[k][i] = journal[k][i] /\ journal[k][i] \in Nat
          /\ journal'[k][Len(journal[k]) + 1] = n
          /\ \A l \in Kinds \ {k} : journal'[l] = journal[l]
      BY <2>1, <2>a, Entered
    <2> SUFFICES ASSUME NEW l \in Kinds, NEW n0 \in 0..(handed'[l] - 1), ~recError'
                 PROVE  \/ \E i \in 1..Len(journal'[l]) : journal'[l][i] = n0
                        \/ hand' = <<l, n0>> \/ offer' = <<l, n0>>
                        \/ \E i \in 1..Len(recQueue') : recQueue'[i] = <<l, n0>>
                        \/ l = "frame" /\ n0 \in dropped'
      BY DEF AllAccounted
    <2> QED
      <3>1. n0 \in 0..(handed[l] - 1) /\ ~recError
        BY <1>8 DEF WriterIndexes, TypeItems, StopIsLast, AllAccounted, NoItem, StopItem,
            Kinds
      <3>2. CASE hand = <<l, n0>>
        <4>1. l = k /\ n0 = n
          BY <2>1, <3>2
        <4> QED BY <2>2, <4>1
      <3>3. CASE \E i \in 1..Len(journal[l]) : journal[l][i] = n0
        <4>1. PICK i \in 1..Len(journal[l]) : journal[l][i] = n0
          BY <3>3
        <4>2. i \in 1..Len(journal'[l]) /\ journal'[l][i] = n0
          BY <2>1, <2>2, <4>1
        <4> QED BY <4>2
      <3> QED BY <1>8, <3>1, <3>2, <3>3 DEF WriterIndexes, TypeItems, StopIsLast,
          AllAccounted, NoItem, StopItem, Kinds
  <1>9. CASE CheckpointSkips
    BY <1>9 DEF CheckpointSkips, TypeItems, StopIsLast, AllAccounted, NoItem, StopItem,
       Kinds
  <1>10. CASE CheckpointWrites
    BY <1>10 DEF CheckpointWrites, TypeItems, StopIsLast, AllAccounted, NoItem, StopItem,
       Kinds
  <1>11. CASE CheckpointPublishes
    BY <1>11 DEF CheckpointPublishes, TypeItems, StopIsLast, AllAccounted, NoItem,
       StopItem, Kinds
  <1>12. CASE WriterRaises
    BY <1>12 DEF WriterRaises, TypeItems, StopIsLast, AllAccounted, NoItem, StopItem,
       Kinds
  <1>13. CASE HelperCloses
    BY <1>13 DEF HelperCloses, TypeItems, StopIsLast, AllAccounted, NoItem, StopItem,
       Kinds
  <1>14. CASE HelperEnds
    BY <1>14 DEF HelperEnds, TypeItems, StopIsLast, AllAccounted, NoItem, StopItem, Kinds
  <1>15. CASE HelperFails
    BY <1>15 DEF HelperFails, TypeItems, StopIsLast, AllAccounted, NoItem, StopItem, Kinds
  <1>16. CASE HelperHangs
    BY <1>16 DEF HelperHangs, TypeItems, StopIsLast, AllAccounted, NoItem, StopItem, Kinds
  <1>17. CASE ReaderReads
    BY <1>17 DEF ReaderReads, TypeItems, StopIsLast, AllAccounted, NoItem, StopItem, Kinds
  <1>18. CASE HarvesterFails
    BY <1>18 DEF HarvesterFails, TypeItems, StopIsLast, AllAccounted, NoItem, StopItem,
       Kinds
  <1>19. CASE StopBegins
    BY <1>19 DEF StopBegins, TypeItems, StopIsLast, AllAccounted, NoItem, StopItem, Kinds
  <1>20. CASE FailBegins
    BY <1>20 DEF FailBegins, TypeItems, StopIsLast, AllAccounted, NoItem, StopItem, Kinds
  <1>21. CASE MarkFinalizing
    BY <1>21 DEF MarkFinalizing, TypeItems, StopIsLast, AllAccounted, NoItem, StopItem,
       Kinds
  <1>22. CASE DrainBegins
    BY <1>22 DEF DrainBegins, TypeItems, StopIsLast, AllAccounted, NoItem, StopItem, Kinds
  <1>23. CASE PutStop
    <2>1. recQueue \in Seq(Items) /\ StopItem \in Items /\ recQueue' = Append(recQueue, StopItem)
      BY <1>23 DEF PutStop, TypeItems, Items, NoItem, StopItem
    <2>2. /\ Len(recQueue) \in Nat /\ Len(recQueue') = Len(recQueue) + 1
          /\ \A i \in 1..Len(recQueue) : recQueue'[i] = recQueue[i]
          /\ recQueue'[Len(recQueue) + 1] = StopItem
      BY <2>1, Appended
    <2> SUFFICES ASSUME NEW l \in Kinds, NEW n \in 0..(handed'[l] - 1), ~recError'
                 PROVE  \/ \E i \in 1..Len(journal'[l]) : journal'[l][i] = n
                        \/ hand' = <<l, n>> \/ offer' = <<l, n>>
                        \/ \E i \in 1..Len(recQueue') : recQueue'[i] = <<l, n>>
                        \/ l = "frame" /\ n \in dropped'
      BY DEF AllAccounted
    <2> QED
      <3>1. n \in 0..(handed[l] - 1) /\ ~recError
        BY <1>23 DEF PutStop, TypeItems, StopIsLast, AllAccounted, NoItem, StopItem, Kinds
      <3>3. CASE \E i \in 1..Len(recQueue) : recQueue[i] = <<l, n>>
        BY <2>2, <3>3
      <3> QED BY <1>23, <3>1, <3>3 DEF PutStop, TypeItems, StopIsLast, AllAccounted,
          NoItem, StopItem, Kinds
  <1>24. CASE JoinTimesOut
    BY <1>24 DEF JoinTimesOut, TypeItems, StopIsLast, AllAccounted, NoItem, StopItem,
       Kinds
  <1>25. CASE Joined
    BY <1>25 DEF Joined, TypeItems, StopIsLast, AllAccounted, NoItem, StopItem, Kinds
  <1>26. CASE SyncFiles
    BY <1>26 DEF SyncFiles, TypeItems, StopIsLast, AllAccounted, NoItem, StopItem, Kinds
  <1>27. CASE EndInput
    BY <1>27 DEF EndInput, TypeItems, StopIsLast, AllAccounted, NoItem, StopItem, Kinds
  <1>28. CASE WaitEncoder
    BY <1>28 DEF WaitEncoder, TypeItems, StopIsLast, AllAccounted, NoItem, StopItem, Kinds
  <1>29. CASE FinishEncoder
    BY <1>29 DEF FinishEncoder, TypeItems, StopIsLast, AllAccounted, NoItem, StopItem,
       Kinds
  <1>30. CASE PublishTake
    BY <1>30 DEF PublishTake, TypeItems, StopIsLast, AllAccounted, NoItem, StopItem, Kinds
  <1>31. CASE AbandonTake
    BY <1>31 DEF AbandonTake, TypeItems, StopIsLast, AllAccounted, NoItem, StopItem, Kinds
  <1>32. CASE UNCHANGED recVars
    BY <1>32 DEF recVars, TypeItems, StopIsLast, AllAccounted, NoItem, StopItem, Kinds
  <1> QED
    BY <1>1, <1>2, <1>3, <1>4, <1>5, <1>6, <1>7, <1>8, <1>9, <1>10, <1>11, <1>12, <1>13,
       <1>14, <1>15, <1>16, <1>17, <1>18, <1>19, <1>20, <1>21, <1>22, <1>23, <1>24, <1>25,
       <1>26, <1>27, <1>28, <1>29, <1>30, <1>31, <1>32 DEF RecNext, WriterNext,
           HelperNext, CloserNext

\* An item that is written while nothing was lost is the next one.
LEMMA ConsecutiveStep ==
    ASSUME TypeItems, StopIsLast, Ordered, AllAccounted, Consecutive, [RecNext]_recVars
    PROVE  Consecutive'
  <1> USE RecorderAssumption DEF StartKeeps, SubmitKeeps, WriterKeeps, EncoderKeeps,
      WriterTo, HelperKeeps, CloserKeeps,
          CloserTo, Raises, Fault, Process, Available, QueuePut, Dropped, Written, PipeBroken,
          Spawned, Killed, submitVars, writerVars, closerVars, encoderVars, stateVars
  <1>1. CASE StartRecorder
    BY <1>1 DEF StartRecorder, TypeItems, Consecutive, NoItem, StopItem, Kinds
  <1>2. CASE StartRecorderFails
    BY <1>2 DEF StartRecorderFails, TypeItems, Consecutive, NoItem, StopItem, Kinds
  <1>3. ASSUME NEW k \in Kinds, Submit(k) PROVE Consecutive'
    BY <1>3 DEF Submit, TypeItems, Consecutive, NoItem, StopItem, Kinds
  <1>4. CASE PutItem
    BY <1>4 DEF PutItem, TypeItems, Consecutive, NoItem, StopItem, Kinds
  <1>5. CASE PutTimesOut
    BY <1>5 DEF PutTimesOut, TypeItems, Consecutive, NoItem, StopItem, Kinds
  <1>6. CASE WriterGets
    BY <1>6 DEF WriterGets, TypeItems, Consecutive, NoItem, StopItem, Kinds
  <1>7. CASE WriterEncodes
    BY <1>7 DEF WriterEncodes, TypeItems, Consecutive, NoItem, StopItem, Kinds
  <1>8. CASE WriterIndexes
    <2> DEFINE k == hand[1]
               n == hand[2]
    <2>1. /\ k \in Kinds /\ n \in Nat /\ hand = <<k, n>>
          /\ journal' = [journal EXCEPT ![k] = Append(journal[k], n)]
          /\ journal \in [Kinds -> Seq(Nat)]
      BY <1>8 DEF WriterIndexes, TypeItems, StopIsLast, NoItem
    <2> HIDE DEF k, n
    <2>a. /\ journal[k] \in Seq(Nat) /\ journal'[k] = Append(journal[k], n)
          /\ \A l \in Kinds \ {k} : journal'[l] = journal[l]
      BY <2>1
    <2>2. /\ Len(journal[k]) \in Nat /\ Len(journal'[k]) = Len(journal[k]) + 1
          /\ \A i \in 1..Len(journal[k]) : journal'[k][i] = journal[k][i] /\ journal[k][i] \in Nat
          /\ journal'[k][Len(journal[k]) + 1] = n
          /\ \A l \in Kinds \ {k} : journal'[l] = journal[l]
      BY <2>1, <2>a, Entered
    <2> SUFFICES ASSUME ~recError, dropped = {}
                 PROVE  \A l \in Kinds : \A i \in 1..Len(journal'[l]) : journal'[l][i] = i - 1
      BY <1>8 DEF WriterIndexes, TypeItems, Consecutive, NoItem, StopItem, Kinds
    <2>3. Numbered(hand)
      BY <2>1 DEF Ordered, HandOrdered, NoItem, Kinds
    <2>4. \A m \in 0..(n - 1) : \E i \in 1..Len(journal[k]) : journal[k][i] = m
      <3> SUFFICES ASSUME NEW m \in 0..(n - 1)
                   PROVE  \E i \in 1..Len(journal[k]) : journal[k][i] = m
        OBVIOUS
      <3>1. m \in 0..(handed[k] - 1) /\ hand # <<k, m>>
        BY <2>1, <2>3 DEF Numbered, TypeItems
      <3>2. offer # <<k, m>>
        BY <2>1 DEF Ordered, OfferOrdered, Precedes, NoItem, Kinds, TypeItems
      <3>3. ~ \E i \in 1..Len(recQueue) : recQueue[i] = <<k, m>>
        <4> SUFFICES ASSUME NEW i \in 1..Len(recQueue), recQueue[i] = <<k, m>> PROVE FALSE
          OBVIOUS
        <4>1. recQueue[i] # StopItem /\ recQueue[i][1] = k /\ recQueue[i][2] = m
          BY <2>1 DEF StopItem, Kinds
        <4>2. Precedes(hand, recQueue[i]) /\ hand[1] = k /\ hand[2] = n
          BY <2>1, <4>1 DEF Ordered, QueueOrdered
        <4> QED BY <2>1, <4>1, <4>2 DEF Precedes
      <3> QED BY <2>1, <3>1, <3>2, <3>3 DEF AllAccounted
    <2>5. Len(journal[k]) = n
      <3>1. \A i \in 1..Len(journal[k]) : journal[k][i] = i - 1 /\ journal[k][i] < n
        BY <2>1, <2>3 DEF Numbered, Consecutive
      <3>2. n > 0 => Len(journal[k]) >= n
        <4>1. CASE n > 0
          <5>1. PICK i \in 1..Len(journal[k]) : journal[k][i] = n - 1
            <6>1. n - 1 \in 0..(n - 1)
              BY <2>1, <4>1
            <6> QED BY <2>4, <6>1
          <5> QED BY <2>1, <2>2, <3>1, <5>1
        <4> QED BY <4>1
      <3>3. Len(journal[k]) <= n
        BY SMTT(20), <2>1, <2>2, <3>1
      <3> QED BY <2>1, <2>2, <3>2, <3>3
    <2> SUFFICES ASSUME NEW l \in Kinds, NEW i \in 1..Len(journal'[l])
                 PROVE  journal'[l][i] = i - 1
      OBVIOUS
    <2>6. CASE l = k
      BY <2>1, <2>2, <2>5, <2>6 DEF Consecutive
    <2>7. CASE l # k
      BY <2>2, <2>7 DEF Consecutive
    <2> QED BY <2>6, <2>7
  <1>9. CASE CheckpointSkips
    BY <1>9 DEF CheckpointSkips, TypeItems, Consecutive, NoItem, StopItem, Kinds
  <1>10. CASE CheckpointWrites
    BY <1>10 DEF CheckpointWrites, TypeItems, Consecutive, NoItem, StopItem, Kinds
  <1>11. CASE CheckpointPublishes
    BY <1>11 DEF CheckpointPublishes, TypeItems, Consecutive, NoItem, StopItem, Kinds
  <1>12. CASE WriterRaises
    BY <1>12 DEF WriterRaises, TypeItems, Consecutive, NoItem, StopItem, Kinds
  <1>13. CASE HelperCloses
    BY <1>13 DEF HelperCloses, TypeItems, Consecutive, NoItem, StopItem, Kinds
  <1>14. CASE HelperEnds
    BY <1>14 DEF HelperEnds, TypeItems, Consecutive, NoItem, StopItem, Kinds
  <1>15. CASE HelperFails
    BY <1>15 DEF HelperFails, TypeItems, Consecutive, NoItem, StopItem, Kinds
  <1>16. CASE HelperHangs
    BY <1>16 DEF HelperHangs, TypeItems, Consecutive, NoItem, StopItem, Kinds
  <1>17. CASE ReaderReads
    BY <1>17 DEF ReaderReads, TypeItems, Consecutive, NoItem, StopItem, Kinds
  <1>18. CASE HarvesterFails
    BY <1>18 DEF HarvesterFails, TypeItems, Consecutive, NoItem, StopItem, Kinds
  <1>19. CASE StopBegins
    BY <1>19 DEF StopBegins, TypeItems, Consecutive, NoItem, StopItem, Kinds
  <1>20. CASE FailBegins
    BY <1>20 DEF FailBegins, TypeItems, Consecutive, NoItem, StopItem, Kinds
  <1>21. CASE MarkFinalizing
    BY <1>21 DEF MarkFinalizing, TypeItems, Consecutive, NoItem, StopItem, Kinds
  <1>22. CASE DrainBegins
    BY <1>22 DEF DrainBegins, TypeItems, Consecutive, NoItem, StopItem, Kinds
  <1>23. CASE PutStop
    BY <1>23 DEF PutStop, TypeItems, Consecutive, NoItem, StopItem, Kinds
  <1>24. CASE JoinTimesOut
    BY <1>24 DEF JoinTimesOut, TypeItems, Consecutive, NoItem, StopItem, Kinds
  <1>25. CASE Joined
    BY <1>25 DEF Joined, TypeItems, Consecutive, NoItem, StopItem, Kinds
  <1>26. CASE SyncFiles
    BY <1>26 DEF SyncFiles, TypeItems, Consecutive, NoItem, StopItem, Kinds
  <1>27. CASE EndInput
    BY <1>27 DEF EndInput, TypeItems, Consecutive, NoItem, StopItem, Kinds
  <1>28. CASE WaitEncoder
    BY <1>28 DEF WaitEncoder, TypeItems, Consecutive, NoItem, StopItem, Kinds
  <1>29. CASE FinishEncoder
    BY <1>29 DEF FinishEncoder, TypeItems, Consecutive, NoItem, StopItem, Kinds
  <1>30. CASE PublishTake
    BY <1>30 DEF PublishTake, TypeItems, Consecutive, NoItem, StopItem, Kinds
  <1>31. CASE AbandonTake
    BY <1>31 DEF AbandonTake, TypeItems, Consecutive, NoItem, StopItem, Kinds
  <1>32. CASE UNCHANGED recVars
    BY <1>32 DEF recVars, TypeItems, Consecutive, NoItem, StopItem, Kinds
  <1> QED
    BY <1>1, <1>2, <1>3, <1>4, <1>5, <1>6, <1>7, <1>8, <1>9, <1>10, <1>11, <1>12, <1>13,
       <1>14, <1>15, <1>16, <1>17, <1>18, <1>19, <1>20, <1>21, <1>22, <1>23, <1>24, <1>25,
       <1>26, <1>27, <1>28, <1>29, <1>30, <1>31, <1>32 DEF RecNext, WriterNext,
           HelperNext, CloserNext

\* The helper never reports more than it was given.
LEMMA CoveredStep ==
    ASSUME TypeHelper, TypeItems, Stage, Drained, Covered, [RecNext]_recVars
    PROVE  Covered'
  <1> USE RecorderAssumption DEF StartKeeps, SubmitKeeps, WriterKeeps, EncoderKeeps,
      WriterTo, HelperKeeps, CloserKeeps,
          CloserTo, Raises, Fault, Process, Available, QueuePut, Dropped, Written, PipeBroken,
          Spawned, Killed, submitVars, writerVars, closerVars, encoderVars, stateVars
  <1>1. CASE StartRecorder
    BY <1>1 DEF StartRecorder, TypeHelper, Stage, Draining, Covered, NoItem, EncoderWhole
  <1>2. CASE StartRecorderFails
    BY <1>2 DEF StartRecorderFails, TypeHelper, Stage, Draining, Covered, NoItem,
       EncoderWhole
  <1>3. ASSUME NEW k \in Kinds, Submit(k) PROVE Covered'
    BY <1>3 DEF Submit, TypeHelper, Stage, Draining, Covered, NoItem, EncoderWhole
  <1>4. CASE PutItem
    BY <1>4 DEF PutItem, TypeHelper, Stage, Draining, Covered, NoItem, EncoderWhole
  <1>5. CASE PutTimesOut
    BY <1>5 DEF PutTimesOut, TypeHelper, Stage, Draining, Covered, NoItem, EncoderWhole
  <1>6. CASE WriterGets
    BY <1>6 DEF WriterGets, TypeHelper, Stage, Draining, Covered, NoItem, EncoderWhole
  <1>7. CASE WriterEncodes
    <2>1. /\ submitted' = submitted + 1
          /\ UNCHANGED <<recState, closer, helper, closed, covered, journal>>
      BY <1>7 DEF WriterEncodes
    <2>2. closer # "quality"
      BY <1>7 DEF WriterEncodes, Drained, Draining
    <2> QED BY <2>1, <2>2 DEF Covered, TypeHelper
  <1>8. CASE WriterIndexes
    BY <1>8 DEF WriterIndexes, Drained, TypeHelper, Stage, Draining, Covered, NoItem,
       EncoderWhole
  <1>9. CASE CheckpointSkips
    BY <1>9 DEF CheckpointSkips, TypeHelper, Stage, Draining, Covered, NoItem,
       EncoderWhole
  <1>10. CASE CheckpointWrites
    BY <1>10 DEF CheckpointWrites, TypeHelper, Stage, Draining, Covered, NoItem,
       EncoderWhole
  <1>11. CASE CheckpointPublishes
    BY <1>11 DEF CheckpointPublishes, TypeHelper, Stage, Draining, Covered, NoItem,
       EncoderWhole
  <1>12. CASE WriterRaises
    BY <1>12 DEF WriterRaises, TypeHelper, Stage, Draining, Covered, NoItem, EncoderWhole
  <1>13. CASE HelperCloses
    BY <1>13 DEF HelperCloses, TypeHelper, Stage, Draining, Covered, NoItem, EncoderWhole
  <1>14. CASE HelperEnds
    BY <1>14 DEF HelperEnds, TypeHelper, Stage, Draining, Covered, NoItem, EncoderWhole
  <1>15. CASE HelperFails
    BY <1>15 DEF HelperFails, TypeHelper, Stage, Draining, Covered, NoItem, EncoderWhole
  <1>16. CASE HelperHangs
    BY <1>16 DEF HelperHangs, TypeHelper, Stage, Draining, Covered, NoItem, EncoderWhole
  <1>17. CASE ReaderReads
    BY <1>17 DEF ReaderReads, TypeHelper, Stage, Draining, Covered, NoItem, EncoderWhole
  <1>18. CASE HarvesterFails
    BY <1>18 DEF HarvesterFails, TypeHelper, Stage, Draining, Covered, NoItem,
       EncoderWhole
  <1>19. CASE StopBegins
    BY <1>19 DEF StopBegins, TypeHelper, Stage, Draining, Covered, NoItem, EncoderWhole
  <1>20. CASE FailBegins
    BY <1>20 DEF FailBegins, TypeHelper, Stage, Draining, Covered, NoItem, EncoderWhole
  <1>21. CASE MarkFinalizing
    BY <1>21 DEF MarkFinalizing, TypeHelper, Stage, Draining, Covered, NoItem,
       EncoderWhole
  <1>22. CASE DrainBegins
    BY <1>22 DEF DrainBegins, TypeHelper, Stage, Draining, Covered, NoItem, EncoderWhole
  <1>23. CASE PutStop
    BY <1>23 DEF PutStop, TypeHelper, Stage, Draining, Covered, NoItem, EncoderWhole
  <1>24. CASE JoinTimesOut
    BY <1>24 DEF JoinTimesOut, TypeHelper, Stage, Draining, Covered, NoItem, EncoderWhole
  <1>25. CASE Joined
    BY <1>25 DEF Joined, TypeHelper, Stage, Draining, Covered, NoItem, EncoderWhole
  <1>26. CASE SyncFiles
    BY <1>26 DEF SyncFiles, TypeHelper, Stage, Draining, Covered, NoItem, EncoderWhole
  <1>27. CASE EndInput
    BY <1>27 DEF EndInput, TypeHelper, Stage, Draining, Covered, NoItem, EncoderWhole
  <1>28. CASE WaitEncoder
    BY <1>28 DEF WaitEncoder, TypeHelper, Stage, Draining, Covered, NoItem, EncoderWhole
  <1>29. CASE FinishEncoder
    BY <1>29 DEF FinishEncoder, TypeHelper, Stage, Draining, Covered, NoItem, EncoderWhole
  <1>30. CASE PublishTake
    BY <1>30 DEF PublishTake, TypeHelper, Stage, Draining, Covered, NoItem, EncoderWhole
  <1>31. CASE AbandonTake
    BY <1>31 DEF AbandonTake, TypeHelper, Stage, Draining, Covered, NoItem, EncoderWhole
  <1>32. CASE UNCHANGED recVars
    BY <1>32 DEF recVars, TypeHelper, Stage, Draining, Covered, NoItem, EncoderWhole
  <1> QED
    BY <1>1, <1>2, <1>3, <1>4, <1>5, <1>6, <1>7, <1>8, <1>9, <1>10, <1>11, <1>12, <1>13,
       <1>14, <1>15, <1>16, <1>17, <1>18, <1>19, <1>20, <1>21, <1>22, <1>23, <1>24, <1>25,
       <1>26, <1>27, <1>28, <1>29, <1>30, <1>31, <1>32 DEF RecNext, WriterNext,
           HelperNext, CloserNext

-----------------------------------------------------------------------------
(* What the run checks, for every value of the constants *)

\* A take is sealed only by the step that found it whole, and it stays so.
LEMMA SealedStep ==
    ASSUME RecInv, [RecNext]_recVars
    PROVE  SealedIsWhole'
  <1> USE DEF StartKeeps, SubmitKeeps, WriterKeeps, EncoderKeeps, WriterTo, HelperKeeps,
          CloserKeeps, CloserTo, Raises, Process, Spawned, Killed,
          submitVars, writerVars, closerVars, encoderVars, stateVars
  <1>1. CASE PublishTake
    <2> SUFFICES ASSUME recState' = "sealed"
                 PROVE  /\ \A k \in Kinds : journal[k] = [i \in 1..handed[k] |-> i - 1]
                        /\ submitted = handed["frame"] /\ closed = submitted /\ covered = closed
      BY <1>1 DEF PublishTake, SealedIsWhole
    <2>1. /\ closer = "quality" /\ dropped = {} /\ writerAt = "ended" /\ ~recError
          /\ recQueue = <<>> /\ hand = NoItem /\ offer = NoItem
      <3>1. closer = "quality" /\ dropped = {}
        BY <1>1 DEF PublishTake, RecInv, Stage
      <3>2. ~recError /\ writerAt = "ended"
        <4>1. sealing /\ recState = "finalizing"
          BY <3>1 DEF RecInv, Stage, Sealing
        <4> QED BY <3>1, <4>1 DEF RecInv, Drained, Draining, Stage
      <3> QED BY <3>1, <3>2 DEF RecInv, Stage, StopIsLast, Sealing
    <2>2. \A k \in Kinds : /\ Len(journal[k]) = handed[k]
                           /\ journal[k] = [i \in 1..handed[k] |-> i - 1]
      <3> SUFFICES ASSUME NEW k \in Kinds
                   PROVE  /\ Len(journal[k]) = handed[k]
                          /\ journal[k] = [i \in 1..handed[k] |-> i - 1]
        OBVIOUS
      <3>1. /\ handed[k] \in Nat /\ journal[k] \in Seq(Nat) /\ Len(journal[k]) \in Nat
            /\ journal[k] = [i \in 1..Len(journal[k]) |-> journal[k][i]]
        BY DEF RecInv, RecTypeOK, TypeItems
      <3>2. \A i \in 1..Len(journal[k]) : journal[k][i] = i - 1
        BY <2>1 DEF RecInv, Consecutive
      <3>3. Len(journal[k]) <= handed[k]
        <4>1. \A i \in 1..Len(journal[k]) : journal[k][i] < handed[k]
          BY DEF RecInv, Ordered, JournalOrdered
        <4>2. CASE Len(journal[k]) > 0
          <5>1. Len(journal[k]) \in 1..Len(journal[k])
            BY <3>1, <4>2
          <5> DEFINE l == Len(journal[k])
          <5>2. journal[k][l] = l - 1 /\ journal[k][l] < handed[k]
            BY <3>2, <4>1, <5>1
          <5>3. l \in Nat /\ handed[k] \in Nat
            BY <3>1
          <5> HIDE DEF l
          <5>4. l <= handed[k]
            BY <5>2, <5>3
          <5> QED BY <5>4 DEF l
        <4> QED BY <3>1, <4>2
      <3>4. handed[k] <= Len(journal[k])
        <4>1. CASE handed[k] > 0
          <5>1. handed[k] - 1 \in 0..(handed[k] - 1)
            BY <3>1, <4>1
          <5>2. <<k, handed[k] - 1>> # NoItem /\ Len(recQueue) = 0
            BY <2>1 DEF Kinds, NoItem
          <5>3. PICK i \in 1..Len(journal[k]) : journal[k][i] = handed[k] - 1
            BY <2>1, <5>1, <5>2 DEF RecInv, AllAccounted
          <5> QED BY <3>1, <3>2, <5>3
        <4> QED BY <3>1, <4>1
      <3>5. Len(journal[k]) = handed[k]
        BY <3>1, <3>3, <3>4
      <3> QED BY <3>1, <3>2, <3>5
    <2>3. Len(journal["frame"]) = handed["frame"]
      BY <2>2 DEF Kinds
    <2>4. submitted = Len(journal["frame"]) /\ covered = Len(journal["frame"])
      BY <2>1 DEF RecInv, Covered
    <2>5. closed = submitted
      BY <2>4 DEF RecInv, Covered, RecTypeOK, TypeHelper
    <2> QED BY <2>2, <2>3, <2>4, <2>5
  <1>2. CASE recState' = "sealed" /\ recState = "sealed"
    <2>1. /\ closer = "done" /\ writerAt \in {"none", "ended"} /\ helper.process = "done"
          /\ offer = NoItem
      BY <1>2 DEF RecInv, Stage, Drained, Draining, Covered
    <2>2. /\ \A k \in Kinds : journal[k] = [i \in 1..handed[k] |-> i - 1]
          /\ submitted = handed["frame"] /\ closed = submitted /\ covered = closed
      BY <1>2 DEF RecInv, SealedIsWhole
    <2>3. UNCHANGED <<journal, handed, submitted, closed>> /\ covered' \in {covered, closed}
      <3>1. CASE WriterNext
        BY <2>1, <3>1 DEF WriterNext, WriterGets, WriterEncodes, WriterIndexes, CheckpointSkips,
              CheckpointWrites, CheckpointPublishes, WriterRaises
      <3>2. CASE HelperNext
        BY <2>1, <3>2 DEF HelperNext, HelperCloses, HelperEnds, HelperFails, HelperHangs,
              ReaderReads, HarvesterFails
      <3>3. CASE CloserNext
        BY <2>1, <3>3 DEF CloserNext, StopBegins, FailBegins, MarkFinalizing, DrainBegins,
              PutStop, JoinTimesOut, Joined, SyncFiles, EndInput, WaitEncoder, FinishEncoder,
              PublishTake, AbandonTake
      <3>4. CASE \E k \in Kinds : Submit(k)
        BY <1>2, <3>4 DEF Submit, Available
      <3>5. CASE \/ StartRecorder \/ StartRecorderFails \/ PutItem \/ PutTimesOut
                 \/ UNCHANGED recVars
        BY <1>2, <2>1, <3>5 DEF StartRecorder, StartRecorderFails, PutItem, PutTimesOut, recVars
      <3> QED BY <3>1, <3>2, <3>3, <3>4, <3>5 DEF RecNext
    <2> QED BY <2>2, <2>3 DEF SealedIsWhole
  <1>3. CASE recState' # "sealed"
    BY <1>3 DEF SealedIsWhole
  <1>4. recState' = "sealed" => recState = "sealed" \/ PublishTake
    <2>1. CASE WriterNext
      BY <2>1 DEF WriterNext, WriterGets, WriterEncodes, WriterIndexes, CheckpointSkips,
            CheckpointWrites, CheckpointPublishes, WriterRaises
    <2>2. CASE HelperNext
      BY <2>2 DEF HelperNext, HelperCloses, HelperEnds, HelperFails, HelperHangs, ReaderReads,
            HarvesterFails
    <2>3. CASE CloserNext
      BY <2>3 DEF CloserNext, StopBegins, FailBegins, MarkFinalizing, DrainBegins, PutStop,
            JoinTimesOut, Joined, SyncFiles, EndInput, WaitEncoder, FinishEncoder, AbandonTake
    <2>4. CASE \E k \in Kinds : Submit(k)
      BY <2>4 DEF Submit
    <2>5. CASE StartRecorder \/ StartRecorderFails \/ PutItem \/ PutTimesOut \/ UNCHANGED recVars
      BY <2>5 DEF StartRecorder, StartRecorderFails, PutItem, PutTimesOut, recVars
    <2> QED BY <2>1, <2>2, <2>3, <2>4, <2>5 DEF RecNext
  <1> QED BY <1>1, <1>2, <1>3, <1>4

\* The writer's checkpoint and the closer's marks take turns.
LEMMA FinalizingStep ==
    ASSUME RecInv, [RecNext]_recVars
    PROVE  FinalizingStays'
  <1> USE DEF RecInv, Stage, FinalizingStays, StartKeeps, SubmitKeeps, WriterKeeps, EncoderKeeps,
          WriterTo, HelperKeeps, CloserKeeps, CloserTo, Raises, Process,
          submitVars, writerVars, closerVars, encoderVars, stateVars
  <1>1. CASE WriterNext
    <2>1. UNCHANGED <<sealing, closer>> /\ (stateFile' = stateFile \/ recState = "recording")
      BY <1>1 DEF WriterNext, WriterGets, WriterEncodes, WriterIndexes, CheckpointSkips,
            CheckpointWrites, CheckpointPublishes, WriterRaises
    <2> QED BY <2>1
  <1>2. CASE HelperNext
    BY <1>2 DEF HelperNext, HelperCloses, HelperEnds, HelperFails, HelperHangs, ReaderReads,
          HarvesterFails
  <1>3. CASE StopBegins \/ FailBegins \/ MarkFinalizing \/ DrainBegins \/ PutStop \/ JoinTimesOut
    BY <1>3 DEF StopBegins, FailBegins, MarkFinalizing, DrainBegins, PutStop, JoinTimesOut
  <1>4. CASE Joined \/ SyncFiles \/ EndInput \/ WaitEncoder \/ FinishEncoder
    BY <1>4 DEF Joined, SyncFiles, EndInput, WaitEncoder, FinishEncoder
  <1>5. CASE PublishTake \/ AbandonTake
    BY <1>5 DEF PublishTake, AbandonTake
  <1>6. CASE \E k \in Kinds : Submit(k)
    BY <1>6 DEF Submit
  <1>7. CASE StartRecorder \/ StartRecorderFails \/ PutItem \/ PutTimesOut \/ UNCHANGED recVars
    BY <1>7 DEF StartRecorder, StartRecorderFails, PutItem, PutTimesOut, recVars
  <1> QED BY <1>1, <1>2, <1>3, <1>4, <1>5, <1>6, <1>7 DEF RecNext, CloserNext

\* The invariant that the three parts of RecorderSafe rest on.
LEMMA RecInvHolds == RecSpec => []RecInv
  <1>1. RecInit => RecInv
    <2> SUFFICES ASSUME RecInit PROVE RecInv
      OBVIOUS
    <2>1. RecTypeOK
      <3>1. TypeStage
        BY DEF RecInit, TypeStage
      <3>2. TypeItems
        BY RecorderAssumption DEF RecInit, TypeItems, NoItem
      <3>3. TypeHelper
        BY DEF RecInit, TypeHelper
      <3> QED BY <3>1, <3>2, <3>3 DEF RecTypeOK
    <2>2. Stage /\ Drained /\ StopIsLast
      BY DEF RecInit, Stage, Sealing, Drained, Draining, StopIsLast
    <2>3. Ordered
      BY DEF RecInit, Ordered, JournalOrdered, HandOrdered, QueueOrdered, OfferOrdered
    <2>4. AllAccounted /\ Consecutive /\ Covered
      BY DEF RecInit, AllAccounted, Consecutive, Covered
    <2>5. SealedIsWhole /\ FinalizingStays
      BY DEF RecInit, SealedIsWhole, FinalizingStays
    <2> QED BY <2>1, <2>2, <2>3, <2>4, <2>5 DEF RecInv
  <1>2. RecInv /\ [RecNext]_recVars => RecInv'
    <2> SUFFICES ASSUME RecInv, [RecNext]_recVars PROVE RecInv'
      OBVIOUS
    <2> USE DEF RecInv, RecTypeOK
    <2>1. RecTypeOK'
      BY TypeStageStep, TypeItemsStep, TypeHelperStep
    <2>2. Stage' /\ Drained' /\ StopIsLast'
      BY StageStep, DrainedStep, StopIsLastStep
    <2>3. Ordered' /\ AllAccounted' /\ Consecutive'
      BY OrderedStep, AccountedStep, ConsecutiveStep
    <2>4. Covered' /\ SealedIsWhole' /\ FinalizingStays'
      BY CoveredStep, SealedStep, FinalizingStep
    <2> QED BY <2>1, <2>2, <2>3, <2>4
  <1> QED BY <1>1, <1>2, PTL DEF RecSpec

\* The recorder's variables keep their types.
THEOREM RecorderTyped == RecSpec => []RecTypeOK
  <1>1. RecInv => RecTypeOK
    BY DEF RecInv
  <1> QED BY <1>1, RecInvHolds, PTL

\* A sealed take is whole and in order, the writer owns its files, nothing handed in is lost
\* without a trace and no late checkpoint undoes the finalizing mark.
THEOREM RecorderCorrect == RecSpec => []RecorderSafe
  <1>1. RecInv => WriterOwnsFiles
    <2> SUFFICES ASSUME RecInv, writerAt \notin {"none", "ended"} PROVE owned = Owned
      BY DEF WriterOwnsFiles
    <2>1. closer \in Draining
      BY DEF RecInv, Drained
    <2>2. recState # "new"
      BY DEF RecInv, Stage
    <2> QED BY <2>1, <2>2 DEF RecInv, Drained
  <1>2. RecInv => RecorderSafe
    BY <1>1 DEF RecInv, RecorderSafe
  <1> QED BY <1>2, RecInvHolds, PTL

=============================================================================
