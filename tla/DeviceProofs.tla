---------------------------- MODULE DeviceProofs ----------------------------
(***************************************************************************)
(* Proofs about what the device says of itself and to whom, for any number *)
(* of readers, connections and slots: the capture event stream             *)
(* (EventStreams), the network event stream (NetworkStream) and the HTTP   *)
(* edge (HttpEdge); and about the network it is reached on (NetworkControl *)
(* with NetworkProfiles), for any transactions, requests and commands.     *)
(***************************************************************************)
EXTENDS EventStreams, NetworkStream, HttpEdge, NetworkControl, FiniteSetTheorems, TLAPS

-----------------------------------------------------------------------------
(* EventStreams: what holds at every step *)

Samples == [revision : Nat, session : Nat, ticks : Nat]
Events == [id : Nat, revision : Nat, session : Nat, kind : {"none", "snapshot", "progress"},
           resync : BOOLEAN]

StreamTypes ==
    /\ source \in Samples
    /\ pump \in [at : {"wait", "changed", "progress", "publish"}, sample : Samples]
    /\ events \in Seq(Events) /\ nextEvent \in Nat
    /\ reader \in [Client -> {"off", "on"}]
    /\ cursor \in [Client -> Nat]
    /\ took \in [Client -> [from : Events, batch : Seq(Events)]]

\* The buffer holds the last events, numbered one after the other.
Numbered ==
    /\ Len(events) < nextEvent
    /\ \A i \in 1..Len(events) : events[i].id = nextEvent - Len(events) + i - 1

\* Nobody has seen a state to come.
Past ==
    /\ pump.sample.revision <= source.revision
    /\ \A i \in 1..Len(events) : events[i].revision <= source.revision

\* A resync is of the newest state there is.
ResyncsAreNew ==
    \A i, j \in 1..Len(events) :
        i < j /\ events[j].resync => events[i].revision <= events[j].revision

LastOf(batch) == batch[Len(batch)]

\* The cursor is that of the last event the reader took; if it is still kept, it is that one.
CursorKnown(c) ==
    LET b == took[c].batch IN
    /\ cursor[c] < nextEvent
    /\ b = <<>> => cursor[c] = 0
    /\ b # <<>> =>
         /\ LastOf(b).id = cursor[c] /\ LastOf(b).revision <= source.revision
         /\ \A i \in 1..Len(events) : events[i].id = cursor[c] => events[i] = LastOf(b)

\* What a reader is told after an event, event by event.
Follows(from, batch) ==
    LET Before(i) == IF i = 1 THEN from ELSE batch[i - 1] IN
    \A i \in 1..Len(batch) :
        /\ Succeeds(Before(i), batch[i])
        /\ batch[i].revision >= Before(i).revision
        /\ Before(i) = Unseen => batch[i].resync

Buffer == Numbered /\ Past /\ ResyncsAreNew

StreamInv ==
    /\ StreamTypes /\ Buffer
    /\ \A c \in Client : CursorKnown(c) /\ Follows(took[c].from, took[c].batch)

-----------------------------------------------------------------------------
(* The buffer *)

\* What an event is made of.
LEMMA EventTyped == /\ \A e \in Events : e.id \in Nat /\ e.revision \in Nat
                    /\ Unseen \in Events
  BY DEF Events, Unseen

\* What a window that is full or not leaves of a log and one more: that one last, and before
\* it what there was, but perhaps the first.
LEMMA Windowed ==
    ASSUME NEW S, NEW q \in Seq(S), NEW e \in S, NEW size \in Nat \ {0},
           NEW r, r = (IF Len(Append(q, e)) > size THEN Tail(Append(q, e)) ELSE Append(q, e))
    PROVE  \E d \in {0, 1} :
             /\ r \in Seq(S)
             /\ d <= Len(q) /\ Len(r) = Len(q) + 1 - d
             /\ r[Len(q) + 1 - d] = e
             /\ \A i \in 1..(Len(q) - d) : r[i] = q[i + d]
  <1> DEFINE n == Len(q)
             grown == Append(q, e)
  <1>1. /\ grown \in Seq(S) /\ Len(grown) = n + 1 /\ n \in Nat
        /\ grown[n + 1] = e /\ \A i \in 1..n : grown[i] = q[i]
    OBVIOUS
  <1>2. r = (IF Len(grown) > size THEN Tail(grown) ELSE grown)
    OBVIOUS
  <1> HIDE DEF grown, n
  <1>3. CASE n + 1 > size
    <2>1. r = Tail(grown) /\ n >= 1
      BY <1>1, <1>2, <1>3, SMTT(30)
    <2>2. r \in Seq(S) /\ Len(r) = n
      BY <1>1, <2>1, SMTT(30)
    <2>3. ASSUME NEW i \in 1..n PROVE r[i] = grown[i + 1]
      <3>1. Len(Tail(grown)) = n /\ i \in 1..Len(Tail(grown))
        BY <1>1, <2>1, <2>2
      <3>2. Tail(grown)[i] = grown[i + 1]
        BY <1>1, <2>1, <3>1, SMTT(30)
      <3> QED BY <2>1, <3>2
    <2>4. r[n] = e /\ \A i \in 1..(n - 1) : r[i] = q[i + 1]
      BY <1>1, <2>1, <2>3, SMTT(30)
    <2> QED BY <1>1, <2>1, <2>2, <2>4 DEF n
  <1>4. CASE ~(n + 1 > size)
    <2>1. r = grown
      BY <1>1, <1>2, <1>4
    <2> QED BY <1>1, <2>1 DEF n
  <1> QED BY <1>3, <1>4

\* What Keep leaves.
LEMMA Kept ==
    ASSUME events \in Seq(Events), NEW e \in Events
    PROVE  \E d \in {0, 1} :
             /\ Keep(e) \in Seq(Events)
             /\ d <= Len(events) /\ Len(Keep(e)) = Len(events) + 1 - d
             /\ Keep(e)[Len(events) + 1 - d] = e
             /\ \A i \in 1..(Len(events) - d) : Keep(e)[i] = events[i + d]
  <1>1. Keep(e) = (IF Len(Append(events, e)) > Window THEN Tail(Append(events, e))
                                                    ELSE Append(events, e))
    BY DEF Keep
  <1>2. Window \in Nat \ {0}
    BY WindowAssumption
  <1> QED BY <1>1, <1>2, Windowed

\* A publication of a state that is not to come keeps the buffer in order.
LEMMA Published ==
    ASSUME StreamTypes, Buffer, NEW e \in Events, Publish(e), e.id = nextEvent,
           e.revision <= source.revision, e.resync => e.revision = source.revision,
           UNCHANGED source, pump'.sample.revision <= source.revision
    PROVE  /\ events' \in Seq(Events) /\ nextEvent' \in Nat /\ Buffer'
           /\ \A j \in 1..Len(events)' :
                events'[j].id < nextEvent => \E i \in 1..Len(events) : events'[j] = events[i]
  <1> DEFINE n == Len(events)
  <1>1. PICK d \in {0, 1} :
          /\ events' \in Seq(Events)
          /\ d <= n /\ Len(events') = n + 1 - d
          /\ events'[n + 1 - d] = e
          /\ \A i \in 1..(n - d) : events'[i] = events[i + d]
    BY Kept DEF StreamTypes, Publish
  <1>2. nextEvent' = nextEvent + 1 /\ nextEvent \in Nat /\ n \in Nat /\ source.revision \in Nat
    BY DEF StreamTypes, Publish, Samples
  <1>3. /\ n < nextEvent /\ \A i \in 1..n : events[i].id = nextEvent - n + i - 1
        /\ \A i \in 1..n : events[i].revision <= source.revision
    BY DEF Buffer, Numbered, Past
  <1> HIDE DEF n
  <1>4. \A j \in 1..(n + 1 - d) : j = n + 1 - d \/ (j \in 1..(n - d) /\ j + d \in 1..n)
    BY <1>1, <1>2
  <1>5. Numbered'
    <2>1. Len(events') < nextEvent'
      BY <1>1, <1>2, <1>3
    <2> SUFFICES ASSUME NEW j \in 1..(n + 1 - d)
                 PROVE  events'[j].id = nextEvent' - Len(events') + j - 1
      BY <1>1, <2>1 DEF Numbered
    <2>2. CASE j = n + 1 - d
      BY <1>1, <1>2, <2>2
    <2>3. CASE j \in 1..(n - d) /\ j + d \in 1..n
      <3>1. events'[j] = events[j + d] /\ events[j + d].id = nextEvent - n + (j + d) - 1
        BY <1>1, <1>3, <2>3
      <3> QED BY <1>1, <1>2, <2>3, <3>1
    <2> QED BY <1>4, <2>2, <2>3
  <1>6. Past'
    BY <1>1, <1>2, <1>3, <1>4 DEF Past
  <1>7. ResyncsAreNew'
    <2> SUFFICES ASSUME NEW i \in 1..(n + 1 - d), NEW j \in 1..(n + 1 - d), i < j,
                        events'[j].resync
                 PROVE  events'[i].revision <= events'[j].revision
      BY <1>1 DEF ResyncsAreNew
    <2>1. i \in 1..(n - d) /\ i + d \in 1..n /\ events'[i] = events[i + d]
      BY <1>1, <1>2, <1>4
    <2>2. CASE j = n + 1 - d
      BY <1>1, <1>3, <2>1, <2>2
    <2>3. CASE j \in 1..(n - d) /\ j + d \in 1..n
      <3>1. events'[j] = events[j + d] /\ i + d < j + d
        BY <1>1, <1>2, <2>3, SMTT(30)
      <3> QED BY <2>1, <2>3, <3>1 DEF Buffer, ResyncsAreNew, n
    <2> QED BY <1>4, <2>2, <2>3
  <1>8. ASSUME NEW j \in 1..Len(events'), events'[j].id < nextEvent
        PROVE  \E i \in 1..n : events'[j] = events[i]
    <2>1. j # n + 1 - d
      BY <1>1, <1>2, <1>8
    <2> QED BY <1>1, <1>4, <1>8, <2>1
  <1>9. Buffer' /\ events' \in Seq(Events) /\ nextEvent' \in Nat
    <2>1. nextEvent' \in Nat
      BY <1>2
    <2> QED BY <1>1, <1>5, <1>6, <1>7, <2>1 DEF Buffer
  <1>10. \A j \in 1..Len(events)' :
           events'[j].id < nextEvent => \E i \in 1..Len(events) : events'[j] = events[i]
    BY <1>8 DEF n
  <1> QED BY <1>9, <1>10

\* What continues a cursor in the buffer follows the event at the cursor.
LEMMA Continued ==
    ASSUME StreamTypes, Buffer, NEW id \in Nat, Continues(id)
    PROVE  \E p \in 1..Len(events) :
             /\ events[p].id = id /\ events[p] # Unseen
             /\ EventsAfter(id) \in Seq(Events)
             /\ Follows(events[p], EventsAfter(id))
             /\ \A i \in 1..Len(EventsAfter(id)) : \E k \in 1..Len(events) :
                   EventsAfter(id)[i] = events[k]
  <1> DEFINE n == Len(events)
             p == Position(id)
             batch == EventsAfter(id)
  <1>1. n \in Nat /\ nextEvent \in Nat /\ n < nextEvent /\ events \in Seq(Events)
    BY DEF StreamTypes, Buffer, Numbered
  <1>2. \A i \in 1..n : events[i].id = nextEvent - n + i - 1
    BY DEF Buffer, Numbered
  <1>3. p # 0 /\ Contiguous(SubSeq(events, p, n))
    BY DEF Continues
  <1>4. /\ events # <<>> /\ events[1].id <= id /\ id <= events[n].id
        /\ p = id - events[1].id + 1
    <2>1. events # <<>> /\ n >= 1
      BY <1>1, <1>3 DEF Position
    <2>2. events[1] \in Events /\ events[n] \in Events
      BY <1>1, <2>1 DEF n
    <2>3. ~(id < events[1].id) /\ ~(id > events[n].id) /\ p = id - events[1].id + 1
      BY <1>3 DEF Position
    <2> QED BY <2>1, <2>2, <2>3, EventTyped
  <1>5. n >= 1 /\ p \in 1..n /\ events[p].id = id /\ id # 0
    <2>1. n >= 1
      BY <1>1, <1>4
    <2>2. events[1].id = nextEvent - n /\ events[n].id = nextEvent - 1
      BY <1>1, <1>2, <2>1
    <2>3. p \in 1..n /\ p = id - (nextEvent - n) + 1 /\ id # 0
      BY <1>1, <1>4, <2>1, <2>2
    <2> HIDE DEF p
    <2>4. events[p].id = nextEvent - n + p - 1
      BY <1>2, <2>3
    <2> QED BY <1>1, <2>1, <2>3, <2>4
  <1> HIDE DEF n, p, batch
  <1>6. batch = SubSeq(events, p + 1, n)
    BY DEF batch, EventsAfter, p, n
  <1>7. /\ batch \in Seq(Events) /\ Len(batch) = n - p
        /\ \A i \in 1..(n - p) : batch[i] = events[p + i] /\ p + i \in 1..n
    BY <1>1, <1>5, <1>6 DEF n
  <1>8. \A i \in 1..(n - p) : Succeeds(events[p + i - 1], events[p + i])
    <2> DEFINE tail == SubSeq(events, p, n)
    <2>1. Len(tail) = n - p + 1 /\ \A i \in 1..(n - p + 1) : tail[i] = events[p + i - 1]
      BY <1>1, <1>5 DEF n
    <2>2. \A i \in 1..(Len(tail) - 1) : Succeeds(tail[i], tail[i + 1])
      BY <1>3 DEF Contiguous
    <2> HIDE DEF tail
    <2> TAKE i \in 1..(n - p)
    <2>3. i \in 1..(Len(tail) - 1) /\ tail[i] = events[p + i - 1] /\ tail[i + 1] = events[p + i]
      BY <1>1, <1>5, <2>1
    <2> QED BY <2>2, <2>3
  <1>9. \A i \in 1..n : events[i] \in Events /\ events[i] # Unseen
    BY <1>1, <1>2 DEF n, Unseen
  <1>10. Follows(events[p], batch)
    <2> SUFFICES ASSUME NEW i \in 1..(n - p),
                        NEW before, before = (IF i = 1 THEN events[p] ELSE batch[i - 1])
                 PROVE  /\ Succeeds(before, batch[i])
                        /\ batch[i].revision >= before.revision
                        /\ before # Unseen
      BY <1>7 DEF Follows
    <2>1. before = events[p + i - 1] /\ batch[i] = events[p + i]
      <3>1. batch[i] = events[p + i]
        BY <1>7
      <3>2. CASE i = 1
        BY <1>1, <1>5, <3>1, <3>2
      <3>3. CASE i # 1
        <4>1. i - 1 \in 1..(n - p) /\ before = batch[i - 1]
          BY <1>1, <1>5, <3>3
        <4>2. before = events[p + (i - 1)] /\ p + (i - 1) = p + i - 1
          BY <1>1, <1>5, <1>7, <4>1
        <4> QED BY <3>1, <4>2
      <3> QED BY <3>1, <3>2, <3>3
    <2>2. p + i - 1 \in 1..n /\ p + i \in 1..n /\ p + i - 1 < p + i
      BY <1>1, <1>5, <1>7
    <2>3. Succeeds(before, batch[i])
      BY <1>8, <2>1
    <2>4. before \in Events /\ batch[i] \in Events /\ before # Unseen
      BY <1>9, <2>1, <2>2
    <2>5. batch[i].resync => before.revision <= batch[i].revision
      BY <2>1, <2>2 DEF Buffer, ResyncsAreNew, n
    <2>6. batch[i].revision >= before.revision
      BY <2>3, <2>4, <2>5 DEF Succeeds, Events
    <2> QED BY <2>3, <2>4, <2>6
  <1> QED BY <1>5, <1>7, <1>9, <1>10 DEF n, p, batch

-----------------------------------------------------------------------------
(* The readers *)

\* A prefix of what follows the last event a reader took, follows it.
LEMMA PrefixFollows ==
    ASSUME NEW from \in Events, NEW batch \in Seq(Events), Follows(from, batch),
           NEW n \in 1..Len(batch)
    PROVE  /\ SubSeq(batch, 1, n) \in Seq(Events) /\ SubSeq(batch, 1, n) # <<>>
           /\ LastOf(SubSeq(batch, 1, n)) = batch[n]
           /\ Follows(from, SubSeq(batch, 1, n))
  <1> DEFINE head == SubSeq(batch, 1, n)
  <1>1. /\ head \in Seq(Events) /\ Len(head) = n /\ n \in Nat /\ n >= 1
        /\ \A i \in 1..n : head[i] = batch[i] /\ i \in 1..Len(batch)
    OBVIOUS
  <1> HIDE DEF head
  <1>2. head # <<>> /\ LastOf(head) = batch[n]
    BY <1>1 DEF LastOf
  <1>3. Follows(from, head)
    <2> SUFFICES ASSUME NEW i \in 1..n,
                        NEW before, before = (IF i = 1 THEN from ELSE head[i - 1])
                 PROVE  /\ Succeeds(before, head[i])
                        /\ head[i].revision >= before.revision
                        /\ before = Unseen => head[i].resync
      BY <1>1 DEF Follows
    <2>1. before = (IF i = 1 THEN from ELSE batch[i - 1]) /\ head[i] = batch[i]
      BY <1>1
    <2> QED BY <1>1, <2>1 DEF Follows
  <1> QED BY <1>1, <1>2, <1>3 DEF head

\* The last event a reader took, or none.
LastTaken(c) == IF took[c].batch = <<>> THEN Unseen ELSE LastOf(took[c].batch)

\* What is published does not concern a reader that takes nothing.
LEMMA Unread ==
    ASSUME StreamInv, NEW d \in Client, cursor'[d] = cursor[d], took'[d] = took[d],
           source.revision <= source'.revision, source'.revision \in Nat,
           nextEvent' \in Nat, nextEvent' >= nextEvent,
           \A j \in 1..Len(events') :
               events'[j].id < nextEvent => \E i \in 1..Len(events) : events'[j] = events[i]
    PROVE  (CursorKnown(d) /\ Follows(took[d].from, took[d].batch))'
  <1>1. CursorKnown(d) /\ Follows(took[d].from, took[d].batch)
    BY DEF StreamInv
  <1>2. Follows(took[d].from, took[d].batch)'
    BY <1>1 DEF Follows, Succeeds
  <1>3. /\ cursor[d] \in Nat /\ cursor[d] < nextEvent /\ nextEvent \in Nat
        /\ source.revision \in Nat /\ took[d].batch \in Seq(Events)
    BY <1>1 DEF CursorKnown, StreamInv, StreamTypes, Samples
  <1>4. ASSUME NEW j \in 1..Len(events'), events'[j].id = cursor[d], took[d].batch # <<>>
        PROVE  events'[j] = LastOf(took[d].batch)
    <2>1. PICK i \in 1..Len(events) : events'[j] = events[i]
      BY <1>3, <1>4
    <2> QED BY <1>1, <1>4, <2>1 DEF CursorKnown
  <1>5. ASSUME took[d].batch # <<>> PROVE LastOf(took[d].batch).revision <= source'.revision
    <2>1. LastOf(took[d].batch) \in Events
      BY <1>3, <1>5 DEF LastOf
    <2> QED BY <1>1, <1>3, <1>5, <2>1, EventTyped DEF CursorKnown
  <1>6. CursorKnown(d)'
    BY <1>1, <1>3, <1>4, <1>5 DEF CursorKnown
  <1> QED BY <1>2, <1>6

\* A delivery that follows the last one leaves the readers as they should be.
LEMMA Received ==
    ASSUME StreamInv, NEW c \in Client, NEW batch \in Seq(Events), Receive(c, batch),
           Follows(LastTaken(c), batch), UNCHANGED source,
           events' \in Seq(Events), nextEvent' \in Nat, nextEvent' >= nextEvent, Buffer',
           \A j \in 1..Len(events') :
               events'[j].id < nextEvent => \E i \in 1..Len(events) : events'[j] = events[i],
           \A i \in 1..Len(batch) : \E k \in 1..Len(events') : batch[i] = events'[k]
    PROVE  /\ reader' \in [Client -> {"off", "on"}] /\ cursor' \in [Client -> Nat]
           /\ took' \in [Client -> [from : Events, batch : Seq(Events)]]
           /\ \A d \in Client : (CursorKnown(d) /\ Follows(took[d].from, took[d].batch))'
  <1> USE DEF StreamTypes
  <1>1. LastTaken(c) \in Events
    <2>1. took[c].batch \in Seq(Events)
      BY DEF StreamInv
    <2>2. took[c].batch # <<>> => LastOf(took[c].batch) \in Events
      BY <2>1 DEF LastOf
    <2> QED BY <2>2, EventTyped DEF LastTaken
  <1>2. /\ source.revision \in Nat /\ source'.revision = source.revision
        /\ nextEvent \in Nat
    BY DEF StreamInv, Samples
  <1>3. PICK n \in 0..Len(batch) :
          /\ reader' = [reader EXCEPT ![c] = IF n = Len(batch) THEN "on" ELSE "off"]
          /\ cursor' = [cursor EXCEPT ![c] = IF n = 0 THEN @ ELSE batch[n].id]
          /\ took' = IF n = 0 THEN took
                     ELSE [took EXCEPT ![c] = [from |-> LastTaken(c),
                                               batch |-> SubSeq(batch, 1, n)]]
    BY DEF Receive, LastTaken, LastOf
  <1>4. reader' \in [Client -> {"off", "on"}]
    BY <1>3 DEF StreamInv
  <1>5. ASSUME NEW d \in Client, cursor'[d] = cursor[d], took'[d] = took[d]
        PROVE  (CursorKnown(d) /\ Follows(took[d].from, took[d].batch))'
    BY <1>2, <1>5, Unread
  <1>6. CASE n = 0
    <2>1. cursor' = cursor /\ took' = took
      BY <1>3, <1>6 DEF StreamInv
    <2> QED BY <1>4, <1>5, <2>1 DEF StreamInv
  <1>7. CASE n # 0
    <2>1. n \in 1..Len(batch)
      BY <1>7
    <2>2. PICK k \in 1..Len(events') : batch[n] = events'[k]
      BY <2>1
    <2>3. batch[n] \in Events /\ batch[n].id \in Nat
      BY <2>1, EventTyped
    <2> DEFINE head == SubSeq(batch, 1, n)
    <2>4. /\ head \in Seq(Events) /\ head # <<>> /\ LastOf(head) = batch[n]
          /\ Follows(LastTaken(c), head)
      BY <1>1, <2>1, PrefixFollows
    <2>5. /\ cursor' \in [Client -> Nat] /\ cursor'[c] = batch[n].id
          /\ \A d \in Client \ {c} : cursor'[d] = cursor[d]
      BY <1>3, <1>7, <2>3 DEF StreamInv
    <2> HIDE DEF head
    <2>6. took' = [took EXCEPT ![c] = [from |-> LastTaken(c), batch |-> head]]
      BY <1>3, <1>7 DEF head
    <2>7. /\ took' \in [Client -> [from : Events, batch : Seq(Events)]]
          /\ took'[c].from = LastTaken(c) /\ took'[c].batch = head
          /\ \A d \in Client \ {c} : took'[d] = took[d]
      BY <1>1, <2>4, <2>6 DEF StreamInv
    <2>8. Follows(took[c].from, took[c].batch)'
      BY <2>4, <2>7 DEF Follows, Succeeds
    <2>9. CursorKnown(c)'
      <3>1. batch[n].id < nextEvent' /\ batch[n].revision <= source'.revision
        <4>1. Numbered' /\ Past' /\ Len(events') \in Nat /\ k \in 1..Len(events')
          BY DEF Buffer
        <4>2. events'[k].revision <= source'.revision
          BY <4>1 DEF Past
        <4>3. events'[k].id < nextEvent'
          BY <4>1 DEF Numbered
        <4> QED BY <2>2, <4>2, <4>3
      <3>2. \A j \in 1..Len(events') : events'[j].id = batch[n].id => events'[j] = batch[n]
        BY <2>2 DEF Buffer, Numbered
      <3> QED BY <2>4, <2>5, <2>7, <3>1, <3>2 DEF CursorKnown
    <2> QED BY <1>4, <1>5, <2>5, <2>7, <2>8, <2>9
  <1> QED BY <1>6, <1>7

-----------------------------------------------------------------------------
(* The steps *)

\* The coordinator and the pump, as long as it publishes nothing.
LEMMA QuietStep ==
    ASSUME StreamInv,
           \/ StateChange \/ Progress \/ PumpRead \/ PumpSnapshot \/ PumpRejected
           \/ UNCHANGED streamVars
    PROVE  StreamInv'
  <1> USE DEF Samples
  <1>1. StreamTypes /\ Buffer /\ source.revision \in Nat /\ nextEvent \in Nat
    BY DEF StreamInv, StreamTypes
  <1>2. UNCHANGED <<bufferVars, readerVars>>
    BY DEF StateChange, Progress, PumpRead, PumpSnapshot, PumpRejected, streamVars
  <1>3. /\ source' \in Samples /\ source.revision <= source'.revision
    <2>1. CASE StateChange
      BY <1>1, <2>1 DEF StateChange, StreamTypes
    <2>2. CASE Progress
      BY <1>1, <2>2 DEF Progress, StreamTypes
    <2>3. CASE UNCHANGED source
      BY <1>1, <2>3 DEF StreamTypes
    <2> QED BY <2>1, <2>2, <2>3 DEF PumpRead, PumpSnapshot, PumpRejected, streamVars,
                                    coordinatorVars
  <1>4. /\ pump' \in [at : {"wait", "changed", "progress", "publish"}, sample : Samples]
        /\ pump'.sample \in {pump.sample, source}
    <2>1. CASE PumpRead
      BY <1>1, <2>1 DEF PumpRead, StreamTypes
    <2>2. CASE PumpSnapshot
      BY <1>1, <2>2 DEF PumpSnapshot, StreamTypes
    <2>3. CASE PumpRejected
      BY <1>1, <2>3 DEF PumpRejected, StreamTypes
    <2>4. CASE UNCHANGED pump
      BY <1>1, <2>4 DEF StreamTypes
    <2> QED BY <2>1, <2>2, <2>3, <2>4 DEF StateChange, Progress, streamVars, pumpVars
  <1>5. StreamTypes'
    BY <1>1, <1>2, <1>3, <1>4 DEF StreamTypes, bufferVars, readerVars
  <1>6. Numbered' /\ ResyncsAreNew'
    BY <1>1, <1>2 DEF Buffer, Numbered, ResyncsAreNew, bufferVars
  <1>7. Past'
    <2>1. pump.sample.revision \in Nat /\ pump.sample.revision <= source.revision
      BY <1>1 DEF Buffer, Past, StreamTypes
    <2>2. pump'.sample.revision <= source'.revision /\ source'.revision \in Nat
      BY <1>1, <1>3, <1>4, <2>1
    <2>3. ASSUME NEW i \in 1..Len(events) PROVE events[i].revision <= source'.revision
      <3>1. events[i] \in Events /\ events[i].revision <= source.revision
        BY <1>1 DEF Buffer, Past, StreamTypes
      <3> QED BY <1>1, <1>3, <2>2, <3>1, EventTyped
    <2> QED BY <1>2, <2>2, <2>3 DEF Past, bufferVars
  <1>8. ASSUME NEW d \in Client
        PROVE  (CursorKnown(d) /\ Follows(took[d].from, took[d].batch))'
    BY <1>1, <1>2, <1>3, Unread DEF bufferVars, readerVars
  <1> QED BY <1>5, <1>6, <1>7, <1>8 DEF StreamInv, Buffer

\* The pump publishes what it sampled, however long ago.
LEMMA PumpStep ==
    ASSUME StreamInv, PumpPublish \/ PumpProgress
    PROVE  StreamInv'
  <1>1. StreamTypes /\ Buffer /\ nextEvent \in Nat /\ source.revision \in Nat
    BY DEF StreamInv, StreamTypes, Samples
  <1>2. PICK kind \in {"snapshot", "progress"} : Publish(Event(kind, pump.sample, FALSE))
    BY DEF PumpPublish, PumpProgress
  <1> DEFINE e == Event(kind, pump.sample, FALSE)
  <1>3. /\ e \in Events /\ e.id = nextEvent /\ e.revision <= source.revision /\ e.resync = FALSE
    BY <1>1 DEF Event, Events, StreamTypes, Samples, Buffer, Past
  <1>4. UNCHANGED <<source, reader, cursor, took>> /\ pump' = [pump EXCEPT !.at = "wait"]
    BY DEF PumpPublish, PumpProgress, coordinatorVars, readerVars
  <1>5. /\ pump' \in [at : {"wait", "changed", "progress", "publish"}, sample : Samples]
        /\ pump'.sample = pump.sample
    BY <1>1, <1>4 DEF StreamTypes
  <1> HIDE DEF e
  <1>6. Publish(e)
    BY <1>2 DEF e
  <1>7. pump'.sample.revision <= source.revision
    BY <1>1, <1>5 DEF Buffer, Past
  <1>8. /\ events' \in Seq(Events) /\ nextEvent' \in Nat /\ Buffer'
        /\ \A j \in 1..Len(events)' :
             events'[j].id < nextEvent => \E i \in 1..Len(events) : events'[j] = events[i]
    BY <1>1, <1>3, <1>4, <1>6, <1>7, Published
  <1>9. nextEvent' >= nextEvent
    BY <1>1, <1>6 DEF Publish
  <1>10. StreamTypes'
    BY <1>1, <1>4, <1>5, <1>8 DEF StreamTypes
  <1>11. ASSUME NEW d \in Client
         PROVE  (CursorKnown(d) /\ Follows(took[d].from, took[d].batch))'
    BY <1>1, <1>4, <1>8, <1>9, Unread
  <1> QED BY <1>8, <1>10, <1>11 DEF StreamInv

\* A reader is given a snapshot of the present state.
LEMMA ResyncStep ==
    ASSUME StreamInv, NEW c \in Client, Resync(c), UNCHANGED <<coordinatorVars, pumpVars>>
    PROVE  StreamInv'
  <1>1. StreamTypes /\ Buffer /\ nextEvent \in Nat /\ source.revision \in Nat
    BY DEF StreamInv, StreamTypes, Samples
  <1> DEFINE e == Event("snapshot", source, TRUE)
  <1>2. e \in Events /\ e.id = nextEvent /\ e.revision = source.revision /\ e.resync = TRUE
    BY <1>1 DEF Event, Events, StreamTypes, Samples
  <1>3. Publish(e) /\ Receive(c, <<e>>)
    BY DEF Resync
  <1>4. UNCHANGED <<source, pump>> /\ pump.sample.revision <= source.revision
    BY <1>1 DEF coordinatorVars, pumpVars, Buffer, Past
  <1> HIDE DEF e
  <1>5. /\ events' \in Seq(Events) /\ nextEvent' \in Nat /\ Buffer'
        /\ \A j \in 1..Len(events)' :
             events'[j].id < nextEvent => \E i \in 1..Len(events) : events'[j] = events[i]
    BY <1>1, <1>2, <1>3, <1>4, Published
  <1>6. nextEvent' >= nextEvent
    BY <1>1, <1>3 DEF Publish
  <1>7. Follows(LastTaken(c), <<e>>)
    <2>1. LastTaken(c).revision <= source.revision
      BY <1>1 DEF StreamInv, CursorKnown, LastTaken, Unseen
    <2> QED BY <1>1, <1>2, <2>1 DEF Follows, Succeeds
  <1>8. \E k \in 1..Len(events') : e = events'[k]
    <2>1. PICK d \in {0, 1} : /\ d <= Len(events) /\ Len(events') = Len(events) + 1 - d
                              /\ events'[Len(events) + 1 - d] = e
      BY <1>1, <1>2, <1>3, Kept DEF Publish, StreamTypes
    <2> QED BY <1>1, <2>1 DEF StreamTypes
  <1>9. /\ reader' \in [Client -> {"off", "on"}] /\ cursor' \in [Client -> Nat]
        /\ took' \in [Client -> [from : Events, batch : Seq(Events)]]
        /\ \A d \in Client : (CursorKnown(d) /\ Follows(took[d].from, took[d].batch))'
    <2> DEFINE batch == <<e>>
    <2>1. /\ batch \in Seq(Events) /\ Follows(LastTaken(c), batch) /\ Receive(c, batch)
          /\ \A i \in 1..Len(batch) : \E k \in 1..Len(events') : batch[i] = events'[k]
      BY <1>2, <1>3, <1>7, <1>8
    <2> HIDE DEF batch
    <2> QED BY <1>4, <1>5, <1>6, <2>1, Received
  <1>10. StreamTypes'
    BY <1>1, <1>4, <1>5, <1>9 DEF StreamTypes
  <1> QED BY <1>5, <1>9, <1>10 DEF StreamInv

\* A reader is given what follows its cursor.
LEMMA ContinueStep ==
    ASSUME StreamInv, NEW c \in Client, Continues(cursor[c]),
           Receive(c, EventsAfter(cursor[c])),
           UNCHANGED <<bufferVars, coordinatorVars, pumpVars>>
    PROVE  StreamInv'
  <1>1. StreamTypes /\ Buffer /\ nextEvent \in Nat /\ source.revision \in Nat
        /\ cursor[c] \in Nat
    BY DEF StreamInv, StreamTypes, Samples
  <1> DEFINE batch == EventsAfter(cursor[c])
  <1>2. PICK p \in 1..Len(events) :
             /\ events[p].id = cursor[c] /\ events[p] # Unseen
             /\ batch \in Seq(Events)
             /\ Follows(events[p], batch)
             /\ \A i \in 1..Len(batch) : \E k \in 1..Len(events) : batch[i] = events[k]
    BY <1>1, Continued
  <1> HIDE DEF batch
  <1>3. LastTaken(c) = events[p]
    <2>1. CursorKnown(c)
      BY DEF StreamInv
    <2>2. cursor[c] # 0
      BY <1>1, <1>2 DEF Buffer, Numbered
    <2> QED BY <1>2, <2>1, <2>2 DEF CursorKnown, LastTaken
  <1>4. UNCHANGED <<source, pump, events, nextEvent>>
    BY DEF bufferVars, coordinatorVars, pumpVars
  <1>5. Buffer'
    BY <1>1, <1>4 DEF Buffer, Numbered, Past, ResyncsAreNew
  <1>6. Receive(c, batch)
    BY DEF batch
  <1>7. /\ reader' \in [Client -> {"off", "on"}] /\ cursor' \in [Client -> Nat]
        /\ took' \in [Client -> [from : Events, batch : Seq(Events)]]
        /\ \A d \in Client : (CursorKnown(d) /\ Follows(took[d].from, took[d].batch))'
    <2>1. events' \in Seq(Events) /\ nextEvent' \in Nat /\ nextEvent' >= nextEvent
      BY <1>1, <1>4 DEF StreamTypes
    <2>2. \A j \in 1..Len(events') :
            events'[j].id < nextEvent => \E i \in 1..Len(events) : events'[j] = events[i]
      BY <1>4
    <2>3. \A i \in 1..Len(batch) : \E k \in 1..Len(events') : batch[i] = events'[k]
      BY <1>2, <1>4
    <2> QED BY <1>2, <1>3, <1>4, <1>5, <1>6, <2>1, <2>2, <2>3, Received
  <1>8. StreamTypes'
    BY <1>1, <1>4, <1>7 DEF StreamTypes
  <1> QED BY <1>5, <1>7, <1>8 DEF StreamInv

\* A reader breaks off.
LEMMA DisconnectStep ==
    ASSUME StreamInv, NEW c \in Client, Disconnect(c)
    PROVE  StreamInv'
  <1>1. /\ UNCHANGED <<source, pump, events, nextEvent, cursor, took>>
        /\ reader' = [reader EXCEPT ![c] = "off"]
    BY DEF Disconnect, coordinatorVars, pumpVars, bufferVars
  <1>2. StreamTypes'
    BY <1>1 DEF StreamInv, StreamTypes
  <1>3. Buffer'
    BY <1>1 DEF StreamInv, Buffer, Numbered, Past, ResyncsAreNew
  <1>4. \A d \in Client : (CursorKnown(d) /\ Follows(took[d].from, took[d].batch))'
    BY <1>1 DEF StreamInv, CursorKnown, Follows, Succeeds
  <1> QED BY <1>2, <1>3, <1>4 DEF StreamInv

\* StreamInv is inductive.
LEMMA StreamInvHolds == StreamSpec => []StreamInv
  <1>1. StreamInit => StreamInv
    <2> SUFFICES ASSUME StreamInit PROVE StreamInv
      OBVIOUS
    <2>1. StreamTypes
      BY EventTyped DEF StreamInit, StreamTypes, Samples
    <2>2. Buffer
      BY DEF StreamInit, Buffer, Numbered, Past, ResyncsAreNew
    <2>3. \A c \in Client : CursorKnown(c) /\ Follows(took[c].from, took[c].batch)
      <3> TAKE c \in Client
      <3>1. took[c].batch = <<>> /\ cursor[c] = 0 /\ nextEvent = 1
        BY DEF StreamInit
      <3> QED BY <3>1 DEF CursorKnown, Follows
    <2> QED BY <2>1, <2>2, <2>3 DEF StreamInv
  <1>2. StreamInv /\ [StreamNext]_streamVars => StreamInv'
    <2> SUFFICES ASSUME StreamInv, [StreamNext]_streamVars PROVE StreamInv'
      OBVIOUS
    <2>1. ASSUME NEW c \in Client, ReplayStream(c) PROVE StreamInv'
      BY <2>1, ResyncStep, ContinueStep DEF ReplayStream
    <2>2. ASSUME NEW c \in Client, WaitAfter(c) PROVE StreamInv'
      BY <2>2, ResyncStep, ContinueStep DEF WaitAfter
    <2> QED BY <2>1, <2>2, QuietStep, PumpStep, DisconnectStep DEF StreamNext
  <1> QED BY <1>1, <1>2, PTL DEF StreamSpec

\* What a reader applies is a history of the coordinator: it starts with a snapshot, goes from
\* one revision to the next or is resynchronized, and never back, for any number of readers,
\* any window, and any order of sampling, publishing, breaking off and returning (events.py).
THEOREM StreamCorrect == StreamSpec => []StreamFollowsState
  <1>1. StreamInv => StreamFollowsState
    BY DEF StreamInv, StreamFollowsState, Follows
  <1> QED BY <1>1, StreamInvHolds, PTL

-----------------------------------------------------------------------------
(* NetworkStream: what holds at every step *)

Statuses == [epoch : Nat \ {0}, revision : Nat, tx : BOOLEAN, observed : {0, 1}]
Entries == [id : Nat, status : Statuses, kind : {"transaction", "snapshot"}]

NetTypes ==
    /\ authority \in [epoch : Nat \ {0}, revision : Nat, tx : BOOLEAN, up : BOOLEAN]
    /\ observed \in {0, 1}
    /\ log \in Seq(Entries) /\ nextDelivery \in Nat /\ lastStatus \in Statuses \cup {Nothing}
    /\ follower \in [Follower -> [at : {"off", "open", "on", "poll"},
                                  sample : Statuses \cup {Nothing}]]
    /\ \A f \in Follower : follower[f].at \in {"open", "poll"} => follower[f].sample \in Statuses
    /\ seen \in [Follower -> Nat] /\ shown \in [Follower -> Statuses \cup {Nothing}]
    /\ outgrown \in [Follower -> SUBSET Nat]

Later(a, b) == a.epoch = b.epoch => a.revision <= b.revision

\* An authority's statuses are published in the order of its revisions and next to one
\* another; the authorities before the last one are retired.
LogOrdered(l, next, last, old) ==
    /\ l # <<>> => last = l[Len(l)].status
    /\ l = <<>> <=> last = Nothing
    /\ last = Nothing => old = {}
    /\ last.epoch \notin old
    /\ \A i \in 1..Len(l) : l[i].id < next /\ l[i].status.epoch \in old \cup {last.epoch}
    /\ \A i, j \in 1..Len(l) : i < j => l[i].id < l[j].id /\ Later(l[i].status, l[j].status)
    /\ \A i, j, k \in 1..Len(l) :
          i < j /\ j < k /\ l[i].status.epoch = l[k].status.epoch =>
              l[j].status.epoch = l[k].status.epoch

\* What a reader has yet to take goes on from what it was shown, and comes from no authority
\* that it has left.
ReaderOrdered(last, next, l, newest, old, was, left) ==
    /\ last < next
    /\ was # Nothing => was.epoch \in old \cup {newest.epoch} /\ Later(was, newest)
    /\ left \subseteq old
    /\ \A k \in 1..Len(l) :
         l[k].id > last => Later(was, l[k].status) /\ l[k].status.epoch \notin left
    /\ \A i, k \in 1..Len(l) :
          i < k /\ l[i].id > last /\ l[k].status.epoch = was.epoch =>
              l[i].status.epoch = was.epoch

NetInv ==
    /\ NetTypes
    /\ LogOrdered(log, nextDelivery, lastStatus, retired)
    /\ \A f \in Follower :
         ReaderOrdered(seen[f], nextDelivery, log, lastStatus, retired, shown[f], outgrown[f])

-----------------------------------------------------------------------------
(* The log and its readers *)

\* What the log says of its entries.
LEMMA StatusTyped ==
    /\ \A s \in Statuses : s.epoch \in Nat /\ s.epoch # 0 /\ s.revision \in Nat
    /\ \A e \in Entries : e.id \in Nat /\ e.status \in Statuses
    /\ Nothing.epoch = 0 /\ Nothing.revision = 0 /\ Nothing \notin Statuses
  BY DEF Statuses, Entries, Nothing

\* A status that may follow the last one of the log.
MayFollow(s) ==
    /\ s \in Statuses
    /\ lastStatus # Nothing => Later(lastStatus, s)
    /\ s.epoch # lastStatus.epoch => s.epoch \notin retired

\* What is published may follow.
LEMMA FreshFollows ==
    ASSUME NetTypes, LogOrdered(log, nextDelivery, lastStatus, retired), NEW s \in Statuses
    PROVE  /\ Relation(s) \notin {"same", "stale"} => MayFollow(s)
           /\ lastStatus # Nothing => MayFollow(lastStatus)
           /\ Relation(s) \in {"same", "stale"} => lastStatus # Nothing
  <1>1. /\ lastStatus # Nothing => lastStatus.revision \in Nat /\ lastStatus \in Statuses
        /\ s.revision \in Nat
    BY StatusTyped DEF NetTypes
  <1>2. lastStatus # Nothing => MayFollow(lastStatus)
    BY <1>1 DEF MayFollow, Later
  <1>3. Relation(s) \notin {"same", "stale"} => MayFollow(s)
    <2>1. CASE lastStatus = Nothing
      <3>1. s.epoch \notin retired
        BY <2>1 DEF LogOrdered
      <3> QED BY <2>1, <3>1 DEF MayFollow, Relation
    <2>2. CASE lastStatus # Nothing /\ s.epoch = lastStatus.epoch
      BY <1>1, <2>2 DEF MayFollow, Later, Relation
    <2>3. CASE lastStatus # Nothing /\ s.epoch # lastStatus.epoch
      BY <2>3 DEF MayFollow, Later, Relation
    <2> QED BY <2>1, <2>2, <2>3
  <1>4. Relation(s) \in {"same", "stale"} => lastStatus # Nothing
    BY DEF Relation
  <1> QED BY <1>2, <1>3, <1>4

\* A publication keeps the log in order, and its readers.
LEMMA NetPublished ==
    ASSUME NetInv, NEW s, NEW snapshot \in BOOLEAN, MayFollow(s),
           NetPublish(nextDelivery, s, snapshot)
    PROVE  /\ log' \in Seq(Entries) /\ nextDelivery' \in Nat /\ nextDelivery' >= nextDelivery
           /\ lastStatus' \in Statuses
           /\ LogOrdered(log', nextDelivery', lastStatus', retired')
           /\ \A f \in Follower : ReaderOrdered(seen[f], nextDelivery', log', lastStatus',
                                                retired', shown[f], outgrown[f])
  <1> DEFINE n == Len(log)
             e == NetEvent(nextDelivery, s, snapshot)
  <1>1. /\ NetTypes /\ LogOrdered(log, nextDelivery, lastStatus, retired)
        /\ nextDelivery \in Nat /\ n \in Nat /\ s \in Statuses
        /\ log \in Seq(Entries) /\ lastStatus \in Statuses \cup {Nothing}
    BY DEF NetInv, NetTypes, MayFollow
  <1>2. e \in Entries /\ e.id = nextDelivery /\ e.status = s
    BY <1>1 DEF NetEvent, Entries
  <1>3. PICK d \in {0, 1} :
          /\ log' \in Seq(Entries)
          /\ d <= n /\ Len(log') = n + 1 - d
          /\ log'[n + 1 - d] = e
          /\ \A i \in 1..(n - d) : log'[i] = log[i + d]
    <2>1. log' = (IF Len(Append(log, e)) > NetWindow THEN Tail(Append(log, e))
                                                     ELSE Append(log, e))
      BY DEF NetPublish
    <2>2. NetWindow \in Nat \ {0}
      BY NetStreamBounds
    <2> HIDE DEF e
    <2> QED BY <1>1, <1>2, <2>1, <2>2, Windowed
  <1> HIDE DEF e
  <1>4. /\ nextDelivery' = nextDelivery + 1 /\ lastStatus' = s
        /\ retired' = IF lastStatus # Nothing /\ lastStatus.epoch # s.epoch
                      THEN retired \cup {lastStatus.epoch} ELSE retired
    BY DEF NetPublish
  <1> HIDE DEF n
  <1>5. \A j \in 1..(n + 1 - d) : j = n + 1 - d \/ (j \in 1..(n - d) /\ j + d \in 1..n)
    BY <1>1, <1>3
  <1>6. /\ s.epoch \notin retired' /\ retired \subseteq retired'
        /\ lastStatus # Nothing => lastStatus.epoch \in retired' \cup {s.epoch}
    BY <1>1, <1>4 DEF MayFollow, LogOrdered
  \* the entries as they were
  <1>7. /\ \A i \in 1..n : /\ log[i] \in Entries /\ log[i].id < nextDelivery
                           /\ log[i].status.epoch \in retired' \cup {s.epoch}
                           /\ Later(log[i].status, s)
        /\ n # 0 => lastStatus # Nothing /\ lastStatus = log[n].status
    <2>1. ASSUME NEW i \in 1..n
          PROVE  /\ log[i] \in Entries /\ log[i].id < nextDelivery
                 /\ log[i].status.epoch \in retired \cup {lastStatus.epoch}
                 /\ lastStatus # Nothing /\ lastStatus = log[n].status
                 /\ i = n \/ Later(log[i].status, lastStatus)
      BY <1>1 DEF LogOrdered, n
    <2>2. ASSUME NEW i \in 1..n PROVE Later(log[i].status, s)
      <3>1. /\ log[i].status \in Statuses /\ lastStatus \in Statuses
            /\ log[i].status.epoch \in Nat /\ log[i].status.revision \in Nat
            /\ lastStatus.revision \in Nat /\ s.revision \in Nat
        BY <1>1, <2>1, StatusTyped
      <3>2. Later(log[i].status, lastStatus) /\ Later(lastStatus, s)
        BY <2>1, <3>1 DEF MayFollow, Later
      <3>3. log[i].status.epoch = s.epoch => lastStatus.epoch = s.epoch
        BY <2>1 DEF MayFollow
      <3> QED BY <3>1, <3>2, <3>3 DEF Later
    <2>3. n # 0 => n \in 1..n
      BY <1>1
    <2> QED BY <1>6, <2>1, <2>2, <2>3
  \* an authority that comes back has never gone
  <1>8. ASSUME NEW i \in 1..n, log[i].status.epoch = s.epoch, NEW j \in 1..n, i < j
        PROVE  log[j].status.epoch = s.epoch
    <2>1. n \in 1..n /\ lastStatus = log[n].status /\ lastStatus # Nothing
      BY <1>1, <1>7
    <2>2. log[i].status.epoch \in retired \cup {lastStatus.epoch}
      BY <1>1 DEF LogOrdered, n
    <2>3. lastStatus.epoch = s.epoch
      BY <1>8, <2>2 DEF MayFollow
    <2> QED BY <1>1, <1>8, <2>1, <2>3 DEF LogOrdered, n
  <1>9. LogOrdered(log', nextDelivery', lastStatus', retired')
    <2>1. log' # <<>> /\ lastStatus' = log'[Len(log')].status /\ lastStatus' # Nothing
      BY <1>1, <1>2, <1>3, <1>4, StatusTyped
    <2>2. ASSUME NEW i \in 1..(n + 1 - d)
          PROVE  /\ log'[i].id < nextDelivery'
                 /\ log'[i].status.epoch \in retired' \cup {lastStatus'.epoch}
      <3>1. CASE i = n + 1 - d
        BY <1>1, <1>2, <1>3, <1>4, <3>1
      <3>2. CASE i \in 1..(n - d) /\ i + d \in 1..n
        <4>1. log'[i] = log[i + d] /\ log[i + d] \in Entries /\ log[i + d].id < nextDelivery
          BY <1>3, <1>7, <3>2
        <4>2. log'[i].id \in Nat
          BY <4>1, StatusTyped
        <4>3. log'[i].id < nextDelivery'
          BY <1>1, <1>4, <4>1, <4>2
        <4>4. log'[i].status.epoch \in retired' \cup {s.epoch}
          BY <1>7, <3>2, <4>1
        <4> QED BY <1>4, <4>3, <4>4
      <3> QED BY <1>5, <3>1, <3>2
    <2>3. ASSUME NEW i \in 1..(n + 1 - d), NEW j \in 1..(n + 1 - d), i < j
          PROVE  log'[i].id < log'[j].id /\ Later(log'[i].status, log'[j].status)
      <3>1. i \in 1..(n - d) /\ i + d \in 1..n /\ log'[i] = log[i + d]
        BY <1>1, <1>3, <1>5, <2>3
      <3>2. CASE j = n + 1 - d
        BY <1>2, <1>3, <1>7, <3>1, <3>2
      <3>3. CASE j \in 1..(n - d) /\ j + d \in 1..n
        <4>1. log'[j] = log[j + d] /\ i + d < j + d
          BY <1>1, <1>3, <2>3, <3>3
        <4> QED BY <1>1, <3>1, <3>3, <4>1 DEF LogOrdered, n
      <3> QED BY <1>5, <3>2, <3>3
    <2>4. ASSUME NEW i \in 1..(n + 1 - d), NEW j \in 1..(n + 1 - d), NEW k \in 1..(n + 1 - d),
                 i < j, j < k, log'[i].status.epoch = log'[k].status.epoch
          PROVE  log'[j].status.epoch = log'[k].status.epoch
      <3>0. /\ i # n + 1 - d /\ j # n + 1 - d /\ i + d < j + d
        BY <1>1, <2>4
      <3>1. /\ i \in 1..(n - d) /\ i + d \in 1..n /\ log'[i] = log[i + d]
            /\ j \in 1..(n - d) /\ j + d \in 1..n /\ log'[j] = log[j + d]
            /\ i + d < j + d
        BY <1>3, <1>5, <3>0
      <3>2. CASE k = n + 1 - d
        BY <1>2, <1>3, <1>8, <2>4, <3>1, <3>2
      <3>3. CASE k \in 1..(n - d) /\ k + d \in 1..n
        <4>1. log'[k] = log[k + d] /\ j + d < k + d
          BY <1>1, <1>3, <2>4, <3>3
        <4>2. /\ i + d \in 1..Len(log) /\ j + d \in 1..Len(log) /\ k + d \in 1..Len(log)
              /\ log[i + d].status.epoch = log[k + d].status.epoch
          BY <2>4, <3>1, <3>3, <4>1 DEF n
        <4>3. log[j + d].status.epoch = log[k + d].status.epoch
          <5> DEFINE a == i + d
                     b == j + d
                     c == k + d
          <5>1. a < b /\ b < c
            BY <3>1, <4>1
          <5> HIDE DEF a, b, c
          <5>2. \A x, y, z \in 1..Len(log) :
                  x < y /\ y < z /\ log[x].status.epoch = log[z].status.epoch =>
                    log[y].status.epoch = log[z].status.epoch
            BY <1>1 DEF LogOrdered
          <5>3. /\ a \in 1..Len(log) /\ b \in 1..Len(log) /\ c \in 1..Len(log)
                /\ log[a].status.epoch = log[c].status.epoch
            BY <4>2 DEF a, b, c
          <5>4. log[b].status.epoch = log[c].status.epoch
            BY <5>1, <5>2, <5>3
          <5> QED BY <5>4 DEF b, c
        <4> QED BY <3>1, <4>1, <4>3
      <3> QED BY <1>5, <3>2, <3>3
    <2> QED BY <1>3, <1>4, <1>6, <2>1, <2>2, <2>3, <2>4 DEF LogOrdered
  <1>10. ASSUME NEW f \in Follower
         PROVE  ReaderOrdered(seen[f], nextDelivery', log', lastStatus', retired', shown[f],
                              outgrown[f])
    <2> DEFINE was == shown[f]
               left == outgrown[f]
               last == seen[f]
    <2>1. /\ ReaderOrdered(last, nextDelivery, log, lastStatus, retired, was, left)
          /\ was \in Statuses \cup {Nothing} /\ last \in Nat
      BY <1>1 DEF NetInv, NetTypes
    <2> HIDE DEF was, left, last
    <2>2. /\ was.epoch \in Nat /\ was.revision \in Nat /\ s.epoch \in Nat /\ s.epoch # 0
          /\ s.revision \in Nat /\ (was = Nothing => was.epoch = 0)
          /\ (was # Nothing => was.epoch # 0 /\ lastStatus # Nothing)
          /\ lastStatus.epoch \in Nat /\ lastStatus.revision \in Nat
      BY <1>1, <2>1, StatusTyped DEF ReaderOrdered, LogOrdered
    <2>3. last < nextDelivery' /\ left \subseteq retired'
      BY <1>1, <1>4, <1>6, <2>1 DEF ReaderOrdered
    <2>4. was.epoch = s.epoch => lastStatus.epoch = s.epoch /\ lastStatus # Nothing
      BY <2>1, <2>2 DEF ReaderOrdered, MayFollow
    <2>5. Later(was, s)
      BY <2>1, <2>2, <2>4 DEF ReaderOrdered, MayFollow, Later
    <2>6. was # Nothing => was.epoch \in retired' \cup {s.epoch}
      BY <1>6, <2>1, <2>2 DEF ReaderOrdered
    <2>7. ASSUME NEW k \in 1..(n + 1 - d), log'[k].id > last
          PROVE  Later(was, log'[k].status) /\ log'[k].status.epoch \notin left
      <3>1. CASE k = n + 1 - d
        BY <1>2, <1>3, <1>6, <2>3, <2>5, <3>1
      <3>2. CASE k \in 1..(n - d) /\ k + d \in 1..n
        BY <1>3, <2>1, <2>7, <3>2 DEF ReaderOrdered, n
      <3> QED BY <1>5, <3>1, <3>2
    <2>8. ASSUME NEW i \in 1..(n + 1 - d), NEW k \in 1..(n + 1 - d), i < k,
                 log'[i].id > last, log'[k].status.epoch = was.epoch
          PROVE  log'[i].status.epoch = was.epoch
      <3>1. i \in 1..(n - d) /\ i + d \in 1..n /\ log'[i] = log[i + d]
        BY <1>1, <1>3, <1>5, <2>8
      <3>2. CASE k = n + 1 - d
        <4>1. lastStatus.epoch = was.epoch /\ lastStatus = log[n].status /\ n \in 1..n
          BY <1>1, <1>2, <1>3, <1>7, <2>4, <2>8, <3>1, <3>2
        <4>2. CASE i + d = n
          BY <3>1, <4>1, <4>2
        <4>3. CASE i + d < n
          BY <2>1, <2>8, <3>1, <4>1, <4>3 DEF ReaderOrdered, n
        <4> QED BY <1>1, <3>1, <4>2, <4>3
      <3>3. CASE k \in 1..(n - d) /\ k + d \in 1..n
        <4>1. log'[k] = log[k + d] /\ i + d < k + d
          BY <1>1, <1>3, <2>8, <3>3
        <4> QED BY <2>1, <2>8, <3>1, <3>3, <4>1 DEF ReaderOrdered, n
      <3> QED BY <1>5, <3>2, <3>3
    <2>9. ReaderOrdered(last, nextDelivery', log', lastStatus', retired', was, left)
      BY <1>3, <1>4, <2>3, <2>5, <2>6, <2>7, <2>8 DEF ReaderOrdered
    <2> QED BY <2>9 DEF was, left, last
  <1>11. nextDelivery' \in Nat /\ nextDelivery' >= nextDelivery
    BY <1>1, <1>4
  <1>12. lastStatus' \in Statuses
    BY <1>1, <1>4
  <1> QED BY <1>3, <1>9, <1>10, <1>11, <1>12

\* The authorities a reader has left when it has taken the log up to its n-th entry.
Leaves(after, left, was, l, last, n) ==
    \A x \in after : /\ x # 0 /\ x # l[n].status.epoch
                     /\ \/ x \in left \/ x = was.epoch
                        \/ \E i \in 1..n : l[i].id > last /\ x = l[i].status.epoch

\* A reader that takes the log up to its n-th entry goes on in order.
LEMMA TakesOn ==
    ASSUME NEW l \in Seq(Entries), NEW next \in Nat, NEW newest, NEW old,
           LogOrdered(l, next, newest, old),
           NEW last \in Nat, NEW was \in Statuses \cup {Nothing}, NEW left,
           ReaderOrdered(last, next, l, newest, old, was, left),
           NEW n \in 1..Len(l), l[n].id > last,
           NEW after, Leaves(after, left, was, l, last, n)
    PROVE  ReaderOrdered(l[n].id, next, l, newest, old, l[n].status, after)
  <1>1. \A i \in 1..Len(l) : l[i] \in Entries /\ l[i].id \in Nat /\ l[i].status \in Statuses
    BY StatusTyped
  <1>2. Len(l) \in Nat /\ Len(l) \in 1..Len(l) /\ newest = l[Len(l)].status /\ n <= Len(l)
    BY DEF LogOrdered
  <1>3. ASSUME NEW k \in 1..Len(l), l[k].id > l[n].id PROVE n < k
    <2>1. CASE k < n
      <3>1. l[k].id < l[n].id
        BY <2>1 DEF LogOrdered
      <3> QED BY <1>1, <1>3, <3>1
    <2>2. CASE k = n
      BY <1>1, <1>3, <2>2
    <2> QED BY <2>1, <2>2
  \* who has been shown an authority before n and meets it after n is shown it at n
  <1>4. ASSUME NEW k \in 1..Len(l), n <= k, l[k].status.epoch \in after
        PROVE  l[k].status.epoch \in left
    <2>1. n # k /\ l[k].status.epoch # l[n].status.epoch
      BY <1>4 DEF Leaves
    <2>2. l[k].status.epoch # l[n].status.epoch
      BY <2>1
    <2>3. l[k].status.epoch # was.epoch
      BY <1>4, <2>1, <2>2 DEF ReaderOrdered
    <2>4. ASSUME NEW i \in 1..n PROVE l[k].status.epoch # l[i].status.epoch
      <3>1. CASE i = n
        BY <2>2, <3>1
      <3>2. CASE i < n
        BY <1>4, <2>1, <2>2, <3>2 DEF LogOrdered
      <3> QED BY <3>1, <3>2
    <2> QED BY <1>4, <2>3, <2>4 DEF Leaves
  <1>5. l[n].id < next /\ l[n].status.epoch \in old \cup {newest.epoch}
    BY DEF LogOrdered
  <1>6. Later(l[n].status, newest)
    <2>1. CASE n = Len(l)
      BY <1>1, <1>2, <2>1, StatusTyped DEF Later
    <2>2. CASE n < Len(l)
      BY <1>2, <2>2 DEF LogOrdered
    <2> QED BY <1>2, <2>1, <2>2
  <1>7. after \subseteq old
    <2> SUFFICES ASSUME NEW x \in after PROVE x \in old
      OBVIOUS
    <2>1. left \subseteq old /\ newest.epoch \notin left
      BY DEF ReaderOrdered, LogOrdered
    <2>2. x # newest.epoch
      BY <1>2, <1>4, <2>1
    <2>3. CASE x \in left
      BY <2>1, <2>3
    <2>4. CASE x = was.epoch
      <3>1. was # Nothing
        BY <2>4 DEF Nothing, Leaves
      <3> QED BY <2>2, <2>4, <3>1 DEF ReaderOrdered
    <2>5. ASSUME NEW i \in 1..n, x = l[i].status.epoch PROVE x \in old
      <3>1. i \in 1..Len(l)
        BY <1>2
      <3> QED BY <2>2, <2>5, <3>1 DEF LogOrdered
    <2> QED BY <2>3, <2>4, <2>5 DEF Leaves
  <1>8. ASSUME NEW k \in 1..Len(l), l[k].id > l[n].id
        PROVE  Later(l[n].status, l[k].status) /\ l[k].status.epoch \notin after
    <2>1. n < k
      BY <1>3, <1>8
    <2>2. l[k].id > last
      BY <1>1, <1>8
    <2>3. l[k].status.epoch \notin left
      BY <2>2 DEF ReaderOrdered
    <2>4. Later(l[n].status, l[k].status)
      BY <2>1 DEF LogOrdered
    <2>5. l[k].status.epoch \notin after
      BY <1>4, <2>1, <2>3
    <2> QED BY <2>4, <2>5
  <1>9. ASSUME NEW i \in 1..Len(l), NEW k \in 1..Len(l), i < k, l[i].id > l[n].id,
               l[k].status.epoch = l[n].status.epoch
        PROVE  l[i].status.epoch = l[n].status.epoch
    <2>1. n < i
      BY <1>3, <1>9
    <2> QED BY <1>9, <2>1 DEF LogOrdered
  <1> QED BY <1>5, <1>6, <1>7, <1>8, <1>9 DEF ReaderOrdered

\* A reader that takes nothing stays where it was.
LEMMA TakesNothing ==
    ASSUME NEW l, NEW next, NEW newest, NEW old, NEW last, NEW was, NEW left, NEW after,
           after \subseteq left, ReaderOrdered(last, next, l, newest, old, was, left)
    PROVE  ReaderOrdered(last, next, l, newest, old, was, after)
  BY DEF ReaderOrdered

\* What a reader is shown is no older than what it was shown, nor of an authority it left.
Forward(was, is, left) ==
    is # was => /\ is.epoch = was.epoch => is.revision >= was.revision
                /\ is.epoch \notin left

\* A reader takes from a log that goes on in order.
LEMMA NetReceived ==
    ASSUME NetInv, NEW f \in Follower, NetReceive(f),
           log' \in Seq(Entries), nextDelivery' \in Nat,
           LogOrdered(log', nextDelivery', lastStatus', retired'),
           \A g \in Follower : ReaderOrdered(seen[g], nextDelivery', log', lastStatus', retired',
                                             shown[g], outgrown[g])
    PROVE  /\ follower' \in [Follower -> [at : {"off", "open", "on", "poll"},
                                          sample : Statuses \cup {Nothing}]]
           /\ \A g \in Follower : follower'[g].at \in {"open", "poll"} =>
                                    follower'[g].sample \in Statuses
           /\ seen' \in [Follower -> Nat] /\ shown' \in [Follower -> Statuses \cup {Nothing}]
           /\ outgrown' \in [Follower -> SUBSET Nat]
           /\ \A g \in Follower : ReaderOrdered(seen'[g], nextDelivery', log', lastStatus',
                                                retired', shown'[g], outgrown'[g])
           /\ \A g \in Follower : Forward(shown[g], shown'[g], outgrown[g])
  <1> DEFINE l == log'
             fresh == {i \in 1..Len(l) : l[i].id > seen[f]}
  <1>1. /\ follower \in [Follower -> [at : {"off", "open", "on", "poll"},
                                      sample : Statuses \cup {Nothing}]]
        /\ \A g \in Follower : follower[g].at \in {"open", "poll"} =>
                                 follower[g].sample \in Statuses
        /\ seen \in [Follower -> Nat] /\ shown \in [Follower -> Statuses \cup {Nothing}]
        /\ outgrown \in [Follower -> SUBSET Nat]
    BY DEF NetInv, NetTypes
  <1>2. PICK n \in {0} \cup fresh :
          /\ \E at \in {"on", "off"} : follower' = [follower EXCEPT ![f].at = at]
          /\ seen' = IF n = 0 THEN seen ELSE [seen EXCEPT ![f] = l[n].id]
          /\ shown' = IF n = 0 THEN shown ELSE [shown EXCEPT ![f] = l[n].status]
          /\ outgrown' = [outgrown EXCEPT ![f] =
                (@ \cup {shown[f].epoch} \cup {l[i].status.epoch : i \in fresh \cap 1..n})
                  \ {0, shown'[f].epoch}]
    BY DEF NetReceive
  <1>3. /\ l \in Seq(Entries) /\ nextDelivery' \in Nat
        /\ LogOrdered(l, nextDelivery', lastStatus', retired')
        /\ \A g \in Follower : ReaderOrdered(seen[g], nextDelivery', l, lastStatus', retired',
                                             shown[g], outgrown[g])
    OBVIOUS
  <1>4. \A i \in 1..Len(l) : /\ l[i].id \in Nat /\ l[i].status \in Statuses
                             /\ l[i].status.epoch \in Nat
    BY <1>3, StatusTyped
  <1>5. shown[f].epoch \in Nat /\ 0 \notin 1..Len(l) /\ 1..0 = {} /\ Len(l) \in Nat
    BY <1>1, <1>3, StatusTyped
  <1> HIDE DEF l
  <1>6. /\ follower' \in [Follower -> [at : {"off", "open", "on", "poll"},
                                       sample : Statuses \cup {Nothing}]]
        /\ \A g \in Follower : follower'[g].at \in {"open", "poll"} =>
                                 follower'[g].sample \in Statuses
    BY <1>1, <1>2
  <1>7. /\ seen' \in [Follower -> Nat] /\ shown' \in [Follower -> Statuses \cup {Nothing}]
        /\ outgrown' \in [Follower -> SUBSET Nat]
    BY <1>1, <1>2, <1>4, <1>5
  <1>8. \A g \in Follower \ {f} :
          seen'[g] = seen[g] /\ shown'[g] = shown[g] /\ outgrown'[g] = outgrown[g]
    BY <1>1, <1>2
  <1>9. CASE n = 0
    <2>1. seen'[f] = seen[f] /\ shown' = shown /\ outgrown'[f] \subseteq outgrown[f]
      BY <1>1, <1>2, <1>5, <1>9
    <2> QED BY <1>3, <1>6, <1>7, <1>8, <2>1, TakesNothing DEF Forward, l
  <1>10. CASE n \in fresh
    <2>1. n # 0 /\ n \in 1..Len(l) /\ l[n].id > seen[f]
      BY <1>5, <1>10
    <2>2. seen'[f] = l[n].id /\ shown'[f] = l[n].status
      BY <1>1, <1>2, <2>1
    <2>3. outgrown'[f] = (outgrown[f] \cup {shown[f].epoch}
                            \cup {l[i].status.epoch : i \in fresh \cap 1..n})
                           \ {0, l[n].status.epoch}
      BY <1>1, <1>2, <2>2
    <2>4. ReaderOrdered(seen'[f], nextDelivery', l, lastStatus', retired', shown'[f],
                        outgrown'[f])
      <3>1. Leaves(outgrown'[f], outgrown[f], shown[f], l, seen[f], n)
        BY <2>3 DEF Leaves
      <3>2. seen[f] \in Nat /\ shown[f] \in Statuses \cup {Nothing}
        BY <1>1
      <3> HIDE DEF fresh
      <3>3. ReaderOrdered(seen[f], nextDelivery', l, lastStatus', retired', shown[f],
                          outgrown[f])
        BY <1>3
      <3>4. ReaderOrdered(l[n].id, nextDelivery', l, lastStatus', retired', l[n].status,
                          outgrown'[f])
        BY <1>3, <2>1, <3>1, <3>2, <3>3, TakesOn
      <3> QED BY <2>2, <3>4
    <2>5. Forward(shown[f], shown'[f], outgrown[f])
      <3>1. Later(shown[f], l[n].status) /\ l[n].status.epoch \notin outgrown[f]
        BY <1>3, <2>1 DEF ReaderOrdered
      <3>2. l[n].status.revision \in Nat /\ shown[f].revision \in Nat
        BY <1>1, <1>4, <2>1, StatusTyped
      <3> QED BY <2>2, <3>1, <3>2 DEF Forward, Later
    <2>6. \A g \in Follower \ {f} : Forward(shown[g], shown'[g], outgrown[g])
      BY <1>8 DEF Forward
    <2>7. \A g \in Follower \ {f} :
            ReaderOrdered(seen'[g], nextDelivery', l, lastStatus', retired', shown'[g],
                          outgrown'[g])
      BY <1>3, <1>8
    <2> QED BY <1>6, <1>7, <2>4, <2>5, <2>6, <2>7 DEF l
  <1> QED BY <1>9, <1>10

-----------------------------------------------------------------------------
(* NetworkStream: step by step *)

Forwards == \A g \in Follower : Forward(shown[g], shown'[g], outgrown[g])

\* A reader applies its sample, however old, and takes what the log has for it.
LEMMA NetReplayStep ==
    ASSUME NetInv, NEW f \in Follower, NetReplay(f)
    PROVE  NetInv' /\ Forwards
  <1>1. /\ NetTypes /\ LogOrdered(log, nextDelivery, lastStatus, retired)
        /\ \A g \in Follower : ReaderOrdered(seen[g], nextDelivery, log, lastStatus, retired,
                                             shown[g], outgrown[g])
    BY DEF NetInv
  <1>2. PICK s \in Statuses : IF Known(seen[f]) THEN ObserveStatus(s) ELSE PublishSnapshot(s)
    BY <1>1 DEF NetReplay, NetTypes
  <1>3. /\ Relation(s) \notin {"same", "stale"} => MayFollow(s)
        /\ lastStatus # Nothing => MayFollow(lastStatus)
        /\ Relation(s) \in {"same", "stale"} => lastStatus # Nothing
    BY <1>1, FreshFollows
  <1>4. CASE UNCHANGED logVars
    <2>1. /\ log' = log /\ nextDelivery' = nextDelivery /\ lastStatus' = lastStatus
          /\ retired' = retired
      BY <1>4 DEF logVars
    <2>2. /\ log' \in Seq(Entries) /\ nextDelivery' \in Nat
          /\ lastStatus' \in Statuses \cup {Nothing}
          /\ LogOrdered(log', nextDelivery', lastStatus', retired')
          /\ \A g \in Follower : ReaderOrdered(seen[g], nextDelivery', log', lastStatus',
                                               retired', shown[g], outgrown[g])
      BY <1>1, <2>1 DEF NetTypes
    <2>3. NetReceive(f)
      BY DEF NetReplay
    <2>4. UNCHANGED <<authority, observed>>
      BY DEF NetReplay, sourceVars
    <2> QED BY <1>1, <2>2, <2>3, <2>4, NetReceived DEF NetInv, NetTypes, Forwards
  <1>5. ASSUME NEW x, MayFollow(x), NEW snapshot \in BOOLEAN,
               NetPublish(nextDelivery, x, snapshot)
        PROVE  NetInv' /\ Forwards
    <2>1. /\ log' \in Seq(Entries) /\ nextDelivery' \in Nat /\ lastStatus' \in Statuses
          /\ LogOrdered(log', nextDelivery', lastStatus', retired')
          /\ \A g \in Follower : ReaderOrdered(seen[g], nextDelivery', log', lastStatus',
                                               retired', shown[g], outgrown[g])
      BY <1>5, NetPublished
    <2>2. NetReceive(f)
      BY DEF NetReplay
    <2>3. UNCHANGED <<authority, observed>>
      BY DEF NetReplay, sourceVars
    <2> QED BY <1>1, <2>1, <2>2, <2>3, NetReceived DEF NetInv, NetTypes, Forwards
  <1>6. CASE Known(seen[f])
    <2>1. ObserveStatus(s)
      BY <1>2, <1>6
    <2>2. CASE Relation(s) \in {"same", "stale"}
      BY <1>4, <2>1, <2>2 DEF ObserveStatus
    <2>3. CASE Relation(s) \notin {"same", "stale"}
      <3>1. NetPublish(nextDelivery, s, Relation(s) # "new")
        BY <2>1, <2>3 DEF ObserveStatus
      <3>2. (Relation(s) # "new") \in BOOLEAN
        OBVIOUS
      <3> QED BY <1>3, <1>5, <2>3, <3>1, <3>2
    <2> QED BY <2>2, <2>3
  <1>7. CASE ~Known(seen[f])
    <2>1. PublishSnapshot(s)
      BY <1>2, <1>7
    <2> DEFINE x == IF Relation(s) \in {"same", "stale"} THEN lastStatus ELSE s
    <2>2. NetPublish(nextDelivery, x, TRUE)
      BY <2>1 DEF PublishSnapshot
    <2>3. MayFollow(x)
      BY <1>3
    <2> HIDE DEF x
    <2> QED BY <1>5, <2>2, <2>3
  <1> QED BY <1>6, <1>7

\* Nothing else touches the log, nor what a reader was shown.
LEMMA NetQuietStep ==
    ASSUME NetInv,
           \/ Revise \/ Observe \/ ControllerSilent \/ ControllerAnswers \/ ControllerReset
           \/ \E f \in Follower : Sample(f) \/ NetDisconnect(f)
           \/ UNCHANGED netStreamVars
    PROVE  NetInv' /\ Forwards
  <1>1. UNCHANGED <<log, nextDelivery, lastStatus, retired, seen, shown, outgrown>>
    BY DEF Revise, Observe, ControllerSilent, ControllerAnswers, ControllerReset, Sample,
           NetDisconnect, netStreamVars, logVars, followerVars
  <1>2. NetTypes
    BY DEF NetInv
  <1>3. /\ authority' \in [epoch : Nat \ {0}, revision : Nat, tx : BOOLEAN, up : BOOLEAN]
        /\ observed' \in {0, 1}
    <2>1. CASE Revise
      <3>1. PICK tx \in BOOLEAN :
              authority' = [authority EXCEPT !.revision = @ + 1, !.tx = tx]
        BY <2>1 DEF Revise
      <3>2. authority.revision \in Nat
        BY <1>2 DEF NetTypes
      <3> DEFINE r == authority.revision + 1
      <3>3. r \in Nat
        BY <3>2
      <3>4. authority' = [authority EXCEPT !.revision = r, !.tx = tx]
        BY <3>1
      <3> HIDE DEF r
      <3>5. authority' \in [epoch : Nat \ {0}, revision : Nat, tx : BOOLEAN, up : BOOLEAN]
        BY <1>2, <3>3, <3>4 DEF NetTypes
      <3>6. observed' \in {0, 1}
        BY <1>2, <2>1 DEF NetTypes, Revise
      <3> QED BY <3>5, <3>6
    <2>2. CASE Observe
      BY <1>2, <2>2 DEF NetTypes, Observe
    <2>3. CASE ControllerSilent \/ ControllerAnswers
      BY <1>2, <2>3 DEF NetTypes, ControllerSilent, ControllerAnswers
    <2>4. CASE ControllerReset
      BY <1>2, <2>4 DEF NetTypes, ControllerReset
    <2>5. CASE \/ \E f \in Follower : Sample(f) \/ NetDisconnect(f)
               \/ UNCHANGED netStreamVars
      BY <1>2, <2>5 DEF NetTypes, Sample, NetDisconnect, netStreamVars, sourceVars
    <2> QED BY <2>1, <2>2, <2>3, <2>4, <2>5
  <1>4. /\ follower' \in [Follower -> [at : {"off", "open", "on", "poll"},
                                       sample : Statuses \cup {Nothing}]]
        /\ \A f \in Follower : follower'[f].at \in {"open", "poll"} =>
                                 follower'[f].sample \in Statuses
    <2>1. ASSUME NEW f \in Follower, Sample(f) PROVE <1>4!:
      <3>1. Status \in Statuses
        BY <1>2 DEF NetTypes, Status, Statuses, StandIn
      <3>2. PICK at \in {"open", "poll"} :
              follower' = [follower EXCEPT ![f] = [at |-> at, sample |-> Status]]
        BY <1>2, <2>1 DEF Sample, NetTypes
      <3> HIDE DEF Status
      <3> QED BY <1>2, <3>1, <3>2 DEF NetTypes
    <2>2. ASSUME NEW f \in Follower, NetDisconnect(f) PROVE <1>4!:
      BY <1>2, <2>2 DEF NetDisconnect, NetTypes
    <2>3. CASE \/ Revise \/ Observe \/ ControllerSilent \/ ControllerAnswers \/ ControllerReset
               \/ UNCHANGED netStreamVars
      <3>1. follower' = follower
        BY <2>3 DEF Revise, Observe, ControllerSilent, ControllerAnswers, ControllerReset,
                    netStreamVars, followerVars
      <3> QED BY <1>2, <3>1 DEF NetTypes
    <2> QED BY <2>1, <2>2, <2>3
  <1>5. NetTypes'
    BY <1>1, <1>2, <1>3, <1>4 DEF NetTypes
  <1>6. Forwards
    BY <1>1 DEF Forwards, Forward
  <1> QED BY <1>1, <1>5, <1>6 DEF NetInv

\* NetInv is inductive, and every step shows its readers something later.
LEMMA NetInvHolds == NetStreamSpec => []NetInv /\ [][Forwards]_netStreamVars
  <1>1. NetStreamInit => NetInv
    <2> SUFFICES ASSUME NetStreamInit PROVE NetInv
      OBVIOUS
    <2>1. NetTypes
      BY DEF NetStreamInit, NetTypes
    <2>2. LogOrdered(log, nextDelivery, lastStatus, retired)
      BY DEF NetStreamInit, LogOrdered, Nothing
    <2>3. \A f \in Follower : ReaderOrdered(seen[f], nextDelivery, log, lastStatus, retired,
                                            shown[f], outgrown[f])
      BY DEF NetStreamInit, ReaderOrdered, Nothing
    <2> QED BY <2>1, <2>2, <2>3 DEF NetInv
  <1>2. NetInv /\ [NetStreamNext]_netStreamVars => NetInv' /\ Forwards
    BY NetReplayStep, NetQuietStep DEF NetStreamNext
  <1> QED BY <1>1, <1>2, PTL DEF NetStreamSpec

\* What a network reader is shown never goes back to an older revision, nor to an authority it
\* has left, although readers sample the status outside the lock and apply it later: for any
\* readers, window, and number of changes and authorities (gateway.py, network events).
THEOREM NetworkForwardCorrect == NetStreamSpec => NetworkStreamForward
  <1>1. [][Forwards]_netStreamVars => NetworkStreamForward
    <2>1. [Forwards]_netStreamVars =>
            [\A f \in Follower :
               shown'[f] # shown[f] =>
                 /\ shown'[f].epoch = shown[f].epoch => shown'[f].revision >= shown[f].revision
                 /\ shown'[f].epoch \notin outgrown[f]]_netStreamVars
      BY DEF Forwards, Forward
    <2> QED BY <2>1, PTL DEF NetworkStreamForward
  <1> QED BY <1>1, NetInvHolds, PTL

-----------------------------------------------------------------------------
(* HttpEdge: what holds at every step *)

Streams == [kind : {"none", "sse", "preview"}, held : BOOLEAN, cancelled : BOOLEAN]

EdgeTypes ==
    /\ accepting \subseteq Conn
    /\ handler \in [Conn -> {"none", "loop", "peek", "header", "begin", "route", "readbody",
                             "body",
                             "command", "admitdownload", "download", "admitstream", "stream",
                             "finish", "answer", "reply", "exit", "done"}]
    /\ socket \in [Conn -> {"open", "shut"}]
    /\ request \in [Conn -> Request \cup {NoRequest}]
    /\ freeSlots \in [DOMAIN Slots -> Nat] /\ owed \in [DOMAIN Slots -> Nat]
    /\ streams \in [Conn -> Streams]
    /\ IsFiniteSet(active) /\ active \subseteq Conn

\* Between requests and while it is admitted to what it asked for, a connection has no body
\* before it unless it is to close; while it is read it may be reclaimed, otherwise not.
BodyAt(at, left, body, close) ==
    /\ at \in {"none", "loop", "peek", "header", "command", "admitdownload", "download",
               "admitstream", "stream", "finish", "answer"} => ~left
    /\ at = "route" => (left => body)
    /\ at = "reply" => (left => close)

YieldAt(at, waits, yields) ==
    /\ waits => at \in {"loop", "peek", "header", "body", "exit"}
    /\ at \in {"begin", "route", "readbody", "command", "admitdownload", "download",
               "admitstream",
               "stream", "finish", "answer"} => ~yields

RouteAt(at, r) ==
    /\ at \in {"begin", "route", "readbody", "body", "command", "admitdownload", "admitstream"} =>
         r \in Request
    /\ at = "admitstream" => r.route \in {"sse", "preview"}

HeldAt(at, loads, lives, s) ==
    /\ loads <=> at = "download"
    /\ lives <=> at \in {"stream", "finish"}
    /\ lives => s.kind \in DOMAIN Slots /\ s.held = ~s.cancelled
    /\ ~lives => ~s.held
    /\ at = "finish" => ~s.held

At(c) ==
    /\ BodyAt(handler[c], c \in unread, request[c].method \in BodyMethod, c \in closeAfter)
    /\ YieldAt(handler[c], c \in reclaimable, c \in yielded)
    /\ RouteAt(handler[c], request[c])
    /\ HeldAt(handler[c], c \in downloads, c \in active, streams[c])
    /\ c \in accepting => handler[c] = "none"

Holders(k) == {c \in Conn : streams[c].kind = k /\ streams[c].held}
SlotsCounted ==
    \A k \in DOMAIN Slots : freeSlots[k] + owed[k] + Cardinality(Holders(k)) = Slots[k]

EdgeInv == EdgeTypes /\ (\A c \in Conn : At(c)) /\ SlotsCounted

-----------------------------------------------------------------------------
(* HttpEdge: step by step *)

\* The kinds of streams.
LEMMA SlotKinds == DOMAIN Slots = {"sse", "preview"} /\ \A k \in DOMAIN Slots : Slots[k] \in Nat
  BY EdgeBounds

\* Whoever is made to yield was waiting to be reclaimed.
LEMMA OldestWaits == OldestReclaimable \subseteq reclaimable
  BY DEF OldestReclaimable

\* A step that leaves the streams alone leaves the slots counted.
LEMMA SlotsKept ==
    ASSUME EdgeInv, UNCHANGED <<freeSlots, owed, streams>>
    PROVE  SlotsCounted'
  BY DEF EdgeInv, SlotsCounted, Holders

\* What concerns a connection only changes with it.
LEMMA OthersStay ==
    ASSUME EdgeInv, NEW c \in Conn, At(c)',
           \A d \in Conn \ {c} :
             /\ handler'[d] = handler[d] /\ request'[d] = request[d] /\ streams'[d] = streams[d]
             /\ (d \in unread' <=> d \in unread) /\ (d \in closeAfter' <=> d \in closeAfter)
             /\ (d \in reclaimable' => d \in reclaimable)
             /\ (d \in downloads' <=> d \in downloads)
             /\ (d \in yielded' => d \in yielded \/ d \in reclaimable)
             /\ (d \in active' <=> d \in active)
             /\ (d \in accepting' => d \in accepting \/ handler[d] = "none")
    PROVE  \A d \in Conn : At(d)'
  <1> SUFFICES ASSUME NEW d \in Conn \ {c} PROVE At(d)'
    OBVIOUS
  <1>1. At(d)
    BY DEF EdgeInv
  <1>2. BodyAt(handler'[d], d \in unread', request'[d].method \in BodyMethod, d \in closeAfter')
    BY <1>1 DEF At, BodyAt
  <1>3. YieldAt(handler'[d], d \in reclaimable', d \in yielded')
    BY <1>1 DEF At, YieldAt
  <1>4. RouteAt(handler'[d], request'[d])
    BY <1>1 DEF At
  <1>5. HeldAt(handler'[d], d \in downloads', d \in active', streams'[d])
    BY <1>1 DEF At, HeldAt
  <1>6. d \in accepting' => handler'[d] = "none"
    BY <1>1 DEF At
  <1> QED BY <1>2, <1>3, <1>4, <1>5, <1>6 DEF At

\* The accept thread.
LEMMA AcceptStep ==
    ASSUME EdgeInv, NEW c \in Conn, AcceptConnection(c) \/ AcceptDecided(c)
    PROVE  EdgeInv'
  <1>1. EdgeTypes /\ At(c) /\ handler[c] = "none"
    BY DEF EdgeInv, AcceptConnection, AcceptDecided, At
  <1>2. UNCHANGED <<request, unread, closeAfter, downloads, freeSlots, owed, streams, active>>
    BY DEF AcceptConnection, AcceptDecided, streamRegistryVars
  <1>3. /\ accepting' \in {accepting, {}, {c}}
        /\ yielded' \subseteq yielded \cup reclaimable
        /\ socket' \in [Conn -> {"open", "shut"}]
        /\ \/ handler' = handler /\ reclaimable' = reclaimable
           \/ /\ handler' = [handler EXCEPT ![c] = "loop"] /\ reclaimable' = reclaimable \cup {c}
              /\ accepting' \in {accepting \ {c}, {}} /\ yielded' = yielded
           \/ /\ handler' = [handler EXCEPT ![c] = "done"] /\ reclaimable' = reclaimable
              /\ accepting' \in {accepting \ {c}, {}} /\ yielded' = yielded
    BY <1>1, OldestWaits DEF AcceptConnection, AcceptDecided, EdgeTypes, Admit, Refuse, Goto
  <1>4. EdgeTypes'
    BY <1>1, <1>2, <1>3 DEF EdgeTypes
  <1>5. At(c)'
    <2>1. BodyAt(handler'[c], c \in unread', request'[c].method \in BodyMethod, c \in closeAfter')
      BY <1>1, <1>2, <1>3 DEF At, BodyAt, EdgeTypes
    <2>2. YieldAt(handler'[c], c \in reclaimable', c \in yielded')
      BY <1>1, <1>3 DEF At, YieldAt, EdgeTypes
    <2>3. RouteAt(handler'[c], request'[c])
      BY <1>1, <1>2, <1>3 DEF RouteAt, EdgeTypes
    <2>4. HeldAt(handler'[c], c \in downloads', c \in active', streams'[c])
      BY <1>1, <1>2, <1>3 DEF At, HeldAt, EdgeTypes
    <2>5. c \in accepting' => handler'[c] = "none"
      BY <1>1, <1>3
    <2> QED BY <2>1, <2>2, <2>3, <2>4, <2>5 DEF At
  <1>6. \A d \in Conn : At(d)'
    BY <1>1, <1>2, <1>3, <1>5, OthersStay DEF EdgeTypes
  <1> QED BY <1>2, <1>4, <1>6, SlotsKept DEF EdgeInv

\* The handler at work on a request: where it may go, and in what state.
Working == {"loop", "peek", "header", "begin", "route", "readbody", "body", "command", "answer",
            "reply"}
WorkedAt(c) ==
    /\ BodyAt(handler[c], c \in unread, request[c].method \in BodyMethod, c \in closeAfter)
    /\ YieldAt(handler[c], c \in reclaimable, c \in yielded)
    /\ RouteAt(handler[c], request[c])

\* What a step on a request changes.
OnRequest(c) ==
    /\ handler[c] \in Working
    /\ \E at \in Working \cup {"exit", "admitdownload", "admitstream"} :
         handler' = [handler EXCEPT ![c] = at]
    /\ reclaimable' \in {reclaimable, reclaimable \cup {c}, reclaimable \ {c}}
    /\ unread' \in {unread, unread \cup {c}, unread \ {c}}
    /\ closeAfter' \in {closeAfter, closeAfter \cup {c}, closeAfter \ {c}}
    /\ \E r \in Request \cup {NoRequest} : request' = [request EXCEPT ![c] = r]
    /\ UNCHANGED <<accepting, yielded, socket, downloads, freeSlots, owed, streams, active>>

\* A step on a request keeps what holds of the connection if it keeps it of the request.
LEMMA RequestStep ==
    ASSUME EdgeInv, NEW c \in Conn, OnRequest(c), WorkedAt(c)'
    PROVE  EdgeInv'
  <1>1. EdgeTypes /\ At(c)
    BY DEF EdgeInv
  <1>2. PICK at \in Working \cup {"exit", "admitdownload", "admitstream"} :
          handler' = [handler EXCEPT ![c] = at]
    BY DEF OnRequest
  <1>3. PICK r \in Request \cup {NoRequest} : request' = [request EXCEPT ![c] = r]
    BY DEF OnRequest
  <1>4. /\ reclaimable' \in {reclaimable, reclaimable \cup {c}, reclaimable \ {c}}
        /\ unread' \in {unread, unread \cup {c}, unread \ {c}}
        /\ closeAfter' \in {closeAfter, closeAfter \cup {c}, closeAfter \ {c}}
        /\ UNCHANGED <<accepting, yielded, socket, downloads, freeSlots, owed, streams, active>>
    BY DEF OnRequest
  <1>5. EdgeTypes'
    <2>1. handler' \in [Conn -> {"none", "loop", "peek", "header", "begin", "route", "readbody",
                                 "body", "command", "admitdownload", "download", "admitstream",
                                 "stream", "finish", "answer", "reply", "exit", "done"}]
      BY <1>1, <1>2 DEF EdgeTypes, Working
    <2>2. request' \in [Conn -> Request \cup {NoRequest}]
      BY <1>1, <1>3 DEF EdgeTypes
    <2> QED BY <1>1, <1>4, <2>1, <2>2 DEF EdgeTypes
  <1>6. handler'[c] = at /\ handler[c] \in Working
    BY <1>1, <1>2 DEF EdgeTypes, OnRequest
  <1>7. HeldAt(handler'[c], c \in downloads', c \in active', streams'[c])
    BY <1>1, <1>4, <1>6 DEF At, HeldAt, Working
  <1>8. c \in accepting' => handler'[c] = "none"
    BY <1>1, <1>4, <1>6 DEF At, Working
  <1>9. At(c)'
    BY <1>7, <1>8 DEF At, WorkedAt
  <1>10. \A d \in Conn \ {c} : handler'[d] = handler[d] /\ request'[d] = request[d]
    BY <1>1, <1>2, <1>3 DEF EdgeTypes
  <1>11. \A d \in Conn : At(d)'
    BY <1>4, <1>9, <1>10, OthersStay
  <1> QED BY <1>4, <1>5, <1>11, SlotsKept DEF EdgeInv

\* BeginInput.
LEMMA BeginInputStep ==
    ASSUME EdgeInv, NEW c \in Conn, BeginInput(c)
    PROVE  EdgeInv'
  <1>1. EdgeTypes /\ WorkedAt(c)
    BY DEF EdgeInv, At, WorkedAt
  <1>2. OnRequest(c)
    BY <1>1 DEF BeginInput, OnRequest, Working, EdgeTypes, Goto, acceptVars,
                streamRegistryVars
  <1>3. WorkedAt(c)'
    <2>1. BodyAt(handler'[c], c \in unread', request'[c].method \in BodyMethod, c \in closeAfter')
      BY <1>1 DEF BeginInput, EdgeTypes, Goto, WorkedAt, BodyAt, RouteAt, Request, BodyMethod,
             acceptVars
    <2>2. YieldAt(handler'[c], c \in reclaimable', c \in yielded')
      BY <1>1 DEF BeginInput, EdgeTypes, Goto, WorkedAt, YieldAt, Interrupted, acceptVars
    <2>3. RouteAt(handler'[c], request'[c])
      BY <1>1 DEF BeginInput, EdgeTypes, Goto, WorkedAt, RouteAt, Request, acceptVars
    <2> QED BY <2>1, <2>2, <2>3 DEF WorkedAt
  <1> QED BY <1>2, <1>3, RequestStep

\* Peek.
LEMMA PeekStep ==
    ASSUME EdgeInv, NEW c \in Conn, Peek(c)
    PROVE  EdgeInv'
  <1>1. EdgeTypes /\ WorkedAt(c)
    BY DEF EdgeInv, At, WorkedAt
  <1>2. OnRequest(c)
    BY <1>1 DEF Peek, OnRequest, Working, EdgeTypes, Goto, acceptVars,
                streamRegistryVars
  <1>3. WorkedAt(c)'
    <2>1. BodyAt(handler'[c], c \in unread', request'[c].method \in BodyMethod, c \in closeAfter')
      BY <1>1 DEF Peek, EdgeTypes, Goto, WorkedAt, BodyAt, RouteAt, Request, BodyMethod,
             acceptVars
    <2>2. YieldAt(handler'[c], c \in reclaimable', c \in yielded')
      BY <1>1 DEF Peek, EdgeTypes, Goto, WorkedAt, YieldAt, Interrupted, acceptVars
    <2>3. RouteAt(handler'[c], request'[c])
      BY <1>1 DEF Peek, EdgeTypes, Goto, WorkedAt, RouteAt, Request, acceptVars
    <2> QED BY <2>1, <2>2, <2>3 DEF WorkedAt
  <1> QED BY <1>2, <1>3, RequestStep

\* HeaderRead.
LEMMA HeaderReadStep ==
    ASSUME EdgeInv, NEW c \in Conn, HeaderRead(c)
    PROVE  EdgeInv'
  <1>1. EdgeTypes /\ WorkedAt(c)
    BY DEF EdgeInv, At, WorkedAt
  <1>2. OnRequest(c)
    BY <1>1 DEF HeaderRead, OnRequest, Working, EdgeTypes, Goto, acceptVars,
                streamRegistryVars
  <1>3. WorkedAt(c)'
    <2>1. BodyAt(handler'[c], c \in unread', request'[c].method \in BodyMethod, c \in closeAfter')
      BY <1>1 DEF HeaderRead, EdgeTypes, Goto, WorkedAt, BodyAt, RouteAt, Request, BodyMethod,
             acceptVars
    <2>2. YieldAt(handler'[c], c \in reclaimable', c \in yielded')
      BY <1>1 DEF HeaderRead, EdgeTypes, Goto, WorkedAt, YieldAt, Interrupted, acceptVars
    <2>3. RouteAt(handler'[c], request'[c])
      BY <1>1 DEF HeaderRead, EdgeTypes, Goto, WorkedAt, RouteAt, Request, acceptVars
    <2> QED BY <2>1, <2>2, <2>3 DEF WorkedAt
  <1> QED BY <1>2, <1>3, RequestStep

\* BeginRequest.
LEMMA BeginRequestStep ==
    ASSUME EdgeInv, NEW c \in Conn, BeginRequest(c)
    PROVE  EdgeInv'
  <1>1. EdgeTypes /\ WorkedAt(c)
    BY DEF EdgeInv, At, WorkedAt
  <1>2. OnRequest(c)
    BY <1>1 DEF BeginRequest, OnRequest, Working, EdgeTypes, Goto, acceptVars,
                streamRegistryVars, HandlerFrame
  <1>3. WorkedAt(c)'
    <2>1. BodyAt(handler'[c], c \in unread', request'[c].method \in BodyMethod, c \in closeAfter')
      BY <1>1 DEF BeginRequest, EdgeTypes, Goto, WorkedAt, BodyAt, RouteAt, Request, BodyMethod,
             acceptVars, HandlerFrame
    <2>2. YieldAt(handler'[c], c \in reclaimable', c \in yielded')
      BY <1>1 DEF BeginRequest, EdgeTypes, Goto, WorkedAt, YieldAt, Interrupted, acceptVars,
             HandlerFrame
    <2>3. RouteAt(handler'[c], request'[c])
      BY <1>1 DEF BeginRequest, EdgeTypes, Goto, WorkedAt, RouteAt, Request, acceptVars,
             HandlerFrame
    <2> QED BY <2>1, <2>2, <2>3 DEF WorkedAt
  <1> QED BY <1>2, <1>3, RequestStep

\* RouteMissing.
LEMMA RouteMissingStep ==
    ASSUME EdgeInv, NEW c \in Conn, RouteMissing(c)
    PROVE  EdgeInv'
  <1>1. EdgeTypes /\ WorkedAt(c)
    BY DEF EdgeInv, At, WorkedAt
  <1>2. OnRequest(c)
    BY <1>1 DEF RouteMissing, OnRequest, Working, EdgeTypes, Goto, acceptVars,
                streamRegistryVars, HandlerFrame, CloseIfUnread
  <1>3. WorkedAt(c)'
    <2>1. BodyAt(handler'[c], c \in unread', request'[c].method \in BodyMethod, c \in closeAfter')
      BY <1>1 DEF RouteMissing, EdgeTypes, Goto, WorkedAt, BodyAt, RouteAt, Request, BodyMethod,
             acceptVars, HandlerFrame, CloseIfUnread
    <2>2. YieldAt(handler'[c], c \in reclaimable', c \in yielded')
      BY <1>1 DEF RouteMissing, EdgeTypes, Goto, WorkedAt, YieldAt, Interrupted, acceptVars,
             HandlerFrame, CloseIfUnread
    <2>3. RouteAt(handler'[c], request'[c])
      BY <1>1 DEF RouteMissing, EdgeTypes, Goto, WorkedAt, RouteAt, Request, acceptVars,
             HandlerFrame, CloseIfUnread
    <2> QED BY <2>1, <2>2, <2>3 DEF WorkedAt
  <1> QED BY <1>2, <1>3, RequestStep

\* PrincipalRefuses.
LEMMA PrincipalRefusesStep ==
    ASSUME EdgeInv, NEW c \in Conn, PrincipalRefuses(c)
    PROVE  EdgeInv'
  <1>1. EdgeTypes /\ WorkedAt(c)
    BY DEF EdgeInv, At, WorkedAt
  <1>2. OnRequest(c)
    BY <1>1 DEF PrincipalRefuses, OnRequest, Working, EdgeTypes, Goto, acceptVars,
                streamRegistryVars, HandlerFrame, CloseIfUnread
  <1>3. WorkedAt(c)'
    <2>1. BodyAt(handler'[c], c \in unread', request'[c].method \in BodyMethod, c \in closeAfter')
      BY <1>1 DEF PrincipalRefuses, EdgeTypes, Goto, WorkedAt, BodyAt, RouteAt, Request,
             BodyMethod, acceptVars, HandlerFrame, CloseIfUnread
    <2>2. YieldAt(handler'[c], c \in reclaimable', c \in yielded')
      BY <1>1 DEF PrincipalRefuses, EdgeTypes, Goto, WorkedAt, YieldAt, Interrupted, acceptVars,
             HandlerFrame, CloseIfUnread
    <2>3. RouteAt(handler'[c], request'[c])
      BY <1>1 DEF PrincipalRefuses, EdgeTypes, Goto, WorkedAt, RouteAt, Request, acceptVars,
             HandlerFrame, CloseIfUnread
    <2> QED BY <2>1, <2>2, <2>3 DEF WorkedAt
  <1> QED BY <1>2, <1>3, RequestStep

\* PrincipalAdmits.
LEMMA PrincipalAdmitsStep ==
    ASSUME EdgeInv, NEW c \in Conn, PrincipalAdmits(c)
    PROVE  EdgeInv'
  <1>1. EdgeTypes /\ WorkedAt(c)
    BY DEF EdgeInv, At, WorkedAt
  <1>2. OnRequest(c)
    BY <1>1 DEF PrincipalAdmits, OnRequest, Working, EdgeTypes, Goto, acceptVars,
                streamRegistryVars, HandlerFrame
  <1>3. WorkedAt(c)'
    <2>1. BodyAt(handler'[c], c \in unread', request'[c].method \in BodyMethod, c \in closeAfter')
      BY <1>1 DEF PrincipalAdmits, EdgeTypes, Goto, WorkedAt, BodyAt, RouteAt, Request,
             BodyMethod, acceptVars, HandlerFrame
    <2>2. YieldAt(handler'[c], c \in reclaimable', c \in yielded')
      BY <1>1 DEF PrincipalAdmits, EdgeTypes, Goto, WorkedAt, YieldAt, Interrupted, acceptVars,
             HandlerFrame
    <2>3. RouteAt(handler'[c], request'[c])
      BY <1>1 DEF PrincipalAdmits, EdgeTypes, Goto, WorkedAt, RouteAt, Request, acceptVars,
             HandlerFrame
    <2> QED BY <2>1, <2>2, <2>3 DEF WorkedAt
  <1> QED BY <1>2, <1>3, RequestStep

\* BodyRefused.
LEMMA BodyRefusedStep ==
    ASSUME EdgeInv, NEW c \in Conn, BodyRefused(c)
    PROVE  EdgeInv'
  <1>1. EdgeTypes /\ WorkedAt(c)
    BY DEF EdgeInv, At, WorkedAt
  <1>2. OnRequest(c)
    BY <1>1 DEF BodyRefused, OnRequest, Working, EdgeTypes, Goto, acceptVars,
                streamRegistryVars, HandlerFrame, CloseIfUnread
  <1>3. WorkedAt(c)'
    <2>1. BodyAt(handler'[c], c \in unread', request'[c].method \in BodyMethod, c \in closeAfter')
      BY <1>1 DEF BodyRefused, EdgeTypes, Goto, WorkedAt, BodyAt, RouteAt, Request, BodyMethod,
             acceptVars, HandlerFrame, CloseIfUnread
    <2>2. YieldAt(handler'[c], c \in reclaimable', c \in yielded')
      BY <1>1 DEF BodyRefused, EdgeTypes, Goto, WorkedAt, YieldAt, Interrupted, acceptVars,
             HandlerFrame, CloseIfUnread
    <2>3. RouteAt(handler'[c], request'[c])
      BY <1>1 DEF BodyRefused, EdgeTypes, Goto, WorkedAt, RouteAt, Request, acceptVars,
             HandlerFrame, CloseIfUnread
    <2> QED BY <2>1, <2>2, <2>3 DEF WorkedAt
  <1> QED BY <1>2, <1>3, RequestStep

\* BodyBegin.
LEMMA BodyBeginStep ==
    ASSUME EdgeInv, NEW c \in Conn, BodyBegin(c)
    PROVE  EdgeInv'
  <1>1. EdgeTypes /\ WorkedAt(c)
    BY DEF EdgeInv, At, WorkedAt
  <1>2. OnRequest(c)
    BY <1>1 DEF BodyBegin, OnRequest, Working, EdgeTypes, Goto, acceptVars,
                streamRegistryVars
  <1>3. WorkedAt(c)'
    <2>1. BodyAt(handler'[c], c \in unread', request'[c].method \in BodyMethod, c \in closeAfter')
      BY <1>1 DEF BodyBegin, EdgeTypes, Goto, WorkedAt, BodyAt, RouteAt, Request, BodyMethod,
             acceptVars
    <2>2. YieldAt(handler'[c], c \in reclaimable', c \in yielded')
      BY <1>1 DEF BodyBegin, EdgeTypes, Goto, WorkedAt, YieldAt, Interrupted, acceptVars
    <2>3. RouteAt(handler'[c], request'[c])
      BY <1>1 DEF BodyBegin, EdgeTypes, Goto, WorkedAt, RouteAt, Request, acceptVars
    <2> QED BY <2>1, <2>2, <2>3 DEF WorkedAt
  <1> QED BY <1>2, <1>3, RequestStep

\* BodyEnd.
LEMMA BodyEndStep ==
    ASSUME EdgeInv, NEW c \in Conn, BodyEnd(c)
    PROVE  EdgeInv'
  <1>1. EdgeTypes /\ WorkedAt(c)
    BY DEF EdgeInv, At, WorkedAt
  <1>2. OnRequest(c)
    BY <1>1 DEF BodyEnd, OnRequest, Working, EdgeTypes, Goto, acceptVars,
                streamRegistryVars
  <1>3. WorkedAt(c)'
    <2>1. BodyAt(handler'[c], c \in unread', request'[c].method \in BodyMethod, c \in closeAfter')
      BY <1>1 DEF BodyEnd, EdgeTypes, Goto, WorkedAt, BodyAt, RouteAt, Request, BodyMethod,
             acceptVars
    <2>2. YieldAt(handler'[c], c \in reclaimable', c \in yielded')
      BY <1>1 DEF BodyEnd, EdgeTypes, Goto, WorkedAt, YieldAt, Interrupted, acceptVars
    <2>3. RouteAt(handler'[c], request'[c])
      BY <1>1 DEF BodyEnd, EdgeTypes, Goto, WorkedAt, RouteAt, Request, acceptVars
    <2> QED BY <2>1, <2>2, <2>3 DEF WorkedAt
  <1> QED BY <1>2, <1>3, RequestStep

\* Command.
LEMMA CommandStep ==
    ASSUME EdgeInv, NEW c \in Conn, Command(c)
    PROVE  EdgeInv'
  <1>1. EdgeTypes /\ WorkedAt(c)
    BY DEF EdgeInv, At, WorkedAt
  <1>2. OnRequest(c)
    <2>1. PICK next \in {"answer", "exit"} : handler' = [handler EXCEPT ![c] = next]
      BY DEF Command, Goto
    <2>2. handler[c] \in Working
      BY DEF Command, Working
    <2>3. \E r \in Request \cup {NoRequest} : request' = [request EXCEPT ![c] = r]
      BY <1>1 DEF EdgeTypes, Command, HandlerFrame
    <2> QED BY <2>1, <2>2, <2>3 DEF Command, OnRequest, Working, acceptVars,
                                    streamRegistryVars, HandlerFrame
  <1>3. WorkedAt(c)'
    <2>1. BodyAt(handler'[c], c \in unread', request'[c].method \in BodyMethod, c \in closeAfter')
      BY <1>1 DEF Command, EdgeTypes, Goto, WorkedAt, BodyAt, RouteAt, Request, BodyMethod,
             acceptVars, HandlerFrame
    <2>2. YieldAt(handler'[c], c \in reclaimable', c \in yielded')
      BY <1>1 DEF Command, EdgeTypes, Goto, WorkedAt, YieldAt, Interrupted, acceptVars,
             HandlerFrame
    <2>3. RouteAt(handler'[c], request'[c])
      BY <1>1 DEF Command, EdgeTypes, Goto, WorkedAt, RouteAt, Request, acceptVars, HandlerFrame
    <2> QED BY <2>1, <2>2, <2>3 DEF WorkedAt
  <1> QED BY <1>2, <1>3, RequestStep

\* Answered.
LEMMA AnsweredStep ==
    ASSUME EdgeInv, NEW c \in Conn, Answered(c)
    PROVE  EdgeInv'
  <1>1. EdgeTypes /\ WorkedAt(c)
    BY DEF EdgeInv, At, WorkedAt
  <1>2. OnRequest(c)
    BY <1>1 DEF Answered, OnRequest, Working, EdgeTypes, Goto, acceptVars,
                streamRegistryVars
  <1>3. WorkedAt(c)'
    <2>1. BodyAt(handler'[c], c \in unread', request'[c].method \in BodyMethod, c \in closeAfter')
      BY <1>1 DEF Answered, EdgeTypes, Goto, WorkedAt, BodyAt, RouteAt, Request, BodyMethod,
             acceptVars
    <2>2. YieldAt(handler'[c], c \in reclaimable', c \in yielded')
      BY <1>1 DEF Answered, EdgeTypes, Goto, WorkedAt, YieldAt, Interrupted, acceptVars
    <2>3. RouteAt(handler'[c], request'[c])
      BY <1>1 DEF Answered, EdgeTypes, Goto, WorkedAt, RouteAt, Request, acceptVars
    <2> QED BY <2>1, <2>2, <2>3 DEF WorkedAt
  <1> QED BY <1>2, <1>3, RequestStep


-----------------------------------------------------------------------------
(* HttpEdge: downloads, streams and the end *)

\* The handler ends.
LEMMA FinishedStep ==
    ASSUME EdgeInv, NEW c \in Conn, Finished(c)
    PROVE  EdgeInv'
  <1>1. EdgeTypes /\ At(c) /\ handler[c] = "exit"
    BY DEF EdgeInv, Finished
  <1>2. /\ handler' = [handler EXCEPT ![c] = "done"]
        /\ request' = [request EXCEPT ![c] = NoRequest]
        /\ socket' = [socket EXCEPT ![c] = "shut"]
        /\ reclaimable' = reclaimable \ {c} /\ yielded' = yielded \ {c}
        /\ downloads' = downloads \ {c} /\ unread' = unread \ {c}
        /\ closeAfter' = closeAfter \ {c}
        /\ UNCHANGED <<accepting, freeSlots, owed, streams, active>>
    BY DEF Finished, Goto, streamRegistryVars
  <1>3. EdgeTypes'
    BY <1>1, <1>2 DEF EdgeTypes
  <1>4. At(c)'
    BY <1>1, <1>2 DEF At, EdgeTypes, BodyAt, YieldAt, RouteAt, HeldAt
  <1>5. \A d \in Conn \ {c} : handler'[d] = handler[d] /\ request'[d] = request[d]
    BY <1>1, <1>2 DEF EdgeTypes
  <1>6. \A d \in Conn : At(d)'
    BY <1>2, <1>4, <1>5, OthersStay
  <1> QED BY <1>2, <1>3, <1>6, SlotsKept DEF EdgeInv

\* A download is admitted or refused.
LEMMA AdmitDownloadStep ==
    ASSUME EdgeInv, NEW c \in Conn, AdmitDownload(c)
    PROVE  EdgeInv'
  <1>1. EdgeTypes /\ At(c) /\ handler[c] = "admitdownload"
    BY DEF EdgeInv, AdmitDownload
  <1>2. UNCHANGED <<accepting, reclaimable, yielded, socket, request, unread, freeSlots, owed,
                    streams, active>>
    BY DEF AdmitDownload, acceptVars, streamRegistryVars
  <1>3. \/ /\ handler' = [handler EXCEPT ![c] = "answer"]
           /\ UNCHANGED <<downloads, closeAfter>>
        \/ /\ handler' = [handler EXCEPT ![c] = "download"]
           /\ downloads' = downloads \cup {c} /\ closeAfter' = closeAfter
        \/ /\ handler' = [handler EXCEPT ![c] = "reply"]
           /\ closeAfter' = closeAfter \cup {c} /\ downloads' = downloads
    BY DEF AdmitDownload, Goto
  <1>4. EdgeTypes'
    BY <1>1, <1>2, <1>3 DEF EdgeTypes
  <1>5. At(c)'
    BY <1>1, <1>2, <1>3 DEF At, EdgeTypes, BodyAt, YieldAt, RouteAt, HeldAt
  <1>6. \A d \in Conn : At(d)'
    BY <1>1, <1>2, <1>3, <1>5, OthersStay DEF EdgeTypes
  <1> QED BY <1>2, <1>4, <1>6, SlotsKept DEF EdgeInv

\* A download ends.
LEMMA DownloadEndStep ==
    ASSUME EdgeInv, NEW c \in Conn, DownloadEnd(c)
    PROVE  EdgeInv'
  <1>1. EdgeTypes /\ At(c) /\ handler[c] = "download"
    BY DEF EdgeInv, DownloadEnd
  <1>2. /\ UNCHANGED <<accepting, reclaimable, yielded, socket, request, unread, closeAfter,
                       freeSlots, owed, streams, active>>
        /\ downloads' = downloads \ {c}
    BY DEF DownloadEnd, acceptVars, streamRegistryVars
  <1>3. PICK next \in {"answer", "exit"} : handler' = [handler EXCEPT ![c] = next]
    BY DEF DownloadEnd, Goto
  <1>4. EdgeTypes'
    BY <1>1, <1>2, <1>3 DEF EdgeTypes
  <1>5. At(c)'
    BY <1>1, <1>2, <1>3 DEF At, EdgeTypes, BodyAt, YieldAt, RouteAt, HeldAt
  <1>6. \A d \in Conn : At(d)'
    BY <1>1, <1>2, <1>3, <1>5, OthersStay DEF EdgeTypes
  <1> QED BY <1>2, <1>4, <1>6, SlotsKept DEF EdgeInv

\* The sessions that hold a slot are in the registry, so they are finitely many.
LEMMA HoldersFinite ==
    ASSUME EdgeInv, NEW k
    PROVE  IsFiniteSet(Holders(k)) /\ Cardinality(Holders(k)) \in Nat
  <1>1. Holders(k) \subseteq active
    BY DEF EdgeInv, At, HeldAt, Holders
  <1> QED BY <1>1, FS_Subset, FS_CardinalityType DEF EdgeInv, EdgeTypes

\* The slot of a session that ends, or begins, is counted where it goes.
LEMMA SlotMoves ==
    ASSUME EdgeInv, NEW c \in Conn, NEW k \in DOMAIN Slots
    PROVE  /\ c \in Holders(k) =>
                Cardinality(Holders(k) \ {c}) = Cardinality(Holders(k)) - 1
           /\ c \notin Holders(k) =>
                Cardinality(Holders(k) \cup {c}) = Cardinality(Holders(k)) + 1
  BY HoldersFinite, FS_AddElement, FS_RemoveElement

\* A stream is admitted or refused.
LEMMA AdmitStreamStep ==
    ASSUME EdgeInv, NEW c \in Conn, AdmitStream(c)
    PROVE  EdgeInv'
  <1> DEFINE kind == request[c].route
  <1>1. /\ EdgeTypes /\ At(c) /\ handler[c] = "admitstream" /\ kind \in DOMAIN Slots
        /\ c \notin active /\ ~streams[c].held
    BY SlotKinds DEF EdgeInv, AdmitStream, At, RouteAt, HeldAt
  <1>2. UNCHANGED <<accepting, reclaimable, yielded, socket, request, unread, closeAfter,
                    downloads, owed>>
    BY DEF AdmitStream, StreamFrame, acceptVars, streamRegistryVars
  <1>3. CASE handler' = [handler EXCEPT ![c] = "answer"] /\ UNCHANGED streamRegistryVars
    <2>1. UNCHANGED <<freeSlots, streams, active>>
      BY <1>3 DEF streamRegistryVars
    <2>2. EdgeTypes'
      BY <1>1, <1>2, <1>3, <2>1 DEF EdgeTypes
    <2>3. At(c)'
      BY <1>1, <1>2, <1>3, <2>1 DEF At, EdgeTypes, BodyAt, YieldAt, RouteAt, HeldAt
    <2>4. \A d \in Conn : At(d)'
      BY <1>1, <1>2, <1>3, <2>1, <2>3, OthersStay DEF EdgeTypes
    <2> QED BY <1>2, <2>1, <2>2, <2>4, SlotsKept DEF EdgeInv
  <1>4. CASE /\ freeSlots[kind] > 0
             /\ freeSlots' = [freeSlots EXCEPT ![kind] = @ - 1]
             /\ streams' = [streams EXCEPT ![c] =
                              [kind |-> kind, held |-> TRUE, cancelled |-> FALSE]]
             /\ active' = active \cup {c}
             /\ handler' = [handler EXCEPT ![c] = "stream"]
    <2>1. kind \in {"none", "sse", "preview"}
      BY <1>1, SlotKinds
    <2>2. EdgeTypes'
      <3>1. streams' \in [Conn -> Streams]
        BY <1>1, <1>4, <2>1 DEF EdgeTypes, Streams
      <3>2. freeSlots' \in [DOMAIN Slots -> Nat]
        BY <1>1, <1>4 DEF EdgeTypes
      <3>3. IsFiniteSet(active') /\ active' \subseteq Conn
        BY <1>1, <1>4, FS_AddElement DEF EdgeTypes
      <3> QED BY <1>1, <1>2, <1>4, <3>1, <3>2, <3>3 DEF EdgeTypes
    <2>3. streams'[c] = [kind |-> kind, held |-> TRUE, cancelled |-> FALSE]
          /\ handler'[c] = "stream"
      BY <1>1, <1>4 DEF EdgeTypes
    <2>4. At(c)'
      BY <1>1, <1>2, <1>4, <2>3 DEF At, EdgeTypes, BodyAt, YieldAt, RouteAt, HeldAt
    <2>5. \A d \in Conn : At(d)'
      BY <1>1, <1>2, <1>4, <2>4, OthersStay DEF EdgeTypes
    <2>6. ASSUME NEW k \in DOMAIN Slots
          PROVE  freeSlots'[k] + owed'[k] + Cardinality(Holders(k)') = Slots[k]
      <3>1. /\ freeSlots[k] + owed[k] + Cardinality(Holders(k)) = Slots[k]
            /\ Cardinality(Holders(k)) \in Nat /\ freeSlots[k] \in Nat /\ owed[k] \in Nat
        BY <1>1, HoldersFinite DEF EdgeInv, SlotsCounted, EdgeTypes
      <3>2. CASE k = kind
        <4>1. Holders(k)' = Holders(k) \cup {c} /\ c \notin Holders(k)
          BY <1>1, <1>4, <2>3, <3>2 DEF Holders, EdgeTypes
        <4>2. freeSlots'[k] = freeSlots[k] - 1
          BY <1>1, <1>4, <3>2 DEF EdgeTypes
        <4>3. Cardinality(Holders(k) \cup {c}) = Cardinality(Holders(k)) + 1
          BY <4>1, SlotMoves
        <4> QED BY <1>2, <3>1, <4>1, <4>2, <4>3
      <3>3. CASE k # kind
        <4>1. Holders(k)' = Holders(k)
          BY <1>1, <1>4, <2>3, <3>3 DEF Holders, EdgeTypes
        <4>2. freeSlots'[k] = freeSlots[k]
          BY <1>1, <1>4, <3>3 DEF EdgeTypes
        <4> QED BY <1>2, <3>1, <4>1, <4>2
      <3> QED BY <3>2, <3>3
    <2> QED BY <2>2, <2>5, <2>6 DEF EdgeInv, SlotsCounted
  <1> QED BY <1>3, <1>4 DEF AdmitStream, Goto

\* Whoever cancels a session first takes its slot.
LEMMA CancelStep ==
    ASSUME EdgeInv, NEW c \in Conn, Cancel(c), c \in active, freeSlots' = freeSlots
    PROVE  /\ owed' \in [DOMAIN Slots -> Nat] /\ streams' \in [Conn -> Streams]
           /\ \A d \in Conn \ {c} : streams'[d] = streams[d]
           /\ streams'[c].kind = streams[c].kind
           /\ streams'[c].cancelled = TRUE /\ streams'[c].held = FALSE
           /\ SlotsCounted'
  <1> DEFINE kind == streams[c].kind
  <1>1. /\ EdgeTypes /\ kind \in DOMAIN Slots /\ streams[c].held = ~streams[c].cancelled
        /\ streams[c] \in Streams
    BY DEF EdgeInv, EdgeTypes, At, HeldAt
  <1>2. CASE streams[c].cancelled
    <2>1. UNCHANGED <<streams, owed>>
      BY <1>2 DEF Cancel
    <2>2. SlotsCounted'
      BY <2>1, SlotsKept
    <2> QED BY <1>1, <1>2, <2>1, <2>2 DEF EdgeTypes
  <1>3. CASE ~streams[c].cancelled
    <2>1. /\ streams' = [streams EXCEPT ![c] = [@ EXCEPT !.held = FALSE, !.cancelled = TRUE]]
          /\ owed' = [owed EXCEPT ![kind] = @ + 1]
      BY <1>3 DEF Cancel
    <2>2. /\ streams'[c] = [streams[c] EXCEPT !.held = FALSE, !.cancelled = TRUE]
          /\ \A d \in Conn \ {c} : streams'[d] = streams[d]
      BY <1>1, <2>1 DEF EdgeTypes
    <2>3. /\ streams'[c] \in Streams /\ streams'[c].kind = kind
          /\ streams'[c].cancelled = TRUE /\ streams'[c].held = FALSE
      BY <1>1, <2>2 DEF Streams
    <2>4. streams' \in [Conn -> Streams]
      BY <1>1, <2>1, <2>2, <2>3 DEF EdgeTypes
    <2>5. owed' \in [DOMAIN Slots -> Nat]
      BY <1>1, <2>1 DEF EdgeTypes
    <2>6. ASSUME NEW k \in DOMAIN Slots
          PROVE  freeSlots'[k] + owed'[k] + Cardinality(Holders(k)') = Slots[k]
      <3>1. /\ freeSlots[k] + owed[k] + Cardinality(Holders(k)) = Slots[k]
            /\ Cardinality(Holders(k)) \in Nat /\ freeSlots[k] \in Nat /\ owed[k] \in Nat
        BY <1>1, HoldersFinite DEF EdgeInv, SlotsCounted, EdgeTypes
      <3>2. CASE k = kind
        <4>1. Holders(k)' = Holders(k) \ {c} /\ c \in Holders(k)
          BY <1>1, <1>3, <2>2, <2>3, <3>2 DEF Holders
        <4>2. owed'[k] = owed[k] + 1
          BY <1>1, <2>1, <3>2 DEF EdgeTypes
        <4>3. Cardinality(Holders(k) \ {c}) = Cardinality(Holders(k)) - 1
          BY <4>1, SlotMoves
        <4>4. Cardinality(Holders(k)') = Cardinality(Holders(k)) - 1
          BY <4>1, <4>3
        <4>5. freeSlots'[k] = freeSlots[k]
          OBVIOUS
        <4> HIDE DEF kind
        <4> QED BY <3>1, <4>2, <4>4, <4>5
      <3>3. CASE k # kind
        <4>1. Holders(k)' = Holders(k)
          BY <1>1, <2>2, <2>3, <3>3 DEF Holders
        <4>2. owed'[k] = owed[k]
          BY <1>1, <2>1, <3>3 DEF EdgeTypes
        <4> QED BY <3>1, <4>1, <4>2
      <3> QED BY <3>2, <3>3
    <2> QED BY <2>2, <2>3, <2>4, <2>5, <2>6 DEF SlotsCounted
  <1> QED BY <1>2, <1>3

\* The watcher finds its peer gone.
LEMMA WatchPeerStep ==
    ASSUME EdgeInv, NEW c \in Conn, WatchPeer(c)
    PROVE  EdgeInv'
  <1>1. EdgeTypes /\ At(c) /\ c \in active /\ Cancel(c) /\ freeSlots' = freeSlots
    BY DEF EdgeInv, WatchPeer
  <1>2. UNCHANGED <<accepting, handler, reclaimable, yielded, socket, request, unread, closeAfter,
                    downloads, freeSlots, active>>
    BY DEF WatchPeer, StreamFrame, acceptVars, handlerVars
  <1>3. /\ owed' \in [DOMAIN Slots -> Nat] /\ streams' \in [Conn -> Streams]
        /\ \A d \in Conn \ {c} : streams'[d] = streams[d]
        /\ streams'[c].kind = streams[c].kind
        /\ streams'[c].cancelled = TRUE /\ streams'[c].held = FALSE
        /\ SlotsCounted'
    BY <1>1, CancelStep
  <1>4. EdgeTypes'
    BY <1>1, <1>2, <1>3 DEF EdgeTypes
  <1>5. At(c)'
    BY <1>1, <1>2, <1>3 DEF At, HeldAt
  <1>6. \A d \in Conn : At(d)'
    BY <1>2, <1>3, <1>5, OthersStay
  <1> QED BY <1>3, <1>4, <1>6 DEF EdgeInv

\* The handler is done with its stream.
LEMMA StreamEndsStep ==
    ASSUME EdgeInv, NEW c \in Conn, StreamEnds(c)
    PROVE  EdgeInv'
  <1>1. /\ EdgeTypes /\ At(c) /\ c \in active /\ Cancel(c) /\ freeSlots' = freeSlots
        /\ handler[c] = "stream"
    BY DEF EdgeInv, StreamEnds, At, HeldAt
  <1>2. /\ UNCHANGED <<accepting, reclaimable, yielded, socket, request, unread, downloads,
                       freeSlots, active>>
        /\ handler' = [handler EXCEPT ![c] = "finish"]
        /\ closeAfter' \in {closeAfter, closeAfter \cup {c}}
    BY DEF StreamEnds, StreamFrame, acceptVars, Goto
  <1>3. /\ owed' \in [DOMAIN Slots -> Nat] /\ streams' \in [Conn -> Streams]
        /\ \A d \in Conn \ {c} : streams'[d] = streams[d]
        /\ streams'[c].kind = streams[c].kind
        /\ streams'[c].cancelled = TRUE /\ streams'[c].held = FALSE
        /\ SlotsCounted'
    BY <1>1, CancelStep
  <1>4. EdgeTypes'
    BY <1>1, <1>2, <1>3 DEF EdgeTypes
  <1>5. At(c)'
    BY <1>1, <1>2, <1>3 DEF At, EdgeTypes, BodyAt, YieldAt, RouteAt, HeldAt
  <1>6. \A d \in Conn : At(d)'
    BY <1>1, <1>2, <1>3, <1>5, OthersStay DEF EdgeTypes
  <1> QED BY <1>3, <1>4, <1>6 DEF EdgeInv

\* The session is forgotten; its slot is elsewhere.
LEMMA StreamForgottenStep ==
    ASSUME EdgeInv, NEW c \in Conn, StreamForgotten(c)
    PROVE  EdgeInv'
  <1>1. EdgeTypes /\ At(c) /\ handler[c] = "finish" /\ ~streams[c].held
    BY DEF EdgeInv, StreamForgotten, At, HeldAt
  <1>2. /\ UNCHANGED <<accepting, reclaimable, yielded, socket, request, unread, downloads,
                       closeAfter, freeSlots, owed>>
        /\ handler' = [handler EXCEPT ![c] = "answer"]
        /\ active' = active \ {c}
        /\ streams' = [streams EXCEPT ![c] = NoStream]
    BY DEF StreamForgotten, StreamFrame, acceptVars, Goto
  <1>3. EdgeTypes'
    <2>1. streams' \in [Conn -> Streams]
      BY <1>1, <1>2 DEF EdgeTypes, Streams, NoStream
    <2>2. IsFiniteSet(active') /\ active' \subseteq Conn
      BY <1>1, <1>2, FS_RemoveElement DEF EdgeTypes
    <2> QED BY <1>1, <1>2, <2>1, <2>2 DEF EdgeTypes
  <1>4. At(c)'
    BY <1>1, <1>2 DEF At, EdgeTypes, BodyAt, YieldAt, RouteAt, HeldAt, NoStream
  <1>5. \A d \in Conn : At(d)'
    BY <1>1, <1>2, <1>4, OthersStay DEF EdgeTypes
  <1>6. \A k \in DOMAIN Slots : Holders(k)' = Holders(k)
    BY <1>1, <1>2 DEF Holders, EdgeTypes, NoStream
  <1> QED BY <1>2, <1>3, <1>5, <1>6 DEF EdgeInv, SlotsCounted

\* A slot goes back to its semaphore.
LEMMA SlotReturnedStep ==
    ASSUME EdgeInv, NEW k \in DOMAIN Slots, SlotReturned(k)
    PROVE  EdgeInv'
  <1>1. /\ EdgeTypes /\ owed[k] > 0 /\ owed[k] \in Nat /\ freeSlots[k] \in Nat
        /\ owed' = [owed EXCEPT ![k] = @ - 1] /\ freeSlots' = [freeSlots EXCEPT ![k] = @ + 1]
        /\ UNCHANGED <<accepting, handler, reclaimable, yielded, socket, request, unread,
                       downloads, closeAfter, active, streams>>
    BY DEF EdgeInv, EdgeTypes, SlotReturned, StreamFrame, acceptVars, handlerVars
  <1>2. EdgeTypes'
    BY <1>1 DEF EdgeTypes
  <1>3. \A d \in Conn : At(d)'
    BY <1>1 DEF EdgeInv, At
  <1>4. ASSUME NEW j \in DOMAIN Slots
        PROVE  freeSlots'[j] + owed'[j] + Cardinality(Holders(j)') = Slots[j]
    <2>1. /\ freeSlots[j] + owed[j] + Cardinality(Holders(j)) = Slots[j]
          /\ Cardinality(Holders(j)) \in Nat /\ freeSlots[j] \in Nat /\ owed[j] \in Nat
      BY <1>1, HoldersFinite DEF EdgeInv, SlotsCounted, EdgeTypes
    <2>2. Holders(j)' = Holders(j)
      BY <1>1 DEF Holders
    <2>3. /\ owed'[j] = IF j = k THEN owed[j] - 1 ELSE owed[j]
          /\ freeSlots'[j] = IF j = k THEN freeSlots[j] + 1 ELSE freeSlots[j]
      BY <1>1 DEF EdgeTypes
    <2> QED BY <2>1, <2>2, <2>3
  <1> QED BY <1>2, <1>3, <1>4 DEF EdgeInv, SlotsCounted

\* Shutdown takes the slot of every session that is still held.
LEMMA ShutdownStreamsStep ==
    ASSUME EdgeInv, ShutdownStreams
    PROVE  EdgeInv'
  <1> DEFINE live == {c \in active : ~streams[c].cancelled}
             Taken(k) == {c \in live : streams[c].kind = k}
  <1>1. /\ EdgeTypes
        /\ streams' = [c \in Conn |-> IF c \in live
                                        THEN [streams[c] EXCEPT !.held = FALSE,
                                            !.cancelled = TRUE]
                                        ELSE streams[c]]
        /\ owed' = [k \in DOMAIN Slots |-> owed[k] + Cardinality(Taken(k))]
        /\ socket' = [c \in Conn |-> IF c \in live THEN "shut" ELSE socket[c]]
        /\ UNCHANGED <<accepting, handler, reclaimable, yielded, request, unread, downloads,
                       closeAfter, active, freeSlots>>
    BY DEF EdgeInv, ShutdownStreams, acceptVars
  <1>2. \A c \in Conn : At(c) /\ streams[c] \in Streams
    BY <1>1 DEF EdgeInv, EdgeTypes
  <1>3. \A k \in DOMAIN Slots : Taken(k) = Holders(k)
    BY <1>1, <1>2 DEF At, HeldAt, Holders, EdgeTypes
  <1>4. ASSUME NEW c \in Conn
        PROVE  streams'[c] \in Streams /\ At(c)' /\ ~streams'[c].held
    <2>1. At(c) /\ streams[c] \in Streams
      BY <1>2
    <2>2. CASE c \in live
      <3>1. streams'[c] = [streams[c] EXCEPT !.held = FALSE, !.cancelled = TRUE]
        BY <1>1, <2>2
      <3>2. /\ streams'[c] \in Streams /\ streams'[c].kind = streams[c].kind
            /\ streams'[c].held = FALSE /\ streams'[c].cancelled = TRUE
        BY <2>1, <3>1 DEF Streams
      <3> QED BY <1>1, <2>1, <3>2 DEF At, HeldAt
    <2>3. CASE c \notin live
      <3>1. streams'[c] = streams[c]
        BY <1>1, <2>3
      <3> QED BY <1>1, <2>1, <2>3, <3>1 DEF At, HeldAt
    <2> QED BY <2>2, <2>3
  <1>5. \A k \in DOMAIN Slots : Holders(k)' = {}
    BY <1>4 DEF Holders
  <1>6. \A k \in DOMAIN Slots : owed'[k] = owed[k] + Cardinality(Holders(k))
    BY <1>1, <1>3
  <1>7. \A k \in DOMAIN Slots : Cardinality(Holders(k)) \in Nat
    BY HoldersFinite
  <1>8. EdgeTypes'
    <2>1. owed' \in [DOMAIN Slots -> Nat]
      <3>1. ASSUME NEW k \in DOMAIN Slots PROVE owed[k] + Cardinality(Taken(k)) \in Nat
        <4>1. Taken(k) = Holders(k) /\ Cardinality(Holders(k)) \in Nat /\ owed[k] \in Nat
          BY <1>1, <1>3, <1>7 DEF EdgeTypes
        <4>2. Cardinality(Taken(k)) \in Nat
          BY <4>1
        <4> HIDE DEF Taken
        <4> QED BY <4>1, <4>2
      <3> HIDE DEF Taken
      <3> QED BY <1>1, <3>1
    <2>2. streams' \in [Conn -> Streams]
      <3>1. streams' = [c \in Conn |-> streams'[c]]
        BY <1>1
      <3> QED BY <1>4, <3>1
    <2> QED BY <1>1, <2>1, <2>2 DEF EdgeTypes
  <1>9. SlotsCounted'
    <2> SUFFICES ASSUME NEW k \in DOMAIN Slots
                 PROVE  freeSlots'[k] + owed'[k] + Cardinality(Holders(k)') = Slots[k]
      BY DEF SlotsCounted
    <2>1. /\ freeSlots[k] + owed[k] + Cardinality(Holders(k)) = Slots[k]
          /\ Cardinality(Holders(k)) \in Nat /\ freeSlots[k] \in Nat /\ owed[k] \in Nat
      BY <1>1, <1>7 DEF EdgeInv, SlotsCounted, EdgeTypes
    <2>2. Cardinality(Holders(k)') = 0
      BY <1>5, FS_EmptySet
    <2>3. freeSlots'[k] = freeSlots[k] /\ owed'[k] = owed[k] + Cardinality(Holders(k))
      BY <1>1, <1>6
    <2> HIDE DEF live, Taken
    <2> QED BY <2>1, <2>2, <2>3
  <1> QED BY <1>4, <1>8, <1>9 DEF EdgeInv

\* A peer goes, or shutdown closes the sockets: nothing else changes.
LEMMA SocketStep ==
    ASSUME EdgeInv, (\E c \in Conn : ClientGone(c)) \/ ShutdownConnections \/ UNCHANGED edgeVars
    PROVE  EdgeInv'
  <1>1. /\ UNCHANGED <<accepting, handler, reclaimable, yielded, request, unread, downloads,
                       closeAfter, active, freeSlots, owed, streams>>
        /\ socket' \in [Conn -> {"open", "shut"}]
    BY DEF EdgeInv, EdgeTypes, ClientGone, ShutdownConnections, StreamFrame, acceptVars,
           handlerVars, streamRegistryVars, edgeVars
  <1> QED BY <1>1, SlotsKept DEF EdgeInv, EdgeTypes, At

\* EdgeInv is inductive.
LEMMA EdgeInvHolds == EdgeSpec => []EdgeInv
  <1>1. EdgeInit => EdgeInv
    <2> SUFFICES ASSUME EdgeInit PROVE EdgeInv
      OBVIOUS
    <2>1. EdgeTypes
      BY FS_EmptySet, SlotKinds, EdgeBounds DEF EdgeInit, EdgeTypes, Streams, NoStream
    <2>2. \A c \in Conn : At(c)
      BY DEF EdgeInit, At, BodyAt, YieldAt, RouteAt, HeldAt, NoStream
    <2>3. \A k \in DOMAIN Slots : Holders(k) = {} /\ Slots[k] \in Nat
      BY SlotKinds DEF EdgeInit, Holders, NoStream
    <2>4. \A k \in DOMAIN Slots :
            Cardinality(Holders(k)) = 0 /\ freeSlots[k] = Slots[k] /\ owed[k] = 0
      BY <2>3, FS_EmptySet DEF EdgeInit
    <2>5. SlotsCounted
      BY <2>3, <2>4 DEF SlotsCounted
    <2> QED BY <2>1, <2>2, <2>5 DEF EdgeInv
  <1>2. EdgeInv /\ [EdgeNext]_edgeVars => EdgeInv'
    <2> SUFFICES ASSUME EdgeInv, [EdgeNext]_edgeVars PROVE EdgeInv'
      OBVIOUS
    <2>1. ASSUME NEW c \in Conn, Handle(c) PROVE EdgeInv'
      BY <2>1, AcceptStep, FinishedStep, BeginInputStep, PeekStep, HeaderReadStep,
         BeginRequestStep, RouteMissingStep, PrincipalRefusesStep, PrincipalAdmitsStep,
         BodyRefusedStep, BodyBeginStep, BodyEndStep, CommandStep, AnsweredStep,
         AdmitDownloadStep, DownloadEndStep, AdmitStreamStep, StreamEndsStep,
         StreamForgottenStep DEF Handle
    <2> QED BY <2>1, WatchPeerStep, SlotReturnedStep, ShutdownStreamsStep, SocketStep
            DEF EdgeNext
  <1> QED BY <1>1, <1>2, PTL DEF EdgeSpec

\* For any connections, limits and slots and any interleaving of the accept thread, the handlers,
\* the watchers and shutdown: a connection kept alive has no body before its next request, none is
\* taken from a command, a download or a stream, and every slot is counted once (gateway.py).
THEOREM EdgeCorrect == EdgeSpec => []EdgeSafe
  <1>1. EdgeInv => EdgeSafe
    <2> SUFFICES ASSUME EdgeInv PROVE EdgeSafe
      OBVIOUS
    <2>1. \A c \in Conn : At(c)
      BY DEF EdgeInv
    <2>2. UnreadBodyCloses
      BY <2>1 DEF UnreadBodyCloses, At, BodyAt
    <2>3. CommandUninterrupted
      BY <2>1 DEF CommandUninterrupted, At, YieldAt
    <2>4. SlotsReturned
      BY <2>1 DEF EdgeInv, SlotsCounted, Holders, SlotsReturned, At, HeldAt
    <2> QED BY <2>2, <2>3, <2>4 DEF EdgeSafe
  <1> QED BY <1>1, EdgeInvHolds, PTL

-----------------------------------------------------------------------------
(* NetworkControl: what holds at every step *)

Phases == {None, "prepared", "staging", "verifying", "commit"}
Outcomes == {None, "committed", "rolled_back", "rescued", "recovery_failed"}
Journals ==
    [phase : Phases, req : CliRequest \cup {None}, prev : Profile \cup {AP, None},
     outcome : Outcomes, cleanup : {None, "pending", "listed", "complete", "failed"},
     list : SUBSET Profile]
CliSteps == {"settle", "receipt", "stage", "activate", "commit", "recover", "materialize",
             "materialized", "prune", "lkg"}
Clis == [cmd : {"apply", "reconcile", "rescue"}, req : CliRequest \cup {None}, pc : CliSteps]
          \cup {NoCli}
Forgetting == {"quarantine", "unlink", "purge", "forgotten"}
Settles == {"settle_rescued", "settle_failed"}
FallbackSteps == {"fallback", "fallback_ap"} \cup Settles
ExecSteps == {"lock", "prepare", "rescue", "activate", "verifying", "committed", "rescued",
              "forget_ap", "end"} \cup Announced \cup Forgetting \cup FallbackSteps
Undos == {<<>>} \cup ((Profile \cup {None}) \X Journals)
Execs == [id : Tx, by : {"worker", "boot"}, pc : ExecSteps, undo : Undos] \cup {NoExec}
Reqs == [key : Key, tx : Tx, pc : {"write", "respond", "release"}] \cup {NoReq}

\* What is kept on disk and by the command line tool is of its type.
DiskTypes ==
    /\ profiles \subseteq Profile /\ quarantined \subseteq Profile
    /\ lkg \in Profile \cup {None} /\ rescue \in BOOLEAN
    /\ link \in Profile \cup {AP, None}
    /\ journal \in Journals /\ requests \in [CliRequest -> {None, "ok", "failed"}]
    /\ opLock \in Holder \cup {None} /\ cli \in Clis /\ clis \in Nat

\* What the control process keeps is of its type.
ControlTypes ==
    /\ ControlTypeOK /\ marked \in BOOLEAN /\ stored \in BOOLEAN
    /\ exec \in Execs /\ req \in Reqs

\* who holds the operation lock: a fallback may run without it (Escapes)
LockHeld ==
    /\ exec # NoExec /\ exec.pc \notin {"lock", "end"} \cup FallbackSteps => opLock = exec.by
    /\ cli # NoCli => opLock = "cli"
    /\ req.pc = "write" => opLock = "request"
    /\ exec # NoExec => main = IF exec.by = "boot" THEN "exec" ELSE "serve"
    /\ main = "exec" => exec # NoExec
    /\ main # "serve" => req = NoReq /\ queued = {}

\* An executor whose transaction has not ended.
Ran == exec # NoExec /\ exec.pc # "end"

\* The executor works on the current transaction, and only that one is ever queued
\* (the worker takes from the queue what _accept made current).
Executing ==
    /\ Ran => current.id = exec.id
    /\ exec # NoExec /\ exec.pc = "end" => current.id # exec.id \/ exec.id \in stranded
    /\ queued \subseteq {current.id, exec.id}
    /\ exec # NoExec /\ exec.by = "worker" => exec.id \in queued

\* A transaction whose answer is still to be sent is neither queued nor given up, and a worker
\* that died left nothing but its stranded transaction, which stays current.
Threads ==
    /\ \A t \in deferred : t \notin queued \cup stranded /\ t # exec.id
    /\ ~worker => /\ main = "serve" /\ exec = NoExec /\ queued = {}
                  /\ current # NoTx /\ current.id \in stranded

\* Everything names a transaction that was begun: the store, the receipts, the record of the
\* saved network, and what the executor would restore.
Identities ==
    /\ {current.id, latest.id, exec.id} \subseteq used \cup {None}
    /\ queued \cup deferred \cup stranded \subseteq used
    /\ \A k \in Key : receipts[k] \in used \cup {None}
    /\ lkg \in used \cup CliRequest \cup {"factory", None}
    /\ exec.undo # <<>> => exec.undo[1] \in used \cup CliRequest \cup {"factory", None}
    /\ req.pc = "write" => current = NoTx /\ req.tx \notin used /\ req.tx \in profiles
    /\ req.pc = "release" => req.tx \in answered

\* The work _accept wrote for a transaction, until _finish drops it.
Works ==
    \A t \in Tx :
      /\ t \notin used => work[t] = NoWork
      /\ work[t].cand \in used \cup CliRequest \cup {"factory", None}
      /\ work[t].kind = None => work[t] = NoWork
      /\ work[t].kind # None => work[t].mode \in DesiredState
      /\ work[t].kind = "forget" => work[t].cand = None
      /\ work[t].kind = "rescue" => work[t].mode = "hotspot"

\* What each step of _execute relies on about the work it is at.
Steps ==
    /\ Ran => work[exec.id].kind # None
    /\ current # NoTx => work[current.id].kind # None
    /\ exec.pc \in Forgetting \cup {"forgetting", "forget_ap"} => work[exec.id].kind = "forget"
    /\ exec.pc = "prepare" => work[exec.id].kind # "forget"
    /\ exec.pc \in {"rescue", "ap_ready"} => work[exec.id].kind \in {"rescue", "fallback"}
    /\ exec.pc \in {"activating", "activate", "activated", "verifying"}
       => work[exec.id].kind = "candidate"
    /\ exec.pc \in {"activated", "verifying"} => work[exec.id].cand \in profiles
    /\ exec.pc = "committed" => \/ work[exec.id].kind = "rescue"
                                \/ work[exec.id].kind = "candidate" /\ lkg \in profiles
    /\ exec.pc = "purge" => exec.undo # <<>>
    /\ exec.pc # "purge" /\ exec # NoExec => exec.undo = <<>>

\* A receipt whose reply has not been written to the client.
Unanswered(k) == receipts[k] # None /\ receipts[k] \notin answered

\* Nobody works on a transaction whose reply is still to be written (release_response).
Answers ==
    \A k \in Key : Unanswered(k) =>
        /\ current.id = receipts[k] /\ current.stage = "accepted" /\ ~released
        /\ receipts[k] \notin queued /\ exec.id # receipts[k]

\* Before the first command nothing on the device names a profile of the command line tool.
NoCliYet == clis = 0 =>
    /\ cli = NoCli /\ journal = NoJournal /\ lkg \notin CliRequest
    /\ \A t \in Tx : work[t].cand \notin CliRequest
    /\ exec.undo # <<>> => exec.undo[1] \notin CliRequest /\ exec.undo[2] = NoJournal

\* The steps of a settle that apply a request are those of an apply.
Commanded ==
    /\ cli.cmd = "apply" => cli.req \in CliRequest
    /\ cli.pc \in {"receipt", "stage", "activate", "commit", "recover", "materialize"}
       => cli.cmd = "apply"

\* What the first command relies on at each step: until it commits, the record names none of
\* its profiles; afterwards it names the one the command created.
FirstCli == clis = 1 /\ cli # NoCli =>
    /\ cli.pc = "settle" => journal = NoJournal /\ lkg \notin CliRequest
    /\ cli.pc = "receipt" => requests[cli.req] = "ok" \/ lkg \notin CliRequest
    /\ cli.pc \in {"stage", "activate", "commit", "recover"}
       => lkg \notin CliRequest /\ journal.outcome = None
    /\ cli.pc \in {"stage", "activate", "commit", "recover", "materialize", "materialized", "prune"}
       => journal.req = cli.req
    /\ cli.pc \in {"activate", "commit", "materialize", "materialized", "prune"}
       => cli.req \in profiles
    /\ cli.pc = "materialize" => journal.cleanup = "pending"
    /\ cli.pc \in {"materialized", "prune"} => lkg = cli.req
    /\ cli.pc = "materialized" => journal.cleanup = "pending"
    /\ cli.pc = "prune" => requests[cli.req] = "ok" /\ lkg \notin journal.list
    /\ cli.pc \notin {"settle", "lkg"} => cli.cmd = "apply"

\* A forget that is under way, or that failed half way and is kept for a retry.
ForgetWork == \E t \in Tx : work[t].kind = "forget"

\* The record of a verified network names a profile that exists, from the boot that first
\* reads it (_initialize) on.
Usable ==
    /\ clis <= 1 /\ (verified \/ (~stored /\ lkg # None)) => lkg \in profiles \/ ForgetWork
    /\ ~stored => main \in {"down", "init"} /\ exec = NoExec /\ used = {}

\* The inductive invariant.
ControlInv ==
    /\ DiskTypes /\ ControlTypes /\ LockHeld /\ Executing /\ Threads /\ Identities /\ Works
    /\ Steps /\ Answers /\ NoCliYet /\ Commanded /\ FirstCli /\ Usable /\ ReleasedIsQueued /\ CandidateKept

\* The stages of a transaction.
Stages == {"accepted", "prepared", "ap_ready", "activating", "verifying", "forgetting", "falling_back",
           "committed", "rescued", "failed"}

\* What the primitives of a step do, field by field.
GoesTo(s) ==
    /\ exec' \in Execs /\ exec' # NoExec /\ exec'.id = exec.id /\ exec'.by = exec.by
    /\ exec'.pc = s /\ exec'.undo = exec.undo
StagedTo(st) ==
    /\ current.id = exec.id
    /\ current' \in Transaction /\ current' # NoTx /\ current'.id = current.id
    /\ current'.stage = st
    /\ UNCHANGED <<released, latest, work, receipts, marked, stored>>
FinishedAs(status, drop) ==
    /\ current.id = exec.id /\ current' = NoTx /\ released' = FALSE
    /\ latest' \in Transaction /\ latest' # NoTx /\ latest'.id = exec.id
    /\ latest'.status = status
    /\ work' \in [Tx -> Work]
    /\ \A x \in Tx : work'[x] = IF x \in drop THEN NoWork ELSE work[x]
    /\ UNCHANGED <<receipts, marked, stored>>
AcceptedAs(t, w) ==
    /\ current' \in Transaction /\ current' # NoTx /\ current'.id = t
    /\ current'.stage = "accepted"
    /\ work' \in [Tx -> Work] /\ work'[t] = w /\ \A x \in Tx \ {t} : work'[x] = work[x]
    /\ used' = used \cup {t} /\ UNCHANGED <<latest, stored>>

\* The names of transactions, requests and the access point are apart.
LEMMA NetNames == None \notin Profile /\ None \notin Tx /\ AP # None /\ AP \notin Profile
                  /\ None \notin CliRequest /\ "factory" \notin Tx \cup CliRequest
  BY NamesApart DEF Profile, None, AP

\* The fields of an executor, of its type or of none.
LEMMA ExecFields ==
    ASSUME exec \in Execs
    PROVE  /\ exec.id \in Tx \cup {None} /\ exec.pc \in ExecSteps \cup {None}
           /\ exec.by \in {"worker", "boot", None} /\ exec.undo \in Undos
           /\ exec = NoExec => exec.id = None /\ exec.pc = None /\ exec.by = None
                               /\ exec.undo = <<>>
           /\ exec # NoExec => exec.id \in Tx /\ exec.pc \in ExecSteps
                               /\ exec.by \in {"worker", "boot"}
  BY DEF Execs, NoExec, Undos

\* None is no step and no executor.
LEMMA StepNames == None \notin ExecSteps /\ None \notin {"worker", "boot"}
  BY DEF ExecSteps, None, Announced, Forgetting, FallbackSteps, Settles

\* An executor goes on to its next step with the rest of its frame kept.
LEMMA ExecGoes ==
    ASSUME exec \in Execs, exec # NoExec
    PROVE  \A s \in ExecSteps : ExecTo(s) => GoesTo(s)
  <1> SUFFICES ASSUME NEW s \in ExecSteps, ExecTo(s) PROVE GoesTo(s)
    OBVIOUS
  <1>1. exec \in [id : Tx, by : {"worker", "boot"}, pc : ExecSteps, undo : Undos]
    BY DEF Execs
  <1>2. exec' = [exec EXCEPT !.pc = s]
    BY DEF ExecTo
  <1>3. exec' \in [id : Tx, by : {"worker", "boot"}, pc : ExecSteps, undo : Undos]
    BY <1>1, <1>2
  <1>4. exec'.id = exec.id /\ exec'.by = exec.by /\ exec'.pc = s /\ exec'.undo = exec.undo
    BY <1>1, <1>2
  <1>5. exec' # NoExec
    BY <1>4, StepNames DEF NoExec
  <1> QED BY <1>3, <1>4, <1>5 DEF GoesTo, Execs

\* The fields of a transaction, of its type or of none.
LEMMA TransactionFields ==
    ASSUME NEW t \in Transaction
    PROVE  /\ t.id \in Tx \cup {None} /\ t.stage \in Stages \cup {None}
           /\ t.status \in {"accepted", "running", "committed", "rescued", "failed", None}
           /\ t = NoTx <=> t.id = None
           /\ t = NoTx => t.stage = None /\ t.status = None
  BY NetNames DEF Transaction, NoTx, Stages

\* A transaction made of its fields has them.
LEMMA TransactionMade ==
    ASSUME NEW i \in Tx, NEW st \in Stages,
           NEW s \in {"accepted", "running", "committed", "rescued", "failed"},
           NEW t, t = [id |-> i, status |-> s, stage |-> st]
    PROVE  t \in Transaction /\ t # NoTx /\ t.id = i /\ t.status = s /\ t.stage = st
  BY NetNames DEF Transaction, NoTx, Stages

\* _stage writes the stage of the current transaction and nothing of the receipts.
LEMMA StageDoes ==
    ASSUME current \in Transaction, exec.id \in Tx
    PROVE  \A st \in Stages : Stage(exec.id, st) => StagedTo(st)
  <1> SUFFICES ASSUME NEW st \in Stages, Stage(exec.id, st) PROVE StagedTo(st)
    OBVIOUS
  <1>1. current.id = exec.id /\ current # NoTx
    BY TransactionFields, NetNames DEF Stage
  <1>2. current \in [id : Tx, status : {"accepted", "running", "committed", "rescued", "failed"},
                     stage : Stages]
    BY <1>1 DEF Transaction, Stages
  <1>3. current' = [current EXCEPT !.status = "running", !.stage = st]
    BY DEF Stage
  <1>4. current' = [id |-> current.id, status |-> "running", stage |-> st]
    BY <1>2, <1>3
  <1>5. current' \in Transaction /\ current' # NoTx /\ current'.id = current.id
        /\ current'.stage = st
    BY <1>1, <1>4, TransactionMade
  <1> QED BY <1>1, <1>5 DEF Stage, StagedTo

\* No work is a work.
LEMMA NoWorkIs == NoWork \in Work /\ NoWork.kind = None /\ NoWork.cand = None
                  /\ NoWork.mode = None /\ NoWork.cleanup = {}
  BY DEF NoWork, Work

\* _finish makes the current transaction the latest one and drops the works named.
LEMMA FinishDoes ==
    ASSUME current \in Transaction, exec.id \in Tx, work \in [Tx -> Work]
    PROVE  \A s \in {"committed", "rescued", "failed"} : \A drop :
             Finish(exec.id, s, drop) => FinishedAs(s, drop)
  <1> SUFFICES ASSUME NEW s \in {"committed", "rescued", "failed"}, NEW drop,
                      Finish(exec.id, s, drop)
               PROVE  FinishedAs(s, drop)
    OBVIOUS
  <1>1. latest' = [id |-> exec.id, status |-> s, stage |-> s] /\ s \in Stages
    BY DEF Finish, Stages
  <1>2. latest' \in Transaction /\ latest' # NoTx /\ latest'.id = exec.id /\ latest'.status = s
    BY <1>1, TransactionMade
  <1>3. work' = [x \in Tx |-> IF x \in drop THEN NoWork ELSE work[x]]
    BY DEF Finish
  <1>4. work' \in [Tx -> Work] /\ \A x \in Tx : work'[x] = IF x \in drop THEN NoWork ELSE work[x]
    BY <1>3, NoWorkIs
  <1> QED BY <1>2, <1>4 DEF Finish, FinishedAs

\* _accept makes a new transaction current, with its work.
LEMMA AcceptDoes ==
    ASSUME NEW t \in Tx, NEW w \in Work, work \in [Tx -> Work],
           NEW publish, NEW keep, NEW release, Accept(t, w, publish, keep, release)
    PROVE  AcceptedAs(t, w)
  <1>1. current' = [id |-> t, status |-> "accepted", stage |-> "accepted"] /\ "accepted" \in Stages
    BY DEF Accept, Stages
  <1>2. current' \in Transaction /\ current' # NoTx /\ current'.id = t
        /\ current'.stage = "accepted"
    BY <1>1, TransactionMade
  <1>3. work' = [work EXCEPT ![t] = w] /\ used' = used \cup {t} /\ UNCHANGED <<latest, stored>>
    BY DEF Accept
  <1>4. work' \in [Tx -> Work] /\ work'[t] = w /\ \A x \in Tx \ {t} : work'[x] = work[x]
    BY <1>3
  <1> QED BY <1>2, <1>3, <1>4 DEF AcceptedAs

\* A new transaction has an identity nothing used before.
LEMMA FreshIs ==
    ASSUME CanAccept, used \subseteq Tx
    PROVE  Fresh \in Tx /\ Fresh \notin used
  BY DEF CanAccept, Fresh

\* A command goes on to its next step.
CliAt(s) ==
    /\ cli' \in Clis /\ cli' # NoCli /\ cli'.cmd = cli.cmd /\ cli'.req = cli.req /\ cli'.pc = s

\* The fields of a command, of its type or of none.
LEMMA CliFields ==
    ASSUME cli \in Clis
    PROVE  /\ cli.req \in CliRequest \cup {None} /\ cli.pc \in CliSteps \cup {None}
           /\ cli.cmd \in {"apply", "reconcile", "rescue", None}
           /\ cli = NoCli => cli.req = None /\ cli.pc = None /\ cli.cmd = None
           /\ cli # NoCli => cli.pc \in CliSteps /\ cli.cmd # None
  BY DEF Clis, NoCli, None

\* A command goes on to its next step with its request kept.
LEMMA CliGoes ==
    ASSUME cli \in Clis, cli # NoCli
    PROVE  \A s \in CliSteps : CliTo(s) => CliAt(s)
  <1> SUFFICES ASSUME NEW s \in CliSteps, CliTo(s) PROVE CliAt(s)
    OBVIOUS
  <1>1. cli \in [cmd : {"apply", "reconcile", "rescue"}, req : CliRequest \cup {None}, pc : CliSteps]
    BY DEF Clis
  <1>2. cli' = [cli EXCEPT !.pc = s]
    BY DEF CliTo
  <1>3. cli' \in [cmd : {"apply", "reconcile", "rescue"}, req : CliRequest \cup {None}, pc : CliSteps]
    BY <1>1, <1>2
  <1>4. cli'.cmd = cli.cmd /\ cli'.req = cli.req /\ cli'.pc = s
    BY <1>1, <1>2
  <1>5. cli' # NoCli
    BY <1>4 DEF NoCli, CliSteps, None
  <1> QED BY <1>3, <1>4, <1>5 DEF CliAt, Clis

\* The fields of a request under way, of its type or of none.
LEMMA ReqFields ==
    ASSUME req \in Reqs
    PROVE  /\ req.key \in Key \cup {None} /\ req.tx \in Tx \cup {None}
           /\ req.pc \in {"write", "respond", "release", None}
           /\ req = NoReq => req.key = None /\ req.tx = None /\ req.pc = None
           /\ req # NoReq => req.key \in Key /\ req.tx \in Tx /\ req.pc # None
  BY DEF Reqs, NoReq, None

\* A request goes on to its next step with its key and transaction kept.
LEMMA ReqGoes ==
    ASSUME req \in Reqs, req # NoReq, NEW s \in {"respond", "release"},
           req' = [req EXCEPT !.pc = s]
    PROVE  req' \in Reqs /\ req' # NoReq /\ req'.key = req.key /\ req'.tx = req.tx /\ req'.pc = s
  <1>1. req \in [key : Key, tx : Tx, pc : {"write", "respond", "release"}]
    BY DEF Reqs
  <1>2. req' \in [key : Key, tx : Tx, pc : {"write", "respond", "release"}]
    BY <1>1
  <1>3. req'.key = req.key /\ req'.tx = req.tx /\ req'.pc = s
    BY <1>1
  <1>4. req' # NoReq
    BY <1>3 DEF NoReq, None
  <1> QED BY <1>2, <1>3, <1>4 DEF Reqs

USE DEF profileVars, cliVars, diskVars, storeVars, threadVars, processVars, controlGhosts,
        controlVars

-----------------------------------------------------------------------------
(* The steps of the executor, field by field *)

\* A step of the executor writes nothing of the requests, the boot or the command line tool.
ExecShared ==
    /\ exec # NoExec /\ exec.id \in Tx
    /\ UNCHANGED <<main, queued, deferred, req, used, answered, receipts, cli, clis, requests,
                   stored, marked, rescue, worker>>
    /\ stranded' = stranded \/ (exec.pc \in Settles /\ stranded' = stranded \cup {exec.id})
DiskKept == UNCHANGED <<profiles, quarantined, lkg, journal>>
StoreKept == UNCHANGED <<desired, saved, verified, current, released, latest, work>>
WishKept == UNCHANGED <<desired, saved, verified>>
Sealed == UNCHANGED <<receipts, marked, stored>>
FallsBack == GoesTo("fallback") /\ StoreKept

\* One definition for each step of _execute.
LockDoes ==
    /\ exec.pc = "lock" /\ opLock = None /\ opLock' = exec.by
    /\ GoesTo(IF work[exec.id].kind = "forget" THEN "forgetting" ELSE "prepare")
    /\ ExecShared /\ StoreKept /\ DiskKept /\ link' = link
PrepareDoes ==
    /\ exec.pc = "prepare" /\ ExecShared /\ DiskKept /\ UNCHANGED <<opLock, link>>
    /\ \/ /\ GoesTo(IF work[exec.id].kind = "candidate" THEN "activating" ELSE "rescue")
          /\ StagedTo("prepared") /\ desired' = work[exec.id].mode /\ UNCHANGED <<saved, verified>>
       \/ FallsBack
AnnounceDoes ==
    /\ exec.pc \in Announced /\ ExecShared /\ DiskKept /\ UNCHANGED <<opLock, link>>
    /\ \/ GoesTo(AfterAnnounced) /\ StagedTo(AnnouncedAs) /\ WishKept
       \/ FallsBack
RescueDoes ==
    /\ exec.pc = "rescue" /\ ExecShared /\ DiskKept /\ StoreKept /\ opLock' = opLock
    /\ link' \in {link, None, AP}
    /\ GoesTo("ap_ready") \/ GoesTo("fallback")
ActivateDoes ==
    /\ exec.pc = "activate" /\ ExecShared /\ DiskKept /\ StoreKept /\ opLock' = opLock
    /\ \/ work[exec.id].cand \in profiles /\ link' = work[exec.id].cand /\ GoesTo("activated")
       \/ link' \in {link, None} /\ GoesTo("fallback")
CommitDoes ==
    /\ exec.pc = "verifying" /\ ExecShared /\ StoreKept
    /\ UNCHANGED <<opLock, link, quarantined, journal>>
    /\ \/ GoesTo("fallback") /\ UNCHANGED <<lkg, profiles>>
       \/ /\ GoesTo("committed") \/ GoesTo("fallback")
          /\ lkg' = work[exec.id].cand /\ profiles' \subseteq profiles
          /\ profiles \cap {work[exec.id].cand} \subseteq profiles'
CommittedDoes ==
    /\ exec.pc = "committed" /\ ExecShared /\ DiskKept /\ UNCHANGED <<opLock, link>>
    /\ \/ /\ GoesTo("end") /\ FinishedAs("committed", work[exec.id].cleanup \cup {exec.id})
          /\ saved' = (work[exec.id].mode = "wifi") /\ verified' = (work[exec.id].mode = "wifi")
          /\ desired' = desired
       \/ FallsBack
RescuedDoes ==
    /\ exec.pc = "rescued" /\ ExecShared /\ DiskKept /\ UNCHANGED <<opLock, link>>
    /\ \/ /\ GoesTo("end") /\ FinishedAs("rescued", {})
          /\ desired' = work[exec.id].mode /\ UNCHANGED <<saved, verified>>
       \/ FallsBack
ForgetRescueDoes ==
    /\ exec.pc = "forget_ap" /\ ExecShared /\ DiskKept /\ StoreKept /\ opLock' = opLock
    /\ link' \in {link, None, AP}
    /\ GoesTo("quarantine") \/ GoesTo("fallback")
QuarantineDoes ==
    /\ exec.pc = "quarantine" /\ ExecShared /\ StoreKept /\ UNCHANGED <<opLock, link, lkg, journal>>
    /\ \/ /\ GoesTo("unlink")
          /\ quarantined' = quarantined \cup profiles /\ profiles' = {}
       \/ /\ GoesTo("fallback")
          /\ profiles' = profiles \cup quarantined /\ quarantined' = {}
UnlinkDoes ==
    /\ exec.pc = "unlink" /\ ExecShared /\ StoreKept /\ UNCHANGED <<opLock, link>>
    /\ \/ /\ exec' \in Execs /\ exec' # NoExec /\ exec'.id = exec.id /\ exec'.by = exec.by
          /\ exec'.pc = "purge" /\ exec'.undo = <<lkg, journal>>
          /\ lkg' = None /\ journal' = NoJournal /\ UNCHANGED <<profiles, quarantined>>
       \/ /\ GoesTo("fallback")
          /\ profiles' = quarantined /\ quarantined' = {} /\ UNCHANGED <<lkg, journal>>
PurgeDoes ==
    /\ exec.pc = "purge" /\ ExecShared /\ StoreKept /\ UNCHANGED <<opLock, link>>
    /\ quarantined' = {}
    /\ exec' \in Execs /\ exec' # NoExec /\ exec'.id = exec.id /\ exec'.by = exec.by
    /\ exec'.undo = <<>>
    /\ \/ exec'.pc = "forgotten" /\ UNCHANGED <<profiles, lkg, journal>>
       \/ /\ exec'.pc = "fallback" /\ profiles' \subseteq quarantined
          /\ lkg' = exec.undo[1] /\ journal' = exec.undo[2]
ForgottenDoes ==
    /\ exec.pc = "forgotten" /\ ExecShared /\ DiskKept /\ UNCHANGED <<opLock, link>>
    /\ \/ /\ GoesTo("end") /\ FinishedAs("committed", Tx)
          /\ desired' = "hotspot" /\ saved' = FALSE /\ verified' = FALSE
       \/ FallsBack
FallbackDoes ==
    /\ ExecShared /\ DiskKept /\ opLock' = opLock
    /\ \/ /\ exec.pc = "fallback" /\ link' = link /\ GoesTo("fallback_ap")
          /\ StoreKept \/ (StagedTo("falling_back") /\ WishKept)
       \/ /\ exec.pc = "fallback_ap" /\ opLock \in {None, exec.by} /\ StoreKept
          /\ link' \in {link, None, AP}
          /\ GoesTo("settle_rescued") \/ GoesTo("settle_failed")
SettleDoes ==
    /\ exec.pc \in Settles /\ ExecShared /\ DiskKept /\ UNCHANGED <<opLock, link>> /\ WishKept
    /\ GoesTo("end")
    /\ \/ FinishedAs("rescued", {}) \/ FinishedAs("failed", {})
       \/ UNCHANGED <<current, released, latest, work>> /\ stranded' = stranded \cup {exec.id}

\* An error that the worker's loop catches: the fallback begins without the lock.
UnlocksDoes ==
    /\ exec.pc \notin {"purge", "end"} /\ ExecShared /\ DiskKept /\ StoreKept /\ link' = link
    /\ GoesTo("fallback") /\ opLock' = Unlocked /\ stranded' = stranded

\* The executor is done, its thread dies, or the constructor fails.
EndDoes ==
    /\ exec # NoExec /\ exec.id \in Tx /\ exec' = NoExec /\ opLock' = Unlocked
    /\ queued' \subseteq queued /\ queued \ {exec.id} \subseteq queued'
    /\ \/ /\ exec.pc = "end" /\ queued' = queued \ {exec.id} /\ UNCHANGED <<worker, stranded>>
          /\ main' = IF exec.by = "boot" THEN "cleanup" ELSE main
       \/ /\ exec.pc # "end" /\ exec.by = "worker" /\ main' = main
          /\ queued' = queued \ {exec.id} /\ worker' = FALSE
          /\ stranded' = stranded \cup {exec.id}
       \/ /\ exec.by = "boot" /\ main' = "down" /\ stranded' = {} /\ worker' = worker
          /\ queued' = queued
    /\ StoreKept /\ DiskKept
    /\ UNCHANGED <<link, deferred, req, used, answered, receipts, cli, clis, requests, stored,
                   marked, rescue>>

\* A step of the executor.
ExecutorDoes ==
    \/ LockDoes \/ PrepareDoes \/ AnnounceDoes \/ RescueDoes \/ ActivateDoes \/ CommitDoes
    \/ CommittedDoes \/ RescuedDoes \/ ForgetRescueDoes \/ QuarantineDoes \/ UnlinkDoes
    \/ PurgeDoes \/ ForgottenDoes \/ FallbackDoes \/ SettleDoes \/ UnlocksDoes

\* An executor that is at a step runs a transaction.
LEMMA ExecRuns ==
    ASSUME exec \in Execs, exec.pc # None
    PROVE  exec # NoExec /\ exec.id \in Tx
  BY ExecFields

\* An error that leaves the execution does what the loop of the worker, or the constructor,
\* makes of it.
LEMMA EscapesDo ==
    ASSUME exec \in Execs, exec # NoExec, exec.id \in Tx, exec.pc \notin {"purge", "end"}, Escapes,
           UNCHANGED <<profileVars, link, cliVars, storeVars, deferred, req, used, answered>>
    PROVE  UnlocksDoes \/ EndDoes
  <1>1. ExecTo("fallback") => GoesTo("fallback")
    BY ExecGoes DEF ExecSteps, FallbackSteps
  <1>2. CASE exec.by = "worker" /\ ExecTo("fallback") /\ opLock' = Unlocked
             /\ UNCHANGED <<main, queued, worker, stranded>>
    BY <1>1, <1>2 DEF UnlocksDoes, ExecShared, DiskKept, StoreKept
  <1>3. CASE exec.by = "worker" /\ exec' = NoExec /\ opLock' = Unlocked /\ worker' = FALSE
             /\ queued' = queued \ {exec.id} /\ stranded' = stranded \cup {exec.id} /\ main' = main
    BY <1>3 DEF EndDoes, DiskKept, StoreKept
  <1>4. CASE exec.by = "boot" /\ exec' = NoExec /\ opLock' = Unlocked /\ Die
             /\ stranded' = {} /\ UNCHANGED <<queued, worker>>
    BY <1>4 DEF EndDoes, DiskKept, StoreKept, Die
  <1> QED BY <1>2, <1>3, <1>4 DEF Escapes

\* A write of the store that fails goes to the fallback, or escapes.
LEMMA WriteFailsDo ==
    ASSUME exec \in Execs, exec # NoExec, exec.id \in Tx, exec.pc \notin {"purge", "end"}, WriteFails,
           UNCHANGED <<profileVars, link, cliVars, deferred, req, used, answered>>
    PROVE  (FallsBack /\ ExecShared /\ DiskKept /\ UNCHANGED <<opLock, link>>)
           \/ UnlocksDoes \/ EndDoes
  <1>1. ExecTo("fallback") => GoesTo("fallback")
    BY ExecGoes DEF ExecSteps, FallbackSteps
  <1>2. CASE Goes("fallback")
    BY <1>1, <1>2 DEF WriteFails, Goes, ExecStays, FallsBack, ExecShared, DiskKept, StoreKept
  <1>3. CASE Escapes
    BY <1>3, EscapesDo DEF WriteFails
  <1> QED BY <1>2, <1>3 DEF WriteFails

\* Every step of the executor does what its effect says.
LEMMA ExecEffects ==
    ASSUME DiskTypes, ControlTypes, ExecNext
    PROVE  ExecutorDoes \/ EndDoes
  <1> USE DEF Goes, ExecStays
  <1>0. exec \in Execs
    BY DEF ControlTypes
  <1>00. /\ "fallback" \in ExecSteps /\ "end" \in ExecSteps /\ "rescue" \in ExecSteps
        /\ "activating" \in ExecSteps /\ "activated" \in ExecSteps /\ "ap_ready" \in ExecSteps
        /\ "committed" \in ExecSteps /\ "quarantine" \in ExecSteps /\ "unlink" \in ExecSteps
        /\ "fallback_ap" \in ExecSteps /\ "settle_rescued" \in ExecSteps
        /\ "settle_failed" \in ExecSteps /\ "prepare" \in ExecSteps /\ "forgetting" \in ExecSteps
    BY DEF ExecSteps, Announced, Forgetting, FallbackSteps, Settles
  <1>1. CASE ExecLock
    <2>1. exec # NoExec /\ exec.id \in Tx
      BY <1>1, <1>0, ExecRuns DEF ExecLock, None
    <2>4. \A s \in ExecSteps : ExecTo(s) => GoesTo(s)
      BY <2>1, <1>0, ExecGoes
    <2>2. CASE opLock = None /\ opLock' = exec.by
               /\ ExecTo(IF ExecWork.kind = "forget" THEN "forgetting" ELSE "prepare")
               /\ UNCHANGED <<main, queued, worker, stranded>>
      <3>1. GoesTo(IF work[exec.id].kind = "forget" THEN "forgetting" ELSE "prepare")
        BY <1>00, <2>2, <2>4 DEF ExecWork
      <3>2. LockDoes
        BY <1>1, <2>1, <2>2, <3>1
           DEF ExecLock, ExecFrame, LockDoes, ExecShared, DiskKept, StoreKept
      <3> QED BY <3>2 DEF ExecutorDoes
    <2>3. CASE Escapes
      <3>1. UNCHANGED <<profileVars, link, cliVars, storeVars, deferred, req, used, answered>>
            /\ exec.pc = "lock"
        BY <1>1 DEF ExecLock, ExecFrame
      <3> QED BY <1>0, <2>1, <2>3, <3>1, EscapesDo DEF ExecutorDoes
    <2> QED BY <1>1, <2>2, <2>3 DEF ExecLock
  <1>2. CASE ExecPrepare
    <2>1. exec # NoExec /\ exec.id \in Tx
      BY <1>2, <1>0, ExecRuns DEF ExecPrepare, None
    <2>4. \A s \in ExecSteps : ExecTo(s) => GoesTo(s)
      BY <2>1, <1>0, ExecGoes
    <2>2. CASE ~WriteFails
      <3>1. Stage(exec.id, "prepared") => StagedTo("prepared") /\ Sealed
        BY <2>1, StageDoes DEF Stage, Sealed, ControlTypes, ControlTypeOK, Stages
      <3>2. PrepareDoes
        BY <1>2, <1>00, <2>1, <2>2, <2>4, <3>1
           DEF ExecPrepare, ExecFrame, ExecWork, PrepareDoes, ExecShared, DiskKept, Sealed
      <3> QED BY <3>2 DEF ExecutorDoes
    <2>5. CASE WriteFails
      <3>1. exec.pc \notin {"purge", "end"}
        BY <1>2 DEF ExecPrepare
      <3>2. UNCHANGED <<profileVars, link, cliVars, deferred, req, used, answered>>
        BY <1>2 DEF ExecPrepare, ExecFrame
      <3>3. \/ FallsBack /\ ExecShared /\ DiskKept /\ UNCHANGED <<opLock, link>>
            \/ UnlocksDoes \/ EndDoes
        BY <1>0, <2>1, <2>5, <3>1, <3>2, WriteFailsDo
      <3>4. FallsBack /\ ExecShared /\ DiskKept /\ UNCHANGED <<opLock, link>> => PrepareDoes
        BY <1>2 DEF ExecPrepare, PrepareDoes
      <3> QED BY <3>3, <3>4 DEF ExecutorDoes
    <2> QED BY <2>2, <2>5
  <1>3. CASE ExecAnnounce
    <2>1. exec # NoExec /\ exec.id \in Tx
      BY <1>3, <1>0, ExecRuns DEF ExecAnnounce, None, Announced
    <2>4. \A s \in ExecSteps : ExecTo(s) => GoesTo(s)
      BY <2>1, <1>0, ExecGoes
    <2>2. CASE ~WriteFails
      <3>1. AnnouncedAs \in Stages /\ AfterAnnounced \in ExecSteps
        BY <1>3 DEF ExecAnnounce, Announced, AnnouncedAs, AfterAnnounced, Stages, ExecSteps,
                    Forgetting
      <3>2. Stage(exec.id, AnnouncedAs) => StagedTo(AnnouncedAs) /\ Sealed
        BY <2>1, <3>1, StageDoes DEF Stage, Sealed, ControlTypes, ControlTypeOK
      <3>3. AnnounceDoes
        BY <1>3, <2>1, <2>2, <2>4, <3>1, <3>2
           DEF ExecAnnounce, ExecFrame, AnnounceDoes, ExecShared, DiskKept, WishKept, Sealed
      <3> QED BY <3>3 DEF ExecutorDoes
    <2>5. CASE WriteFails
      <3>1. exec.pc \notin {"purge", "end"}
        BY <1>3 DEF ExecAnnounce, Announced
      <3>2. UNCHANGED <<profileVars, link, cliVars, deferred, req, used, answered>>
        BY <1>3 DEF ExecAnnounce, ExecFrame
      <3>3. \/ FallsBack /\ ExecShared /\ DiskKept /\ UNCHANGED <<opLock, link>>
            \/ UnlocksDoes \/ EndDoes
        BY <1>0, <2>1, <2>5, <3>1, <3>2, WriteFailsDo
      <3>4. FallsBack /\ ExecShared /\ DiskKept /\ UNCHANGED <<opLock, link>> => AnnounceDoes
        BY <1>3 DEF ExecAnnounce, AnnounceDoes
      <3> QED BY <3>3, <3>4 DEF ExecutorDoes
    <2> QED BY <2>2, <2>5
  <1>4. CASE ExecRescue
    <2>1. exec # NoExec /\ exec.id \in Tx
      BY <1>4, <1>0, ExecRuns DEF ExecRescue, None
    <2>4. \A s \in ExecSteps : ExecTo(s) => GoesTo(s)
      BY <2>1, <1>0, ExecGoes
    <2>2. RescueDoes
      BY <1>4, <1>00, <2>1, <2>4
         DEF ExecRescue, ExecFrame, RescueDoes, ExecShared, DiskKept, StoreKept, Activates,
         ActivateFails
    <2> QED BY <2>2 DEF ExecutorDoes
  <1>5. CASE ExecActivate
    <2>1. exec # NoExec /\ exec.id \in Tx
      BY <1>5, <1>0, ExecRuns DEF ExecActivate, None
    <2>4. \A s \in ExecSteps : ExecTo(s) => GoesTo(s)
      BY <2>1, <1>0, ExecGoes
    <2>2. ActivateDoes
      BY <1>5, <1>00, <2>1, <2>4
         DEF ExecActivate, ExecFrame, ActivateDoes, ExecShared, DiskKept, StoreKept,
         ActivateCandidate,
             Activates, ActivateFails, ExecWork
    <2> QED BY <2>2 DEF ExecutorDoes
  <1>6. CASE ExecCommit
    <2>1. exec # NoExec /\ exec.id \in Tx
      BY <1>6, <1>0, ExecRuns DEF ExecCommit, None
    <2>4. \A s \in ExecSteps : ExecTo(s) => GoesTo(s)
      BY <2>1, <1>0, ExecGoes
    <2>2. CommitDoes
      <3>1. \/ Goes("fallback") /\ UNCHANGED <<lkg, profiles>>
            \/ /\ Goes("committed") \/ Goes("fallback")
               /\ lkg' = work[exec.id].cand /\ profiles' \subseteq profiles
               /\ profiles \cap {work[exec.id].cand} \subseteq profiles'
        BY <1>6 DEF ExecCommit, ExecWork
      <3> QED BY <1>6, <1>00, <2>1, <2>4, <3>1
             DEF ExecCommit, ExecFrame, CommitDoes, ExecShared, StoreKept
    <2> QED BY <2>2 DEF ExecutorDoes
  <1>7. CASE ExecCommitted
    <2>1. exec # NoExec /\ exec.id \in Tx
      BY <1>7, <1>0, ExecRuns DEF ExecCommitted, None
    <2>4. \A s \in ExecSteps : ExecTo(s) => GoesTo(s)
      BY <2>1, <1>0, ExecGoes
    <2>2. CASE ~WriteFails
      <3>1. \A s \in {"committed", "rescued", "failed"} : \A drop :
               Finish(exec.id, s, drop) => FinishedAs(s, drop)
        BY <2>1, FinishDoes DEF ControlTypes, ControlTypeOK
      <3>2. \A s, drop : Finish(exec.id, s, drop) => Sealed
        BY DEF Finish, Sealed
      <3>3. Finish(exec.id, "committed", work[exec.id].cleanup \cup {exec.id})
            => FinishedAs("committed", work[exec.id].cleanup \cup {exec.id}) /\ Sealed
        BY <3>1, <3>2, Zenon
      <3>4. CommittedDoes
        BY <1>7, <1>00, <2>1, <2>2, <2>4, <3>3
           DEF ExecCommitted, ExecFrame, ExecWork, CommittedDoes, ExecShared, DiskKept, Sealed
      <3> QED BY <3>4 DEF ExecutorDoes
    <2>5. CASE WriteFails
      <3>1. exec.pc \notin {"purge", "end"}
        BY <1>7 DEF ExecCommitted
      <3>2. UNCHANGED <<profileVars, link, cliVars, deferred, req, used, answered>>
        BY <1>7 DEF ExecCommitted, ExecFrame
      <3>3. \/ FallsBack /\ ExecShared /\ DiskKept /\ UNCHANGED <<opLock, link>>
            \/ UnlocksDoes \/ EndDoes
        BY <1>0, <2>1, <2>5, <3>1, <3>2, WriteFailsDo
      <3>4. FallsBack /\ ExecShared /\ DiskKept /\ UNCHANGED <<opLock, link>> => CommittedDoes
        BY <1>7 DEF ExecCommitted, CommittedDoes
      <3> QED BY <3>3, <3>4 DEF ExecutorDoes
    <2> QED BY <2>2, <2>5
  <1>8. CASE ExecRescued
    <2>1. exec # NoExec /\ exec.id \in Tx
      BY <1>8, <1>0, ExecRuns DEF ExecRescued, None
    <2>4. \A s \in ExecSteps : ExecTo(s) => GoesTo(s)
      BY <2>1, <1>0, ExecGoes
    <2>2. CASE ~WriteFails
      <3>1. \A s \in {"committed", "rescued", "failed"} : \A drop :
               Finish(exec.id, s, drop) => FinishedAs(s, drop)
        BY <2>1, FinishDoes DEF ControlTypes, ControlTypeOK
      <3>2. \A s, drop : Finish(exec.id, s, drop) => Sealed
        BY DEF Finish, Sealed
      <3>3. Finish(exec.id, "rescued", {})
            => FinishedAs("rescued", {}) /\ Sealed
        BY <3>1, <3>2, Zenon
      <3>4. RescuedDoes
        BY <1>8, <1>00, <2>1, <2>2, <2>4, <3>3
           DEF ExecRescued, ExecFrame, ExecWork, RescuedDoes, ExecShared, DiskKept, Sealed
      <3> QED BY <3>4 DEF ExecutorDoes
    <2>5. CASE WriteFails
      <3>1. exec.pc \notin {"purge", "end"}
        BY <1>8 DEF ExecRescued
      <3>2. UNCHANGED <<profileVars, link, cliVars, deferred, req, used, answered>>
        BY <1>8 DEF ExecRescued, ExecFrame
      <3>3. \/ FallsBack /\ ExecShared /\ DiskKept /\ UNCHANGED <<opLock, link>>
            \/ UnlocksDoes \/ EndDoes
        BY <1>0, <2>1, <2>5, <3>1, <3>2, WriteFailsDo
      <3>4. FallsBack /\ ExecShared /\ DiskKept /\ UNCHANGED <<opLock, link>> => RescuedDoes
        BY <1>8 DEF ExecRescued, RescuedDoes
      <3> QED BY <3>3, <3>4 DEF ExecutorDoes
    <2> QED BY <2>2, <2>5
  <1>9. CASE ForgetRescue
    <2>1. exec # NoExec /\ exec.id \in Tx
      BY <1>9, <1>0, ExecRuns DEF ForgetRescue, None
    <2>4. \A s \in ExecSteps : ExecTo(s) => GoesTo(s)
      BY <2>1, <1>0, ExecGoes
    <2>2. ForgetRescueDoes
      BY <1>9, <1>00, <2>1, <2>4
         DEF ForgetRescue, ExecFrame, ForgetRescueDoes, ExecShared, DiskKept, StoreKept, Activates,
             ActivateFails
    <2> QED BY <2>2 DEF ExecutorDoes
  <1>10. CASE ForgetQuarantine
    <2>1. exec # NoExec /\ exec.id \in Tx
      BY <1>10, <1>0, ExecRuns DEF ForgetQuarantine, None
    <2>4. \A s \in ExecSteps : ExecTo(s) => GoesTo(s)
      BY <2>1, <1>0, ExecGoes
    <2>2. QuarantineDoes
      BY <1>10, <1>00, <2>1, <2>4
         DEF ForgetQuarantine, ExecFrame, QuarantineDoes, ExecShared, DiskKept, StoreKept
    <2> QED BY <2>2 DEF ExecutorDoes
  <1>11. CASE ForgetUnlink
    <2>1. exec # NoExec /\ exec.id \in Tx
      BY <1>11, <1>0, ExecRuns DEF ForgetUnlink, None
    <2>4. \A s \in ExecSteps : ExecTo(s) => GoesTo(s)
      BY <2>1, <1>0, ExecGoes
    <2>2. UnlinkDoes
      <3>1. CASE exec' = [exec EXCEPT !.pc = "purge", !.undo = <<lkg, journal>>]
                 /\ lkg' = None /\ journal' = NoJournal /\ UNCHANGED <<profiles, quarantined>>
        <4>1. exec \in [id : Tx, by : {"worker", "boot"}, pc : ExecSteps, undo : Undos]
          BY <2>1 DEF ControlTypes, Execs
        <4>2. "purge" \in ExecSteps /\ <<lkg, journal>> \in Undos
          BY DEF ExecSteps, Forgetting, Undos, DiskTypes
        <4>3. /\ exec' \in [id : Tx, by : {"worker", "boot"}, pc : ExecSteps, undo : Undos]
              /\ exec'.id = exec.id /\ exec'.by = exec.by /\ exec'.pc = "purge"
              /\ exec'.undo = <<lkg, journal>>
          BY <4>1, <4>2, <3>1
        <4>4. exec' # NoExec /\ exec' \in Execs
          BY <4>3 DEF NoExec, Execs, None
        <4> QED BY <1>11, <2>1, <3>1, <4>3, <4>4
               DEF ForgetUnlink, ExecFrame, UnlinkDoes, ExecShared, StoreKept
      <3>2. CASE ExecTo("fallback") /\ profiles' = quarantined /\ quarantined' = {}
                 /\ UNCHANGED <<lkg, journal>>
        BY <1>11, <2>1, <3>2, <1>00, <2>4
           DEF ForgetUnlink, ExecFrame, UnlinkDoes, ExecShared, StoreKept
      <3> QED BY <1>11, <3>1, <3>2 DEF ForgetUnlink
    <2> QED BY <2>2 DEF ExecutorDoes
  <1>12. CASE ForgetPurge
    <2>1. exec # NoExec /\ exec.id \in Tx
      BY <1>12, <1>0, ExecRuns DEF ForgetPurge, None
    <2>4. \A s \in ExecSteps : ExecTo(s) => GoesTo(s)
      BY <2>1, <1>0, ExecGoes
    <2>2. PurgeDoes
      <3>1. PICK step \in {"forgotten", "fallback"} :
              /\ exec' = [exec EXCEPT !.undo = <<>>, !.pc = step]
              /\ \/ step = "forgotten" /\ UNCHANGED <<profiles, lkg, journal>>
                 \/ /\ step = "fallback" /\ profiles' \subseteq quarantined
                    /\ lkg' = exec.undo[1] /\ journal' = exec.undo[2]
        BY <1>12 DEF ForgetPurge
      <3>2. exec \in [id : Tx, by : {"worker", "boot"}, pc : ExecSteps, undo : Undos]
        BY <2>1 DEF ControlTypes, Execs
      <3>3. step \in ExecSteps /\ <<>> \in Undos
        BY <1>00 DEF ExecSteps, Forgetting, Undos
      <3>4. /\ exec' \in [id : Tx, by : {"worker", "boot"}, pc : ExecSteps, undo : Undos]
            /\ exec'.id = exec.id /\ exec'.by = exec.by /\ exec'.pc = step /\ exec'.undo = <<>>
        BY <3>1, <3>2, <3>3
      <3>5. exec' # NoExec /\ exec' \in Execs
        BY <3>4 DEF NoExec, Execs, None
      <3> QED BY <1>12, <2>1, <3>1, <3>4, <3>5
             DEF ForgetPurge, ExecFrame, PurgeDoes, ExecShared, StoreKept
    <2> QED BY <2>2 DEF ExecutorDoes
  <1>13. CASE Forgotten
    <2>1. exec # NoExec /\ exec.id \in Tx
      BY <1>13, <1>0, ExecRuns DEF Forgotten, None
    <2>4. \A s \in ExecSteps : ExecTo(s) => GoesTo(s)
      BY <2>1, <1>0, ExecGoes
    <2>2. CASE ~WriteFails
      <3>1. \A s \in {"committed", "rescued", "failed"} : \A drop :
               Finish(exec.id, s, drop) => FinishedAs(s, drop)
        BY <2>1, FinishDoes DEF ControlTypes, ControlTypeOK
      <3>2. \A s, drop : Finish(exec.id, s, drop) => Sealed
        BY DEF Finish, Sealed
      <3>3. Finish(exec.id, "committed", Tx)
            => FinishedAs("committed", Tx) /\ Sealed
        BY <3>1, <3>2, Zenon
      <3>4. ForgottenDoes
        BY <1>13, <1>00, <2>1, <2>2, <2>4, <3>3
           DEF Forgotten, ExecWork, ForgottenDoes, ExecShared, DiskKept, Sealed
      <3> QED BY <3>4 DEF ExecutorDoes
    <2>5. CASE WriteFails
      <3>1. exec.pc \notin {"purge", "end"}
        BY <1>13 DEF Forgotten
      <3>2. UNCHANGED <<profileVars, link, cliVars, deferred, req, used, answered>>
        BY <1>13 DEF Forgotten, ExecFrame
      <3>3. \/ FallsBack /\ ExecShared /\ DiskKept /\ UNCHANGED <<opLock, link>>
            \/ UnlocksDoes \/ EndDoes
        BY <1>0, <2>1, <2>5, <3>1, <3>2, WriteFailsDo
      <3>4. FallsBack /\ ExecShared /\ DiskKept /\ UNCHANGED <<opLock, link>> => ForgottenDoes
        BY <1>13 DEF Forgotten, ForgottenDoes
      <3> QED BY <3>3, <3>4 DEF ExecutorDoes
    <2> QED BY <2>2, <2>5
  <1>14. CASE FallbackStage
    <2>1. exec # NoExec /\ exec.id \in Tx
      BY <1>14, <1>0, ExecRuns DEF FallbackStage, None
    <2>4. \A s \in ExecSteps : ExecTo(s) => GoesTo(s)
      BY <2>1, <1>0, ExecGoes
    <2>2. CASE ~Escapes
      <3>1. Stage(exec.id, "falling_back") => StagedTo("falling_back") /\ Sealed
        BY <2>1, StageDoes DEF Stage, Sealed, ControlTypes, ControlTypeOK, Stages
      <3>2. FallbackDoes
        BY <1>14, <1>00, <2>1, <2>2, <2>4, <3>1
           DEF FallbackStage, ExecFrame, FallbackDoes, ExecShared, DiskKept, StoreKept, WishKept,
               Sealed
      <3> QED BY <3>2 DEF ExecutorDoes
    <2>3. CASE Escapes /\ UNCHANGED storeVars
      <3>1. UNCHANGED <<profileVars, link, cliVars, deferred, req, used, answered>>
            /\ exec.pc = "fallback"
        BY <1>14 DEF FallbackStage, ExecFrame
      <3> QED BY <1>0, <2>1, <2>3, <3>1, EscapesDo DEF ExecutorDoes
    <2>6. CASE Escapes /\ ~UNCHANGED storeVars
      <3>1. Stage(exec.id, "falling_back") => StagedTo("falling_back") /\ Sealed
        BY <2>1, StageDoes DEF Stage, Sealed, ControlTypes, ControlTypeOK, Stages
      <3>2. FallbackDoes
        BY <1>14, <1>00, <2>1, <2>6, <2>4, <3>1
           DEF FallbackStage, ExecFrame, FallbackDoes, ExecShared, DiskKept, StoreKept, WishKept,
               Sealed
      <3> QED BY <3>2 DEF ExecutorDoes
    <2> QED BY <2>2, <2>3, <2>6
  <1>15. CASE FallbackRescue
    <2>1. exec # NoExec /\ exec.id \in Tx
      BY <1>15, <1>0, ExecRuns DEF FallbackRescue, None
    <2>4. \A s \in ExecSteps : ExecTo(s) => GoesTo(s)
      BY <2>1, <1>0, ExecGoes
    <2>2. FallbackDoes
      BY <1>15, <1>00, <2>1, <2>4
         DEF FallbackRescue, ExecFrame, FallbackDoes, ExecShared, DiskKept, StoreKept, Activates,
             ActivateFails
    <2> QED BY <2>2 DEF ExecutorDoes
  <1>16. CASE FallbackSettle
    <2>1. exec # NoExec /\ exec.id \in Tx
      BY <1>16, <1>0, ExecRuns DEF FallbackSettle, None
    <2>4. \A s \in ExecSteps : ExecTo(s) => GoesTo(s)
      BY <2>1, <1>0, ExecGoes
    <2>2. /\ Finish(exec.id, "rescued", {}) => FinishedAs("rescued", {}) /\ Sealed
          /\ Finish(exec.id, "failed", {}) => FinishedAs("failed", {}) /\ Sealed
      <3>1. \A s \in {"committed", "rescued", "failed"} : \A drop :
               Finish(exec.id, s, drop) => FinishedAs(s, drop)
        BY <2>1, FinishDoes DEF ControlTypes, ControlTypeOK
      <3>2. \A s, drop : Finish(exec.id, s, drop) => Sealed
        BY DEF Finish, Sealed
      <3> QED BY <3>1, <3>2, Zenon
    <2>3. exec.pc \in Settles /\ ExecFrame /\ UNCHANGED <<profileVars, link, cliVars, desired, saved,
                                                         verified>>
      BY <1>16 DEF FallbackSettle, Settles
    <2>5. \/ Goes("end") /\ (Finish(exec.id, "rescued", {}) \/ Finish(exec.id, "failed", {}))
          \/ /\ ExecTo("end") /\ stranded' = stranded \cup {exec.id}
             /\ UNCHANGED <<opLock, main, queued, worker, storeVars>>
          \/ Escapes /\ UNCHANGED storeVars
      BY <1>16 DEF FallbackSettle
    <2>6. CASE Goes("end") /\ (Finish(exec.id, "rescued", {}) \/ Finish(exec.id, "failed", {}))
      <3>1. SettleDoes
        BY <1>00, <2>1, <2>2, <2>3, <2>4, <2>6
           DEF ExecFrame, SettleDoes, ExecShared, DiskKept, WishKept, Sealed
      <3> QED BY <3>1 DEF ExecutorDoes
    <2>7. CASE ExecTo("end") /\ stranded' = stranded \cup {exec.id}
               /\ UNCHANGED <<opLock, main, queued, worker, storeVars>>
      <3>1. SettleDoes
        BY <1>00, <2>1, <2>3, <2>4, <2>7
           DEF ExecFrame, SettleDoes, ExecShared, DiskKept, WishKept
      <3> QED BY <3>1 DEF ExecutorDoes
    <2>8. CASE Escapes /\ UNCHANGED storeVars
      <3>1. exec.pc \notin {"purge", "end"}
        BY <2>3 DEF Settles
      <3>2. UNCHANGED <<profileVars, link, cliVars, deferred, req, used, answered>>
        BY <2>3 DEF ExecFrame
      <3> QED BY <1>0, <2>1, <2>8, <3>1, <3>2, EscapesDo DEF ExecutorDoes
    <2> QED BY <2>5, <2>6, <2>7, <2>8
  <1>17. CASE ExecEnd
    <2>1. exec # NoExec /\ exec.id \in Tx
      BY <1>17, <1>0, ExecRuns DEF ExecEnd, None
    <2>2. EndDoes
      BY <1>17, <2>1 DEF ExecEnd, ExecFrame, EndDoes, DiskKept, StoreKept
    <2> QED BY <2>2
  <1> QED BY <1>1, <1>2, <1>3, <1>4, <1>5, <1>6, <1>7, <1>8, <1>9, <1>10, <1>11, <1>12, <1>13,
         <1>14, <1>15, <1>16, <1>17 DEF ExecNext

-----------------------------------------------------------------------------
(* The other steps of the controller, field by field *)

WellMade(t, w) ==
    /\ w \in Work /\ w.kind # None /\ w.mode \in DesiredState
    /\ w.kind = "forget" => w.cand = None
    /\ w.kind = "rescue" => w.mode = "hotspot"
    /\ w.cand \in used \cup {t} \cup CliRequest \cup {"factory", None}
    /\ w.cand # None /\ clis = 0 => w.cand \in profiles
    /\ clis = 0 => w.cand \notin CliRequest
Accepts(t, w) ==
    /\ current = NoTx /\ t \in Tx /\ t \notin used
    /\ AcceptedAs(t, w) /\ WellMade(t, w)
    /\ desired' \in DesiredState /\ saved' \in BOOLEAN /\ verified' \in {verified, FALSE}
Asked(k, t) ==
    /\ released' = FALSE
    /\ receipts' = [receipts EXCEPT ![k] = t] /\ deferred' = deferred \cup {t}
    /\ req' \in Reqs /\ req' # NoReq /\ req'.key = k /\ req'.tx = t /\ req'.pc = "respond"

\* The other steps of the process, field by field.
RecordsKept == UNCHANGED <<desired, saved, verified, current, released, latest, work, receipts,
                           marked, stored>>
DiskSame == UNCHANGED <<profiles, quarantined, lkg, rescue, journal, requests, cli, clis>>

\* A step that writes only credentials.
IdleDoes ==
    /\ creds' \subseteq Key
    /\ DiskSame /\ RecordsKept
    /\ UNCHANGED <<link, opLock, main, exec, queued, deferred, req, answered, used, worker, stranded>>
BootGoesOn ==
    /\ main = "reconcile" /\ opLock = None /\ main' \in {"cleanup", "down"}
    /\ link' \in {link, AP, None}
    /\ marked' = TRUE \/ (marked' = marked /\ main' = "down")
    /\ DiskSame
    /\ UNCHANGED <<opLock, desired, saved, verified, current, released, latest, work, receipts,
                   stored, exec, queued, deferred, req, creds, answered, used, worker, stranded>>
BootAccepts ==
    /\ main = "reconcile" /\ opLock = None /\ main' = "exec" /\ marked' = TRUE
    /\ \E t \in Tx, w \in Work :
         /\ Accepts(t, w) /\ released' = TRUE /\ verified' = verified
         /\ exec' = [id |-> t, by |-> "boot", pc |-> "lock", undo |-> <<>>]
    /\ DiskSame
    /\ UNCHANGED <<link, opLock, receipts, queued, deferred, req, creds, answered, worker, stranded>>
ApplyDoes ==
    /\ req.pc = "write" /\ req # NoReq /\ req.tx \in Tx /\ req.key \in Key /\ opLock' = None
    /\ UNCHANGED <<quarantined, lkg, rescue, link, journal, requests, cli, clis, main, exec,
                   queued, answered, worker, stranded>>
    /\ creds' \subseteq Key
    /\ \/ /\ \E w \in Work : Accepts(req.tx, w)
          /\ Asked(req.key, req.tx) /\ UNCHANGED <<profiles, marked>>
       \/ /\ req' = NoReq /\ profiles' \in {profiles, profiles \ {req.tx}}
          /\ RecordsKept /\ UNCHANGED <<deferred, used>>
DirectDoes(k) ==
    /\ main = "serve" /\ req = NoReq /\ opLock = None
    /\ \E t \in Tx, w \in Work : Accepts(t, w) /\ Asked(k, t)
    /\ DiskSame
    /\ UNCHANGED <<link, opLock, main, exec, queued, creds, marked, answered, worker, stranded>>
SubmitDoes ==
    /\ main = "serve" /\ opLock = None /\ req.pc # "write"
    /\ \E t \in Tx, w \in Work :
         Accepts(t, w) /\ released' = TRUE /\ queued' = queued \cup {t}
    /\ DiskSame
    /\ UNCHANGED <<link, opLock, main, exec, deferred, req, creds, receipts, marked, answered,
                   worker, stranded>>
PrepareRequestDoes(k) ==
    /\ main = "serve" /\ req = NoReq /\ opLock = None /\ opLock' = "request" /\ current = NoTx
    /\ \E t \in Tx :
         /\ t \notin used /\ profiles' = profiles \cup {t}
         /\ req' \in Reqs /\ req' # NoReq /\ req'.key = k /\ req'.tx = t /\ req'.pc = "write"
    /\ RecordsKept
    /\ UNCHANGED <<quarantined, lkg, rescue, link, journal, requests, cli, clis, main, exec,
                   queued, deferred, creds, answered, used, worker, stranded>>
ReplayDoes(k) ==
    /\ main = "serve" /\ req = NoReq /\ receipts[k] # None
    /\ req' \in Reqs /\ req' # NoReq /\ req'.key = k /\ req'.tx = receipts[k] /\ req'.pc = "respond"
    /\ DiskSame /\ RecordsKept
    /\ UNCHANGED <<link, opLock, main, exec, queued, deferred, creds, answered, used, worker,
                   stranded>>
RespondDoes ==
    /\ req.pc = "respond" /\ req # NoReq /\ req.tx \in Tx
    /\ \/ /\ req' \in Reqs /\ req' # NoReq /\ req'.tx = req.tx /\ req'.pc = "release"
          /\ answered' = answered \cup {req.tx}
       \/ req' = NoReq /\ answered' = answered
    /\ DiskSame /\ RecordsKept
    /\ UNCHANGED <<link, opLock, main, exec, queued, deferred, creds, used, worker, stranded>>
ReleaseDoes ==
    /\ req.pc = "release" /\ req # NoReq /\ req.tx \in Tx /\ req' = NoReq
    /\ deferred' = deferred \ {req.tx}
    /\ \/ /\ req.tx \in deferred /\ current.id = req.tx
          /\ released' = TRUE /\ queued' = queued \cup {req.tx}
       \/ UNCHANGED <<released, queued>>
    /\ DiskSame
    /\ UNCHANGED <<link, opLock, desired, saved, verified, current, latest, work, receipts,
                   marked, stored, main, exec, creds, answered, used, worker, stranded>>
WorkerDoes ==
    /\ main = "serve" /\ exec = NoExec /\ worker
    /\ \E t \in queued : exec' = [id |-> t, by |-> "worker", pc |-> "lock", undo |-> <<>>]
    /\ DiskSame /\ RecordsKept
    /\ UNCHANGED <<link, opLock, main, queued, deferred, req, creds, answered, used, worker,
                   stranded>>
BootsDo == Start \/ BootInit \/ BootGoesOn \/ BootAccepts \/ BootCleanup \/ BootStart
RequestsDo ==
    \/ \E k \in Key : DirectDoes(k) \/ PrepareRequestDoes(k) \/ ReplayDoes(k)
    \/ ApplyDoes \/ RespondDoes \/ ReleaseDoes
WorldDoes == (CliNext \/ LinkDrops) /\ UNCHANGED controlVars
NetworkDoes ==
    \/ BootsDo \/ ProcessEnds \/ Reboot \/ CaptureTakes \/ CaptureReleases \/ RequestsDo
    \/ WorkerDoes \/ ExecutorDoes \/ EndDoes \/ SubmitDoes \/ IdleDoes \/ WorldDoes

\* The work of a new transaction, wherever it comes from.
LEMMA WorkFields ==
    ASSUME NEW w \in Work
    PROVE  /\ w.kind \in {None, "candidate", "rescue", "fallback", "forget"}
           /\ w.cand \in Profile \cup {None} /\ w.mode \in DesiredState \cup {None}
           /\ w.cleanup \subseteq Tx
  BY DEF Work

\* A work made of its fields has them.
LEMMA WorkMade ==
    ASSUME NEW k \in {None, "candidate", "rescue", "fallback", "forget"},
           NEW c \in Profile \cup {None}, NEW m \in DesiredState \cup {None},
           NEW s \in SUBSET Tx, NEW w,
           w = [kind |-> k, cand |-> c, mode |-> m, cleanup |-> s]
    PROVE  w \in Work /\ w.kind = k /\ w.cand = c /\ w.mode = m /\ w.cleanup = s
  BY DEF Work

\* What a saved network or the last transaction offers to try again.
LEMMA SavedIs ==
    ASSUME DiskTypes, Identities, NoCliYet
    PROVE  /\ SavedCandidate \in Profile \cup {None}
           /\ SavedCandidate \in used \cup CliRequest \cup {"factory", None}
           /\ SavedCandidate # None => SavedCandidate \in profiles /\ desired = "wifi"
           /\ clis = 0 => SavedCandidate \notin CliRequest
  BY NetNames DEF DiskTypes, Identities, NoCliYet, SavedCandidate

\* What a boot finds of the transaction that did not settle: its work is kept and names a
\* profile that exists as long as no command ran.
LEMMA LastIs ==
    ASSUME ControlTypes, Identities, Works, NoCliYet, CandidateKept, current = NoTx,
           latest.status \in Unsettled
    PROVE  LET w == work[latest.id] IN
           /\ latest.id \in Tx /\ w \in Work
           /\ w.kind = None => w = NoWork
           /\ w.kind # None => w.mode \in DesiredState
           /\ w.kind = "forget" => w.cand = None
           /\ w.kind = "rescue" => w.mode = "hotspot"
           /\ w.cand \in used \cup CliRequest \cup {"factory", None}
           /\ w.cand # None /\ clis = 0 => w.cand \in profiles
           /\ clis = 0 => w.cand \notin CliRequest
  <1>1. latest.id \in Tx
    BY TransactionFields DEF ControlTypes, ControlTypeOK, Unsettled, None
  <1>2. work[latest.id] \in Work
    BY <1>1 DEF ControlTypes, ControlTypeOK
  <1> QED BY <1>1, <1>2 DEF Works, NoCliYet, CandidateKept

\* The work of the transaction boot_reconcile accepts is well made.
LEMMA BootWorkMade ==
    ASSUME DiskTypes, ControlTypes, Identities, Works, NoCliYet, CandidateKept,
           current = NoTx, BootWork.cand # None, desired = "wifi", NEW t
    PROVE  WellMade(t, BootWork)
  <1>1. CASE latest.status \in Unsettled /\ ~marked /\ work[latest.id].cand # None
    <2> DEFINE w == work[latest.id]
    <2>1. /\ latest.id \in Tx /\ w \in Work /\ w.kind # None /\ w.mode \in DesiredState
          /\ w.cand \in used \cup CliRequest \cup {"factory", None}
          /\ w.cand # None /\ clis = 0 => w.cand \in profiles
          /\ clis = 0 => w.cand \notin CliRequest
      BY <1>1, LastIs, NoWorkIs
    <2>2. BootWork = [w EXCEPT !.kind = "candidate", !.cleanup = w.cleanup \cup {latest.id}]
      BY <1>1 DEF BootWork, RetryWork
    <2> HIDE DEF w
    <2>3. w.cleanup \cup {latest.id} \in SUBSET Tx /\ w.cand \in Profile \cup {None}
      BY <2>1, WorkFields
    <2>4. BootWork = [kind |-> "candidate", cand |-> w.cand, mode |-> w.mode,
                      cleanup |-> w.cleanup \cup {latest.id}]
      BY <2>1, <2>2 DEF Work
    <2>5. /\ BootWork \in Work /\ BootWork.kind = "candidate" /\ BootWork.cand = w.cand
          /\ BootWork.mode = w.mode
      BY <2>1, <2>3, <2>4, WorkMade
    <2> QED BY <2>1, <2>5 DEF WellMade, None
  <1>2. CASE ~(latest.status \in Unsettled /\ ~marked /\ work[latest.id].cand # None)
    <2> DEFINE clean == IF latest.status \in Unsettled
                        THEN work[latest.id].cleanup \cup {latest.id} ELSE {}
    <2>1. clean \in SUBSET Tx
      <3>1. CASE latest.status \in Unsettled
        BY <3>1, LastIs, WorkFields
      <3> QED BY <3>1
    <2>2. BootWork = [kind |-> "candidate", cand |-> SavedCandidate, mode |-> desired,
                      cleanup |-> clean]
      BY <1>2 DEF BootWork
    <2> HIDE DEF clean
    <2>3. desired \in DesiredState
      BY DEF ControlTypes, ControlTypeOK
    <2>4. /\ BootWork \in Work /\ BootWork.kind = "candidate" /\ BootWork.cand = SavedCandidate
          /\ BootWork.mode = desired
      BY <2>1, <2>2, <2>3, SavedIs, WorkMade
    <2> QED BY <2>3, <2>4, SavedIs DEF WellMade, None
  <1> QED BY <1>1, <1>2

\* The work of the hotspot, forget and retry requests is well made.
LEMMA DirectWorkMade ==
    ASSUME DiskTypes, ControlTypes, Identities, Works, NoCliYet, CandidateKept,
           current = NoTx, NEW o \in {"hotspot", "forget", "retry"}, o = "retry" => Retryable, NEW t
    PROVE  WellMade(t, DirectWork(o))
  <1>1. CASE o = "hotspot"
    <2>1. DirectWork(o) = [kind |-> "rescue", cand |-> None, mode |-> "hotspot", cleanup |-> {}]
      BY <1>1 DEF DirectWork, NoWork
    <2>2. /\ DirectWork(o) \in Work /\ DirectWork(o).kind = "rescue"
          /\ DirectWork(o).cand = None /\ DirectWork(o).mode = "hotspot"
      BY <2>1, WorkMade DEF DesiredState
    <2> QED BY <2>2, NetNames DEF WellMade, None, DesiredState
  <1>2. CASE o = "forget"
    <2>1. DirectWork(o) = [kind |-> "forget", cand |-> None, mode |-> "hotspot", cleanup |-> {}]
      BY <1>2 DEF DirectWork, NoWork
    <2>2. /\ DirectWork(o) \in Work /\ DirectWork(o).kind = "forget"
          /\ DirectWork(o).cand = None /\ DirectWork(o).mode = "hotspot"
      BY <2>1, WorkMade DEF DesiredState
    <2> QED BY <2>2, NetNames DEF WellMade, None, DesiredState
  <1>3. CASE o = "retry"
    <2> DEFINE w == work[latest.id]
               kind == IF w.kind = "fallback" THEN "candidate" ELSE w.kind
               cand == IF w.kind = "fallback" /\ w.cand = None THEN SavedCandidate ELSE w.cand
    <2>1. /\ latest.id \in Tx /\ w \in Work /\ w.kind # None
          /\ w.mode \in DesiredState
          /\ w.kind = "forget" => w.cand = None
          /\ w.kind = "rescue" => w.mode = "hotspot"
          /\ w.cand \in used \cup CliRequest \cup {"factory", None}
          /\ w.cand # None /\ clis = 0 => w.cand \in profiles
          /\ clis = 0 => w.cand \notin CliRequest
      BY <1>3, LastIs DEF Retryable, Latest
    <2>2. DirectWork(o) = [w EXCEPT !.kind = kind, !.cand = cand,
                                    !.cleanup = w.cleanup \cup {latest.id}]
      BY <1>3 DEF DirectWork, Latest
    <2>3. /\ w.cleanup \cup {latest.id} \in SUBSET Tx
          /\ kind \in {None, "candidate", "rescue", "fallback", "forget"}
          /\ cand \in Profile \cup {None} /\ w.mode \in DesiredState \cup {None}
      BY <2>1, WorkFields, SavedIs
    <2>4. /\ kind # None /\ (kind = "forget" => cand = None)
          /\ (kind = "rescue" => w.mode = "hotspot")
          /\ cand \in used \cup CliRequest \cup {"factory", None}
          /\ cand # None /\ clis = 0 => cand \in profiles
          /\ clis = 0 => cand \notin CliRequest
      BY <2>1, SavedIs DEF None
    <2> HIDE DEF w, kind, cand
    <2> DEFINE made == DirectWork(o)
    <2> DEFINE clean == w.cleanup \cup {latest.id}
               mode == w.mode
    <2>5. made = [kind |-> kind, cand |-> cand, mode |-> mode, cleanup |-> clean]
      BY <2>1, <2>2 DEF Work
    <2> HIDE DEF made, clean, mode
    <2>8. clean \in SUBSET Tx /\ mode \in DesiredState \cup {None}
      BY <2>3 DEF clean, mode
    <2>9. made \in Work /\ made.kind = kind /\ made.cand = cand /\ made.mode = mode
      <3>1. kind \in {None, "candidate", "rescue", "fallback", "forget"} /\ cand \in Profile \cup {None}
        BY <2>3
      <3>2. [kind |-> kind, cand |-> cand, mode |-> mode, cleanup |-> clean] \in Work
        BY <3>1, <2>8 DEF Work
      <3>3. made \in Work
        BY <3>2, <2>5
      <3>4. made.kind = kind
        BY <2>5
      <3>5. made.cand = cand
        BY <2>5
      <3>6. made.mode = mode
        BY <2>5
      <3> QED BY <3>3, <3>4, <3>5, <3>6
    <2>6. made \in Work /\ made.kind = kind /\ made.cand = cand /\ made.mode = w.mode
      BY <2>9 DEF mode
    <2>7. WellMade(t, made)
      BY <2>1, <2>4, <2>6 DEF WellMade
    <2> QED BY <2>7 DEF made
  <1> QED BY <1>1, <1>2, <1>3

\* The work of the fallback the monitor submits is well made.
LEMMA FallbackWorkMade ==
    ASSUME DiskTypes, ControlTypes, Identities, NoCliYet, NEW t, NEW w,
           w = [kind |-> "fallback", cand |-> SavedCandidate, mode |-> desired, cleanup |-> {}]
    PROVE  w \in Work /\ WellMade(t, w)
  <1>1. desired \in DesiredState
    BY DEF ControlTypes, ControlTypeOK
  <1>2. /\ w \in Work /\ w.kind = "fallback" /\ w.cand = SavedCandidate /\ w.mode = desired
    BY <1>1, SavedIs DEF Work
  <1> QED BY <1>1, <1>2, SavedIs DEF WellMade, None

\* The work of an apply request names the profile the request has just written.
LEMMA ApplyWorkMade ==
    ASSUME NEW t \in Tx, t \in profiles, NEW w,
           w = [kind |-> "candidate", cand |-> t, mode |-> "wifi", cleanup |-> {}]
    PROVE  w \in Work /\ WellMade(t, w)
  <1>1. /\ w \in Work /\ w.kind = "candidate" /\ w.cand = t /\ w.mode = "wifi"
    BY DEF Work, Profile, DesiredState
  <1> QED BY <1>1, NetNames, NamesApart DEF WellMade, None, DesiredState

\* An acceptance of a well-made work, in the form the rest of the proof uses.
LEMMA AcceptIs ==
    ASSUME ControlTypes, current = NoTx, NEW t \in Tx, t \notin used, NEW w \in Work,
           WellMade(t, w), NEW publish \in BOOLEAN, NEW keep \in BOOLEAN, NEW release,
           Accept(t, w, publish, keep, release)
    PROVE  Accepts(t, w) /\ released' = release /\ (keep => verified' = verified)
  <1>1. AcceptedAs(t, w)
    BY AcceptDoes DEF ControlTypes, ControlTypeOK
  <1>2. desired' \in DesiredState
    BY DEF Accept, WellMade, ControlTypes, ControlTypeOK
  <1>3. saved' \in BOOLEAN
    BY DEF Accept, ControlTypes, ControlTypeOK
  <1>4. verified' \in {verified, FALSE} /\ (keep => verified' = verified)
    BY DEF Accept
  <1> QED BY <1>1, <1>2, <1>3, <1>4 DEF Accepts, Accept

\* A request made of its fields has them.
LEMMA ReqMade ==
    ASSUME NEW k \in Key, NEW t \in Tx, NEW s \in {"write", "respond", "release"},
           req' = [key |-> k, tx |-> t, pc |-> s]
    PROVE  req' \in Reqs /\ req' # NoReq /\ req'.key = k /\ req'.tx = t /\ req'.pc = s
  <1>1. req' \in [key : Key, tx : Tx, pc : {"write", "respond", "release"}]
    BY DEF Reqs
  <1>2. req'.key = k /\ req'.tx = t /\ req'.pc = s
    OBVIOUS
  <1>3. req' # NoReq
    BY <1>2 DEF NoReq, None
  <1> QED BY <1>1, <1>2, <1>3 DEF Reqs

\* boot_reconcile either goes on without a transaction or accepts one and executes it.
LEMMA BootEffect ==
    ASSUME DiskTypes, ControlTypes, Identities, Works, NoCliYet, CandidateKept, BootReconcile
    PROVE  BootGoesOn \/ BootAccepts
  <1> DEFINE accepts ==
        /\ CanAccept /\ desired = "wifi" /\ BootWork.cand # None
        /\ Accept(Fresh, BootWork, TRUE, TRUE, TRUE)
        /\ exec' = [id |-> Fresh, by |-> "boot", pc |-> "lock", undo |-> <<>>]
        /\ main' = "exec" /\ UNCHANGED <<link, faults, opLock>>
  <1>1. BootGoesOn \/ accepts
    BY DEF BootReconcile, BootGoesOn, DiskSame, Activates, ActivateFails, Die
  <1>2. CASE accepts
    <2>1. current = NoTx /\ Fresh \in Tx /\ Fresh \notin used
      BY <1>2, FreshIs DEF CanAccept, ControlTypes, ControlTypeOK
    <2>2. WellMade(Fresh, BootWork) /\ BootWork \in Work
      BY <1>2, <2>1, BootWorkMade DEF WellMade
    <2>3. Accepts(Fresh, BootWork) /\ released' = TRUE /\ verified' = verified
      BY <1>2, <2>1, <2>2, AcceptIs
    <2>4. \E t \in Tx, w \in Work :
            /\ Accepts(t, w) /\ released' = TRUE /\ verified' = verified
            /\ exec' = [id |-> t, by |-> "boot", pc |-> "lock", undo |-> <<>>]
      BY <1>2, <2>1, <2>2, <2>3
    <2> QED BY <1>2, <2>4 DEF BootReconcile, BootAccepts, DiskSame
  <1> QED BY <1>1, <1>2

\* The first half of an apply request writes a profile under the operation lock.
LEMMA PrepareRequestEffect ==
    ASSUME DiskTypes, ControlTypes, NEW k \in Key, ApplyPrepare(k)
    PROVE  PrepareRequestDoes(k) \/ IdleDoes
  <1> DEFINE written ==
        /\ opLock' = "request" /\ PrepareCandidate(Fresh)
        /\ req' = [key |-> k, tx |-> Fresh, pc |-> "write"]
  <1>1. IdleDoes \/ written
    BY DEF ApplyPrepare, IdleDoes, DiskSame, RecordsKept, ControlTypes, ControlTypeOK
  <1>2. CASE written
    <2>1. current = NoTx /\ Fresh \in Tx /\ Fresh \notin used
      BY FreshIs DEF ApplyPrepare, CanAccept, ControlTypes, ControlTypeOK
    <2>2. req' \in Reqs /\ req' # NoReq /\ req'.key = k /\ req'.tx = Fresh /\ req'.pc = "write"
      BY <1>2, <2>1, ReqMade
    <2>3. \E t \in Tx :
            /\ t \notin used /\ profiles' = profiles \cup {t}
            /\ req' \in Reqs /\ req' # NoReq /\ req'.key = k /\ req'.tx = t /\ req'.pc = "write"
      BY <1>2, <2>1, <2>2 DEF PrepareCandidate
    <2> QED BY <1>2, <2>1, <2>3
            DEF ApplyPrepare, Idle, PrepareRequestDoes, RecordsKept, ControlTypes, ControlTypeOK
  <1> QED BY <1>1, <1>2

\* The second half accepts its transaction or takes the profile away again.
LEMMA ApplyEffect ==
    ASSUME DiskTypes, ControlTypes, Identities, ApplyAccept
    PROVE  ApplyDoes
  <1>1. /\ req.pc = "write" /\ req # NoReq /\ req.tx \in Tx /\ req.key \in Key
        /\ req.tx \notin used /\ req.tx \in profiles /\ current = NoTx
    BY ReqFields DEF ApplyAccept, ControlTypes, Identities, NoReq, None
  <1>2. creds' \subseteq Key
    BY DEF ApplyAccept, ControlTypes, ControlTypeOK
  <1> DEFINE t == req.tx
             w == [kind |-> "candidate", cand |-> t, mode |-> "wifi", cleanup |-> {}]
             taken ==
        /\ Accept(t, w, TRUE, FALSE, FALSE)
        /\ receipts' = [receipts EXCEPT ![req.key] = t] /\ deferred' = deferred \cup {t}
        /\ req' = [req EXCEPT !.pc = "respond"] /\ UNCHANGED <<profiles, marked>>
             refused ==
        /\ req' = NoReq /\ profiles' \in {profiles, profiles \ {t}}
        /\ UNCHANGED <<storeVars, deferred, creds, used>>
  <1>3. taken \/ refused
    BY DEF ApplyAccept
  <1>4. /\ UNCHANGED <<quarantined, lkg, rescue, link, journal, requests, cli, clis, main, exec,
                       queued, answered, worker, stranded>>
        /\ opLock' = None
    BY DEF ApplyAccept
  <1>5. CASE taken
    <2>1. w \in Work /\ WellMade(t, w)
      BY <1>1, ApplyWorkMade
    <2> HIDE DEF w
    <2>2. Accepts(t, w) /\ released' = FALSE
      BY <1>1, <1>5, <2>1, AcceptIs
    <2>3. req' \in Reqs /\ req' # NoReq /\ req'.key = req.key /\ req'.tx = req.tx
          /\ req'.pc = "respond"
      BY <1>1, <1>5, ReqGoes DEF ControlTypes
    <2>4. Asked(req.key, req.tx)
      BY <1>5, <2>2, <2>3 DEF Asked
    <2>5. \E v \in Work : Accepts(req.tx, v)
      BY <2>1, <2>2
    <2> QED BY <1>1, <1>2, <1>4, <1>5, <2>4, <2>5 DEF ApplyDoes
  <1>6. CASE refused
    BY <1>1, <1>2, <1>4, <1>6 DEF ApplyDoes, RecordsKept
  <1> QED BY <1>3, <1>5, <1>6

\* The hotspot, forget and retry requests accept theirs in one step.
LEMMA DirectEffect ==
    ASSUME DiskTypes, ControlTypes, Identities, Works, NoCliYet, CandidateKept,
           NEW k \in Key, DirectAccept(k)
    PROVE  DirectDoes(k)
  <1> DEFINE o == wants[k]
             w == DirectWork(o)
             publish == o = "hotspot" \/ (o = "retry" /\ work[Latest].kind # "forget")
             keep == o # "hotspot"
  <1>1. /\ o \in {"hotspot", "forget", "retry"} /\ (o = "retry" => Retryable)
        /\ current = NoTx /\ Fresh \in Tx /\ Fresh \notin used
    BY FreshIs DEF DirectAccept, CanAccept, ControlTypes, ControlTypeOK
  <1>2. Accept(Fresh, w, publish, keep, FALSE) /\ publish \in BOOLEAN /\ keep \in BOOLEAN
    BY DEF DirectAccept
  <1>3. WellMade(Fresh, w)
    BY <1>1, DirectWorkMade
  <1> HIDE DEF w, publish, keep
  <1>4. w \in Work
    BY <1>3 DEF WellMade
  <1>5. Accepts(Fresh, w) /\ released' = FALSE
    BY <1>1, <1>2, <1>3, <1>4, AcceptIs
  <1>6. req' \in Reqs /\ req' # NoReq /\ req'.key = k /\ req'.tx = Fresh /\ req'.pc = "respond"
    BY <1>1, ReqMade DEF DirectAccept
  <1>7. Asked(k, Fresh)
    BY <1>5, <1>6 DEF Asked, DirectAccept
  <1>8. \E t \in Tx, v \in Work : Accepts(t, v) /\ Asked(k, t)
    BY <1>1, <1>4, <1>5, <1>7
  <1> QED BY <1>8 DEF DirectAccept, DirectDoes, Idle, DiskSame

\* A reply is written before its transaction is released to the worker.
LEMMA RespondEffect ==
    ASSUME ControlTypes, Respond \/ Release
    PROVE  RespondDoes \/ ReleaseDoes
  <1>1. req # NoReq /\ req.tx \in Tx /\ req.pc \in {"respond", "release"}
    BY ReqFields DEF Respond, Release, ControlTypes, None
  <1>2. CASE Respond
    <2>1. req' = [req EXCEPT !.pc = "release"] =>
            req' \in Reqs /\ req' # NoReq /\ req'.tx = req.tx /\ req'.pc = "release"
      BY <1>1, ReqGoes DEF ControlTypes
    <2> QED BY <1>1, <1>2, <2>1 DEF Respond, RespondDoes, PeerGone, DiskSame, RecordsKept
  <1>3. CASE Release
    BY <1>1, <1>3 DEF Release, ReleaseDoes, DiskSame, Enqueue
  <1> QED BY <1>2, <1>3

\* A replayed request replies with the transaction of its receipt.
LEMMA ReplayEffect ==
    ASSUME ControlTypes, NEW k \in Key, Replay(k)
    PROVE  ReplayDoes(k)
  <1>1. receipts[k] \in Tx
    BY DEF Replay, ControlTypes, ControlTypeOK
  <1>2. req' \in Reqs /\ req' # NoReq /\ req'.key = k /\ req'.tx = receipts[k]
        /\ req'.pc = "respond"
    BY <1>1, ReqMade DEF Replay
  <1> QED BY <1>2 DEF Replay, Idle, ReplayDoes, DiskSame, RecordsKept

\* The monitor probes, or submits a fallback of its own.
LEMMA MonitorEffect ==
    ASSUME DiskTypes, ControlTypes, Identities, NoCliYet,
           MonitorProbe \/ MonitorSubmit \/ MonitorFails
    PROVE  IdleDoes \/ SubmitDoes
  <1>3. CASE MonitorFails
    BY <1>3 DEF MonitorFails, MonitorFrame, IdleDoes, DiskSame, RecordsKept, ControlTypes,
                ControlTypeOK
  <1>1. CASE MonitorProbe
    BY <1>1 DEF MonitorProbe, MonitorFrame, IdleDoes, DiskSame, RecordsKept, ControlTypes,
                ControlTypeOK
  <1>2. CASE MonitorSubmit
    <2> DEFINE w == [kind |-> "fallback", cand |-> SavedCandidate, mode |-> desired,
                     cleanup |-> {}]
               submits == /\ CanAccept /\ opLock = None /\ Accept(Fresh, w, TRUE, TRUE, TRUE)
                          /\ Enqueue(Fresh) /\ UNCHANGED <<receipts, marked, opLock>>
    <2>1. submits \/ UNCHANGED <<storeVars, opLock, queued, used>>
      BY <1>2 DEF MonitorSubmit
    <2>2. CASE UNCHANGED <<storeVars, opLock, queued, used>>
      BY <1>2, <2>2 DEF MonitorSubmit, MonitorFrame, IdleDoes, DiskSame, RecordsKept,
                        ControlTypes, ControlTypeOK
    <2>3. CASE submits
      <3>1. current = NoTx /\ Fresh \in Tx /\ Fresh \notin used
        BY <2>3, FreshIs DEF CanAccept, ControlTypes, ControlTypeOK
      <3>2. w \in Work /\ WellMade(Fresh, w)
        BY FallbackWorkMade
      <3>6. Accept(Fresh, w, TRUE, TRUE, TRUE)
        BY <2>3
      <3> HIDE DEF w
      <3>3. Accepts(Fresh, w) /\ released' = TRUE
        BY <3>1, <3>2, <3>6, AcceptIs
      <3>4. \E t \in Tx, v \in Work :
              Accepts(t, v) /\ released' = TRUE /\ queued' = queued \cup {t}
        BY <2>3, <3>1, <3>2, <3>3 DEF Enqueue
      <3> QED BY <1>2, <2>3, <3>4 DEF MonitorSubmit, MonitorFrame, SubmitDoes, DiskSame
    <2> QED BY <2>1, <2>2, <2>3
  <1> QED BY <1>1, <1>2, <1>3

\* Credentials come and go without touching the network's records.
LEMMA CredentialEffect ==
    ASSUME ControlTypes, NEW k \in Key, CredentialCreate(k) \/ CredentialExpire(k)
    PROVE  IdleDoes
  BY DEF CredentialCreate, CredentialExpire, IdleDoes, DiskSame, RecordsKept, ControlTypes,
         ControlTypeOK

\* Every step of the network does what its effect says.
LEMMA NetworkEffects ==
    ASSUME DiskTypes, ControlTypes, Identities, Works, NoCliYet, CandidateKept, NetworkNext
    PROVE  NetworkDoes
  <1>1. CASE Boots
    BY <1>1, BootEffect DEF Boots, BootsDo, NetworkDoes
  <1>2. CASE Requests
    <2>1. \A k \in Key : CredentialCreate(k) \/ CredentialExpire(k) => NetworkDoes
      BY CredentialEffect DEF NetworkDoes
    <2>2. \A k \in Key : Replay(k) => NetworkDoes
      BY ReplayEffect DEF NetworkDoes, RequestsDo
    <2>3. \A k \in Key : ApplyPrepare(k) => NetworkDoes
      BY PrepareRequestEffect DEF NetworkDoes, RequestsDo
    <2>4. \A k \in Key : DirectAccept(k) => NetworkDoes
      BY DirectEffect DEF NetworkDoes, RequestsDo
    <2>5. ApplyAccept => NetworkDoes
      BY ApplyEffect DEF NetworkDoes, RequestsDo
    <2>6. Respond \/ Release => NetworkDoes
      BY RespondEffect DEF NetworkDoes, RequestsDo
    <2>7. RequestEnds => NetworkDoes
      BY DEF RequestEnds, NetworkDoes
    <2> QED BY <1>2, <2>1, <2>2, <2>3, <2>4, <2>5, <2>6, <2>7 DEF Requests
  <1>3. CASE WorkerTakes
    BY <1>3 DEF WorkerTakes, WorkerDoes, NetworkDoes, DiskSame, RecordsKept
  <1>4. CASE ExecNext
    BY <1>4, ExecEffects DEF NetworkDoes
  <1>5. CASE MonitorProbe \/ MonitorSubmit \/ MonitorFails
    BY <1>5, MonitorEffect DEF NetworkDoes
  <1>6. CASE Crash \/ Reboot \/ CaptureTakes \/ CaptureReleases \/ (World /\ UNCHANGED controlVars)
    BY <1>6 DEF Crash, NetworkDoes, World, WorldDoes
  <1> QED BY <1>1, <1>2, <1>3, <1>4, <1>5, <1>6 DEF NetworkNext

-----------------------------------------------------------------------------
(* The command line *)

\* The fields of a journal.
LEMMA JournalFields ==
    ASSUME NEW j \in Journals
    PROVE  /\ j.phase \in Phases /\ j.req \in CliRequest \cup {None}
           /\ j.prev \in Profile \cup {AP, None} /\ j.outcome \in Outcomes
           /\ j.cleanup \in {None, "pending", "listed", "complete", "failed"}
           /\ j.list \subseteq Profile
  BY DEF Journals

\* A journal made of its fields has them.
LEMMA JournalMade ==
    ASSUME NEW p \in Phases, NEW r \in CliRequest \cup {None},
           NEW v \in Profile \cup {AP, None}, NEW o \in Outcomes,
           NEW c \in {None, "pending", "listed", "complete", "failed"}, NEW l \in SUBSET Profile,
           NEW j, j = [phase |-> p, req |-> r, prev |-> v, outcome |-> o, cleanup |-> c, list |-> l]
    PROVE  /\ j \in Journals /\ j.phase = p /\ j.req = r /\ j.prev = v /\ j.outcome = o
           /\ j.cleanup = c /\ j.list = l
  BY DEF Journals

\* No journal is a journal.
LEMMA NoJournalIs == /\ NoJournal \in Journals /\ NoJournal.outcome = None
                     /\ NoJournal.req = None /\ NoJournal.cleanup = None
  BY DEF NoJournal, Journals, Phases, Outcomes

\* What a step of the command line may write into the journal.
LEMMA JournalCleans ==
    ASSUME journal \in Journals, NEW c \in {"complete", "failed"},
           journal' = [journal EXCEPT !.cleanup = c]
    PROVE  /\ journal' \in Journals /\ journal'.req = journal.req
           /\ journal'.outcome = journal.outcome /\ journal'.cleanup = c
  BY DEF Journals

\* The journal that lists what cleanup may take away.
LEMMA JournalLists ==
    ASSUME journal \in Journals, profiles \subseteq Profile,
           journal' = [journal EXCEPT !.cleanup = "listed", !.list = Unreferenced]
    PROVE  /\ journal' \in Journals /\ journal'.req = journal.req
           /\ journal'.outcome = journal.outcome /\ journal'.list = Unreferenced
  <1>1. Unreferenced \subseteq Profile
    BY DEF Unreferenced
  <1> QED BY <1>1 DEF Journals

\* A journal that goes on to its next phase.
LEMMA JournalPhases ==
    ASSUME journal \in Journals, NEW p \in {"verifying", "staging"},
           journal' = [journal EXCEPT !.phase = p]
    PROVE  /\ journal' \in Journals /\ journal'.req = journal.req
           /\ journal'.outcome = journal.outcome /\ journal'.cleanup = journal.cleanup
  BY DEF Journals, Phases

\* A journal that commits.
LEMMA JournalCommits ==
    ASSUME journal \in Journals,
           journal' = [journal EXCEPT !.phase = "commit", !.outcome = "committed",
                                      !.cleanup = "pending"]
    PROVE  /\ journal' \in Journals /\ journal'.req = journal.req
           /\ journal'.outcome = "committed" /\ journal'.cleanup = "pending"
  BY DEF Journals, Phases, Outcomes

\* A recovery takes away no profile but that of the request, and leaves the record of the
\* saved network.
LEMMA RecoverDoes ==
    ASSUME DiskTypes, Recover(journal)
    PROVE  /\ profiles' \in {profiles, profiles \ {journal.req}}
           /\ link' \in Profile \cup {AP, None}
           /\ journal' \in Journals /\ journal'.req = journal.req
           /\ UNCHANGED <<quarantined, lkg, rescue>>
  <1> DEFINE J(up, cleaned) ==
        [journal EXCEPT !.phase = "verifying",
                !.outcome = CASE up = None -> "recovery_failed"
                              [] up = AP /\ AP # journal.prev -> "rescued"
                              [] OTHER -> "rolled_back",
                !.cleanup = IF cleaned THEN "complete" ELSE "failed"]
  <1>1. PICK cleaned \in BOOLEAN, up \in Ladder(journal) \cup {None} :
          journal' = J(up, cleaned) /\ link' = up
    BY DEF Recover
  <1>2. up \in Profile \cup {AP, None}
    BY JournalFields DEF Ladder, DiskTypes
  <1> DEFINE o == CASE up = None -> "recovery_failed"
                    [] up = AP /\ AP # journal.prev -> "rescued"
                    [] OTHER -> "rolled_back"
             c == IF cleaned THEN "complete" ELSE "failed"
  <1>3. o \in Outcomes /\ c \in {None, "pending", "listed", "complete", "failed"}
    BY DEF Outcomes
  <1>4. journal' = [journal EXCEPT !.phase = "verifying", !.outcome = o, !.cleanup = c]
    BY <1>1
  <1> HIDE DEF o, c
  <1>5. journal' \in Journals /\ journal'.req = journal.req
    BY <1>3, <1>4 DEF Journals, Phases, DiskTypes
  <1> QED BY <1>1, <1>2, <1>5 DEF Recover

\* Nor does one whose outcome could not be written, which leaves the journal too.
LEMMA RecoverFailsDoes ==
    ASSUME DiskTypes, RecoverFails(journal)
    PROVE  /\ profiles' \in {profiles, profiles \ {journal.req}}
           /\ link' \in Profile \cup {AP, None}
           /\ UNCHANGED <<quarantined, lkg, rescue, journal, requests>>
           /\ cli' = NoCli /\ opLock' = None
  <1>1. Ladder(journal) \subseteq Profile \cup {AP, None}
    BY JournalFields DEF Ladder, DiskTypes
  <1> QED BY <1>1 DEF RecoverFails, CliEnd

\* What a command remembers of a request is of its type.
LEMMA RemembersTypes ==
    ASSUME requests \in [CliRequest -> {None, "ok", "failed"}], NEW o \in {"ok", "failed"}, Remember(o)
    PROVE  requests' \in [CliRequest -> {None, "ok", "failed"}]
  BY DEF Remember

\* A command starts under the operation lock, keeps it, and gives it back when it ends.
CliStarts ==
    /\ cli = NoCli /\ opLock = None /\ opLock' = "cli" /\ clis' = clis + 1
    /\ cli' \in Clis /\ cli' # NoCli /\ cli'.pc = "settle"
    /\ cli'.cmd = "apply" => cli'.req \in CliRequest
CliWorks ==
    /\ cli # NoCli /\ cli' \in Clis /\ clis' = clis
    /\ \/ opLock' = opLock /\ cli' # NoCli /\ cli'.cmd = cli.cmd /\ cli'.req = cli.req
       \/ cli' = NoCli /\ opLock' = None
CliKeeps ==
    /\ UNCHANGED <<quarantined, rescue>>
    /\ profiles' \subseteq Profile /\ lkg' \in CliRequest \cup {lkg, None}
    /\ link' \in Profile \cup {AP, None} /\ journal' \in Journals
    /\ requests' \in [CliRequest -> {None, "ok", "failed"}]

\* A command starts under the operation lock.
LEMMA CliStartsSo ==
    ASSUME LockHeld, NEW cmd \in {"apply", "reconcile", "rescue"}, NEW r \in CliRequest \cup {None},
           cmd = "apply" => r \in CliRequest, CliBegin(cmd, r)
    PROVE  CliStarts
  <1>1. cli' = [cmd |-> cmd, req |-> r, pc |-> "settle"]
    BY DEF CliBegin
  <1>2. cli' \in [cmd : {"apply", "reconcile", "rescue"}, req : CliRequest \cup {None}, pc : CliSteps]
    BY <1>1 DEF CliSteps
  <1>3. cli'.cmd = cmd /\ cli'.req = r /\ cli'.pc = "settle"
    BY <1>1
  <1>4. cli' # NoCli
    BY <1>3 DEF NoCli, None
  <1>5. cli = NoCli /\ opLock = None /\ opLock' = "cli" /\ clis' = clis + 1
    BY DEF CliBegin, LockHeld, None
  <1> QED BY <1>2, <1>3, <1>4, <1>5 DEF CliStarts, Clis

\* A command at a step is one, and can go on to any other.
LEMMA CliRuns ==
    ASSUME DiskTypes, cli.pc # None
    PROVE  /\ cli # NoCli /\ cli.cmd \in {"apply", "reconcile", "rescue"}
           /\ NoCli \in Clis /\ NoCli # cli
           /\ \A s \in CliSteps : CliTo(s) => CliAt(s)
  BY CliFields, CliGoes DEF DiskTypes, Clis, NoCli, None

\* The journal a command writes first.
LEMMA PreparedJournal ==
    ASSUME DiskTypes, cli # NoCli,
           journal' = [phase |-> "prepared", req |-> cli.req, prev |-> link, outcome |-> None,
                       cleanup |-> None, list |-> {}]
    PROVE  journal' \in Journals /\ journal'.req = cli.req /\ journal'.outcome = None
  <1>1. cli.req \in CliRequest \cup {None} /\ link \in Profile \cup {AP, None}
    BY CliFields DEF DiskTypes
  <1> DEFINE r == cli.req
  <1>2. r \in CliRequest \cup {None} /\ "prepared" \in Phases /\ None \in Outcomes
    BY <1>1 DEF Phases, Outcomes
  <1> HIDE DEF r
  <1>3. journal' = [phase |-> "prepared", req |-> r, prev |-> link, outcome |-> None,
                    cleanup |-> None, list |-> {}]
    BY DEF r
  <1>4. journal' \in Journals /\ journal'.req = r /\ journal'.outcome = None
    BY <1>1, <1>2, <1>3 DEF Journals
  <1> QED BY <1>4 DEF r

\* No command is a command.
LEMMA CliNever == NoCli \in Clis
  BY DEF Clis

\* The step after a settle is one, and None is not.
LEMMA CliStepNames == AfterSettle \in CliSteps /\ None \notin CliSteps
  BY DEF AfterSettle, CliSteps, None

\* Every step of the command line: what it holds, and that the records keep their form.
LEMMA CliDoes ==
    ASSUME DiskTypes, LockHeld, Commanded, CliNext
    PROVE  \/ CliStarts /\ UNCHANGED <<profileVars, link, journal, requests>>
           \/ CliWorks /\ CliKeeps
  <1>1. CASE CliSettleNone
    <2>1. cli # NoCli
      BY <1>1, CliRuns DEF CliSettleNone, None
    <2>2. CliWorks
      BY <1>1, <2>1, CliStepNames, CliGoes, CliNever
         DEF CliSettleNone, CliGoesOn, CliEnd, CliWorks, CliAt, DiskTypes, CliSteps
    <2>3. CliKeeps
      BY <1>1, <2>1, CliFields
         DEF CliSettleNone, CliGoesOn, CliKeeps, DiskTypes
    <2> QED BY <2>2, <2>3
  <1>2. CASE CliSettleEnded
    <2>1. cli # NoCli
      BY <1>2, CliRuns DEF CliSettleEnded, None
    <2>2. CliWorks
      BY <1>2, <2>1, CliStepNames, CliGoes, CliNever
         DEF CliSettleEnded, CliGoesOn, CliEnd, CliWorks, CliAt, DiskTypes, CliSteps
    <2>3. CliKeeps
      BY <1>2, <2>1, CliFields, JournalCleans, RemembersTypes
         DEF CliSettleEnded, CliGoesOn, CliKeeps, DiskTypes
    <2> QED BY <2>2, <2>3
  <1>3. CASE CliSettleInterrupted
    <2>1. cli # NoCli
      BY <1>3, CliRuns DEF CliSettleInterrupted, None
    <2>2. CliWorks
      BY <1>3, <2>1, CliStepNames, CliGoes, CliNever
         DEF CliSettleInterrupted, CliEnd, CliWorks, CliAt, DiskTypes, CliSteps, RecoverFails
    <2>3. CliKeeps
      BY <1>3, RecoverDoes, RecoverFailsDoes DEF CliSettleInterrupted, CliKeeps, DiskTypes
    <2> QED BY <2>2, <2>3
  <1>4. CASE CliMaterialize
    <2>1. cli # NoCli
      BY <1>4, CliRuns DEF CliMaterialize, None
    <2>2. CliWorks
      BY <1>4, <2>1, CliStepNames, CliGoes, CliNever
         DEF CliMaterialize, CliGoesOn, CliEnd, CliWorks, CliAt, DiskTypes, CliSteps
    <2>3. CliKeeps
      BY <1>4, <2>1, CliFields, JournalFields
         DEF CliMaterialize, CliGoesOn, CliKeeps, DiskTypes
    <2> QED BY <2>2, <2>3
  <1>5. CASE CliReceipt
    <2>1. cli # NoCli
      BY <1>5, CliRuns DEF CliReceipt, None
    <2>2. CliWorks
      BY <1>5, <2>1, CliStepNames, CliGoes, CliNever
         DEF CliReceipt, CliGoesOn, CliEnd, CliWorks, CliAt, DiskTypes, CliSteps
    <2>3. CliKeeps
      BY <1>5, <2>1, CliFields, JournalCleans, JournalLists, RemembersTypes
         DEF CliReceipt, CliGoesOn, CliKeeps, DiskTypes
    <2> QED BY <2>2, <2>3
  <1>6. CASE CliPrune
    <2>1. cli # NoCli
      BY <1>6, CliRuns DEF CliPrune, None
    <2>2. CliWorks
      BY <1>6, <2>1, CliStepNames, CliGoes, CliNever
         DEF CliPrune, CliGoesOn, CliEnd, CliWorks, CliAt, DiskTypes, CliSteps
    <2>3. CliKeeps
      BY <1>6, <2>1, CliFields, JournalCleans
         DEF CliPrune, CliGoesOn, CliKeeps, DiskTypes
    <2> QED BY <2>2, <2>3
  <1>7. CASE CliPrepare
    <2>1. cli # NoCli
      BY <1>7, CliRuns DEF CliPrepare, None
    <2>2. CliWorks
      BY <1>7, <2>1, CliStepNames, CliGoes, CliNever
         DEF CliPrepare, CliGoesOn, CliEnd, CliWorks, CliAt, DiskTypes, CliSteps
    <2>3. CliKeeps
      BY <1>7, <2>1, CliFields, PreparedJournal
         DEF CliPrepare, CliGoesOn, CliKeeps, DiskTypes
    <2> QED BY <2>2, <2>3
  <1>8. CASE CliStage
    <2>1. cli # NoCli
      BY <1>8, CliRuns DEF CliStage, None
    <2>2. CliWorks
      BY <1>8, <2>1, CliStepNames, CliGoes, CliNever
         DEF CliStage, CliGoesOn, CliEnd, CliWorks, CliAt, DiskTypes, CliSteps
    <2>3. CliKeeps
      BY <1>8, <2>1, CliFields, JournalPhases
         DEF CliStage, CliGoesOn, CliKeeps, DiskTypes, Commanded, Profile
    <2> QED BY <2>2, <2>3
  <1>9. CASE CliActivate
    <2>1. cli # NoCli
      BY <1>9, CliRuns DEF CliActivate, None
    <2>2. CliWorks
      BY <1>9, <2>1, CliStepNames, CliGoes, CliNever
         DEF CliActivate, CliGoesOn, CliEnd, CliWorks, CliAt, DiskTypes, CliSteps
    <2>3. CliKeeps
      BY <1>9, <2>1, CliFields
         DEF CliActivate, CliGoesOn, CliKeeps, DiskTypes, Activates, ActivateFails, Profile
    <2> QED BY <2>2, <2>3
  <1>10. CASE CliCommit
    <2>1. cli # NoCli
      BY <1>10, CliRuns DEF CliCommit, None
    <2>2. CliWorks
      BY <1>10, <2>1, CliStepNames, CliGoes, CliNever
         DEF CliCommit, CliGoesOn, CliEnd, CliWorks, CliAt, DiskTypes, CliSteps
    <2>3. CliKeeps
      BY <1>10, <2>1, CliFields, JournalCommits
         DEF CliCommit, CliGoesOn, CliKeeps, DiskTypes
    <2> QED BY <2>2, <2>3
  <1>11. CASE CliRecover
    <2>1. cli # NoCli
      BY <1>11, CliRuns DEF CliRecover, None
    <2>2. CliWorks
      BY <1>11, <2>1, CliNever DEF CliRecover, CliEnd, CliWorks, RecoverFails
    <2>3. CliKeeps
      BY <1>11, RecoverDoes, RecoverFailsDoes, RemembersTypes DEF CliRecover, CliKeeps, DiskTypes
    <2> QED BY <2>2, <2>3
  <1>12. CASE CliLkg
    <2>1. cli # NoCli
      BY <1>12, CliRuns DEF CliLkg, None
    <2>2. CliWorks
      BY <1>12, <2>1, CliStepNames, CliGoes, CliNever
         DEF CliLkg, CliGoesOn, CliEnd, CliWorks, CliAt, DiskTypes, CliSteps
    <2>3. CliKeeps
      BY <1>12, <2>1, CliFields
         DEF CliLkg, CliGoesOn, CliKeeps, DiskTypes, RescueOutcome, Activates, ActivateFails
    <2> QED BY <2>2, <2>3
  <1>13. CASE CliRescue
    <2>1. cli # NoCli
      BY <1>13, CliRuns DEF CliRescue, None
    <2>2. CliWorks
      BY <1>13, <2>1, CliStepNames, CliGoes, CliNever
         DEF CliRescue, CliGoesOn, CliEnd, CliWorks, CliAt, DiskTypes, CliSteps
    <2>3. CliKeeps
      BY <1>13, <2>1, CliFields
         DEF CliRescue, CliGoesOn, CliKeeps, DiskTypes, RescueOutcome, Activates, ActivateFails
    <2> QED BY <2>2, <2>3
  <1>14. CASE CliDies
    <2>1. cli # NoCli
      BY <1>14, CliRuns DEF CliDies, None
    <2>2. CliWorks
      BY <1>14, <2>1, CliStepNames, CliGoes, CliNever
         DEF CliDies, CliGoesOn, CliEnd, CliWorks, CliAt, DiskTypes, CliSteps
    <2>3. CliKeeps
      BY <1>14, <2>1, CliFields
         DEF CliDies, CliGoesOn, CliKeeps, DiskTypes
    <2> QED BY <2>2, <2>3
  <1>15. CASE \/ \E r \in CliRequest : CliBegin("apply", r)
              \/ CliBegin("reconcile", None) \/ CliBegin("rescue", None)
    <2>1. CliStarts
      BY <1>15, CliStartsSo
    <2> QED BY <1>15, <2>1 DEF CliBegin
  <1> QED BY <1>1, <1>2, <1>3, <1>4, <1>5, <1>6, <1>7, <1>8, <1>9, <1>10, <1>11, <1>12, <1>13,
             <1>14,
             <1>15 DEF CliNext

\* A step of the command line tool keeps Commanded.
LEMMA CommandedKept ==
    ASSUME DiskTypes, LockHeld, Commanded, CliNext
    PROVE  Commanded'
  <1>1. CASE CliStarts
    BY <1>1, CliFields DEF CliStarts, Commanded, DiskTypes
  <1>2. CASE cli' = NoCli
    BY <1>2 DEF NoCli, Commanded, None
  <1>3. CASE cli' # NoCli /\ CliWorks
    <2>1. cli'.cmd = cli.cmd /\ cli'.req = cli.req /\ cli # NoCli
      BY <1>3, CliNever DEF CliWorks
    <2>2. \A s \in CliSteps : CliTo(s) => cli'.pc = s
      BY <2>1, CliGoes DEF CliAt, DiskTypes
    <2>3. AfterSettle = IF cli.cmd = "apply" THEN "receipt" ELSE "lkg"
      BY DEF AfterSettle
    <2>4. CASE CliSettleNone \/ CliSettleEnded \/ CliSettleInterrupted \/ CliMaterialize
               \/ CliReceipt \/ CliPrune
      BY <1>3, <2>1, <2>2, <2>3, <2>4, CliStepNames
         DEF CliSettleNone, CliSettleEnded, CliSettleInterrupted, CliMaterialize, CliReceipt,
             CliPrune, CliEnd, Commanded, CliSteps, RecoverFails
    <2>5. CASE CliPrepare \/ CliStage \/ CliActivate \/ CliCommit \/ CliRecover
      BY <1>3, <2>1, <2>2, <2>5, CliStepNames
         DEF CliPrepare, CliStage, CliActivate, CliCommit, CliRecover, CliEnd, Commanded, CliSteps,
             RecoverFails
    <2>6. CASE CliLkg \/ CliRescue \/ CliDies
      BY <1>3, <2>6 DEF CliLkg, CliRescue, CliDies, CliEnd
    <2>7. ~(\E cmd, r : CliBegin(cmd, r))
      BY <2>1 DEF CliBegin, LockHeld, None
    <2> QED BY <2>4, <2>5, <2>6, <2>7 DEF CliNext
  <1> QED BY <1>1, <1>2, <1>3, CliDoes

\* A step of the command line tool keeps what the first command relies on.
LEMMA FirstCliKept ==
    ASSUME DiskTypes, LockHeld, Commanded, NoCliYet, FirstCli, CliNext
    PROVE  FirstCli'
  <1> SUFFICES ASSUME clis' = 1, cli' # NoCli PROVE FirstCli'
    BY DEF FirstCli
  <1>1. CASE CliStarts /\ UNCHANGED <<profileVars, link, journal, requests>>
    <2>1. clis = 0
      BY <1>1 DEF CliStarts, DiskTypes
    <2>2. journal' = NoJournal /\ lkg' \notin CliRequest
      BY <1>1, <2>1 DEF NoCliYet
    <2> QED BY <1>1, <2>2 DEF CliStarts, FirstCli
  <1>2. CASE CliWorks
    <2>1. cli'.cmd = cli.cmd /\ cli'.req = cli.req /\ cli # NoCli /\ clis = 1
      BY <1>2, CliNever DEF CliWorks
    <2>2. \A s \in CliSteps : CliTo(s) => cli'.pc = s
      BY <2>1, CliGoes DEF CliAt, DiskTypes
    <2>3. AfterSettle = IF cli.cmd = "apply" THEN "receipt" ELSE "lkg"
      BY DEF AfterSettle
    <2>4. ~(\E cmd, r : CliBegin(cmd, r)) /\ ~CliEnd
      BY <2>1 DEF CliBegin, LockHeld, None, CliEnd
    <2>5. CASE cli.pc = "settle"
      <3>1. journal = NoJournal /\ lkg \notin CliRequest
        BY <2>1, <2>5 DEF FirstCli
      <3>2. CliSettleNone
        BY <2>4, <2>5, <3>1, NoJournalIs
           DEF CliNext, CliSettleEnded, CliSettleInterrupted, CliMaterialize, CliReceipt,
               CliPrune,
               CliPrepare, CliStage, CliActivate, CliCommit, CliRecover, CliLkg, CliRescue,
               CliDies,
               Ended, None
      <3>3. cli'.pc \in {"receipt", "lkg"} /\ (cli'.pc = "receipt" => cli.cmd = "apply")
            /\ lkg' = lkg
        BY <2>2, <2>3, <3>2 DEF CliSettleNone, CliSteps
      <3> QED BY <2>1, <3>1, <3>3 DEF FirstCli
    <2>6. CASE cli.pc # "settle"
      <3>1. CASE CliMaterialize
        BY <2>1, <2>2, <2>4, <2>6, <3>1 DEF CliMaterialize, CliSteps, FirstCli
      <3>2. CASE CliReceipt
        <4>1. /\ cli.cmd = "apply" /\ cli.req \in CliRequest /\ journal.req = cli.req
              /\ journal.cleanup = "pending" /\ lkg = cli.req /\ cli.req \in profiles
          BY <2>1, <3>2 DEF CliReceipt, FirstCli, Commanded
        <4>2. requests'[cli.req] = "ok" /\ UNCHANGED <<lkg, profiles>>
          BY <3>2, <4>1 DEF CliReceipt, Remember, DiskTypes
        <4>3. lkg \notin Unreferenced
          BY <4>1, NetNames DEF Unreferenced, Referenced
        <4>4. CASE Unreferenced = {}
          <5>1. cli'.pc = "receipt"
            BY <2>2, <2>3, <3>2, <4>1, <4>4 DEF CliReceipt, CliSteps
          <5> QED BY <2>1, <4>1, <4>2, <5>1 DEF FirstCli
        <4>5. CASE Unreferenced # {}
          <5>1. cli'.pc = "prune"
                /\ journal' = [journal EXCEPT !.cleanup = "listed", !.list = Unreferenced]
            BY <2>2, <3>2, <4>1, <4>5 DEF CliReceipt, CliSteps
          <5>2. journal'.req = journal.req /\ journal'.list = Unreferenced
            BY <5>1, JournalLists DEF DiskTypes
          <5> QED BY <2>1, <4>1, <4>2, <4>3, <5>1, <5>2 DEF FirstCli
        <4> QED BY <4>4, <4>5
      <3>3. CASE CliPrune
        <4>1. cli.cmd = "apply" /\ requests[cli.req] = "ok" /\ requests' = requests
          BY <2>1, <3>3 DEF CliPrune, FirstCli
        <4>2. cli'.pc = "receipt"
          BY <2>2, <2>3, <2>4, <3>3, <4>1 DEF CliPrune, CliSteps
        <4> QED BY <2>1, <4>1, <4>2 DEF FirstCli
      <3>4. CASE CliPrepare
        <4>1. /\ lkg' \notin CliRequest /\ cli.cmd = "apply" /\ cli'.pc = "stage"
              /\ journal' = [phase |-> "prepared", req |-> cli.req, prev |-> link, outcome |-> None,
                             cleanup |-> None, list |-> {}]
          BY <2>1, <2>2, <2>4, <3>4 DEF CliPrepare, CliSteps, FirstCli
        <4>2. journal'.req = cli.req /\ journal'.outcome = None
          BY <4>1
        <4> QED BY <2>1, <4>1, <4>2 DEF FirstCli
      <3>5. CASE CliStage
        <4>1. journal'.req = journal.req /\ journal'.outcome = journal.outcome
          BY <3>5, JournalPhases DEF CliStage, DiskTypes
        <4>2. cli'.pc \in {"activate", "recover"} /\ cli.req \in profiles' /\ lkg' = lkg
          BY <2>2, <3>5 DEF CliStage, CliSteps
        <4>3. cli.pc = "stage"
          BY <3>5 DEF CliStage
        <4> QED BY <2>1, <4>1, <4>2, <4>3 DEF FirstCli
      <3>6. CASE CliActivate
        <4>1. cli'.pc \in {"commit", "recover"} /\ UNCHANGED <<profiles, lkg, journal>>
              /\ cli.pc = "activate"
          BY <2>2, <3>6 DEF CliActivate, CliSteps
        <4> QED BY <2>1, <4>1 DEF FirstCli
      <3>7. CASE CliCommit
        <4>1. cli.pc = "commit" /\ UNCHANGED <<profiles, lkg>>
          BY <3>7 DEF CliCommit
        <4>2. \/ cli'.pc = "recover" /\ journal' = journal
              \/ cli'.pc = "materialize" /\ journal'.req = journal.req
                 /\ journal'.cleanup = "pending"
          BY <2>2, <3>7, JournalCommits DEF CliCommit, CliSteps, DiskTypes
        <4> QED BY <2>1, <4>1, <4>2 DEF FirstCli
      <3> QED BY <2>4, <2>6, <3>1, <3>2, <3>3, <3>4, <3>5, <3>6, <3>7
              DEF CliNext, CliSettleNone, CliSettleEnded, CliSettleInterrupted, CliRecover,
                  CliLkg, CliRescue, CliDies, RecoverFails
    <2> QED BY <2>5, <2>6
  <1> QED BY <1>1, <1>2, CliDoes

\* The first command leaves the record of the saved network with its profile.
LEMMA FirstCliSpares ==
    ASSUME DiskTypes, LockHeld, Commanded, NoCliYet, FirstCli, CliNext, clis' <= 1,
           lkg \in profiles \/ lkg' # lkg
    PROVE  lkg' \in profiles'
  <1>1. CASE CliStarts /\ UNCHANGED <<profileVars, link, journal, requests>>
    BY <1>1
  <1>2. CASE CliWorks
    <2>1. cli # NoCli /\ clis = 1
      BY <1>2 DEF CliWorks, NoCliYet, DiskTypes
    <2>2. ~(\E cmd, r : CliBegin(cmd, r))
      BY <2>1 DEF CliBegin, LockHeld, None
    <2>3. cli.pc = "settle" => journal = NoJournal
      BY <2>1 DEF FirstCli
    <2>4. CASE CliSettleEnded \/ CliSettleInterrupted
      BY <2>3, <2>4, NoJournalIs DEF CliSettleEnded, CliSettleInterrupted, Ended, None
    <2>5. CASE CliMaterialize
      <3>1. lkg' # lkg => cli.pc = "materialize" /\ lkg' = journal.req
        BY <2>3, <2>5, NoJournalIs DEF CliMaterialize, None
      <3>2. cli.pc = "materialize" => journal.req = cli.req /\ cli.req \in profiles
        BY <2>1 DEF FirstCli
      <3>3. profiles' = profiles
        BY <2>5 DEF CliMaterialize
      <3> QED BY <3>1, <3>2, <3>3
    <2>6. CASE CliPrune
      BY <2>1, <2>6 DEF CliPrune, FirstCli
    <2>7. CASE CliRecover
      <3>1. journal.req = cli.req /\ cli.req \in CliRequest /\ lkg \notin CliRequest
        BY <2>1, <2>7 DEF CliRecover, FirstCli, Commanded
      <3>2. profiles' \in {profiles, profiles \ {journal.req}} /\ lkg' = lkg
        BY <2>7, RecoverDoes, RecoverFailsDoes DEF CliRecover
      <3> QED BY <3>1, <3>2
    <2>8. CASE CliSettleNone \/ CliReceipt \/ CliPrepare \/ CliStage \/ CliActivate \/ CliCommit
               \/ CliLkg \/ CliRescue \/ CliDies
      BY <2>8 DEF CliSettleNone, CliReceipt, CliPrepare, CliStage, CliActivate, CliCommit, CliLkg,
                  CliRescue, CliDies
    <2> QED BY <2>2, <2>4, <2>5, <2>6, <2>7, <2>8 DEF CliNext
  <1> QED BY <1>1, <1>2, CliDoes

-----------------------------------------------------------------------------
(* The parts of the invariant, one by one *)

\* What the executor would restore when the purge of a forget fails.
LEMMA UndoFields ==
    ASSUME exec \in Execs, exec.undo # <<>>
    PROVE  exec.undo[1] \in Profile \cup {None} /\ exec.undo[2] \in Journals
  BY ExecFields DEF Undos

\* The executor's transaction has its work.
LEMMA ExecWorkIs ==
    ASSUME ControlTypes, Works, Steps, exec # NoExec, exec.pc # "end"
    PROVE  /\ exec.id \in Tx /\ work[exec.id] \in Work /\ work[exec.id].kind # None
           /\ work[exec.id].mode \in DesiredState
           /\ work[exec.id].cand \in Profile \cup {None}
  <1>1. exec.id \in Tx /\ work[exec.id] \in Work
    BY ExecFields DEF ControlTypes, ControlTypeOK
  <1> QED BY <1>1, WorkFields DEF Works, Steps, Ran

\* Every step keeps what is on disk of its type.
LEMMA DiskTypesKept ==
    ASSUME ControlInv, NetworkDoes
    PROVE  DiskTypes'
  <1>1. /\ DiskTypes /\ ControlTypes /\ LockHeld /\ Commanded /\ Works /\ Steps
    BY DEF ControlInv
  <1>3. CASE Start \/ BootStart \/ ProcessEnds \/ CaptureTakes \/ CaptureReleases \/ BootGoesOn
             \/ BootAccepts \/ BootCleanup
    BY <1>1, <1>3 DEF DiskTypes, Start, BootStart, ProcessEnds, CaptureTakes, CaptureReleases,
                      BootGoesOn,
       BootAccepts, BootCleanup, DiskSame, Holder
  <1>4. CASE BootInit
    BY <1>1, <1>4 DEF DiskTypes, BootInit, EnsureRescue, Profile
  <1>5. CASE Reboot
    BY <1>1, <1>5, CliNever DEF DiskTypes, Reboot
  <1>6. CASE RequestsDo
    <2>1. CASE \E k \in Key : DirectDoes(k) \/ PrepareRequestDoes(k) \/ ReplayDoes(k)
      BY <1>1, <2>1 DEF DiskTypes, DirectDoes, PrepareRequestDoes, ReplayDoes, DiskSame, Holder,
                        Profile
    <2>2. CASE ApplyDoes \/ RespondDoes \/ ReleaseDoes
      BY <1>1, <2>2 DEF DiskTypes, ApplyDoes, RespondDoes, ReleaseDoes, DiskSame
    <2> QED BY <1>6, <2>1, <2>2 DEF RequestsDo
  <1>7. CASE WorkerDoes \/ SubmitDoes \/ IdleDoes \/ EndDoes
    BY <1>1, <1>7 DEF DiskTypes, WorkerDoes, SubmitDoes, IdleDoes, EndDoes, DiskSame, DiskKept,
       Unlocked
  <1>8. CASE ExecutorDoes
    <2>1. exec # NoExec
      BY <1>8 DEF ExecutorDoes, LockDoes, PrepareDoes, RescueDoes, ActivateDoes, CommitDoes,
         CommittedDoes, RescuedDoes, ForgetRescueDoes, QuarantineDoes, UnlinkDoes, PurgeDoes,
         ForgottenDoes, FallbackDoes, SettleDoes, AnnounceDoes, UnlocksDoes, ExecShared
    <2>2. CASE LockDoes \/ PrepareDoes \/ RescueDoes \/ CommittedDoes \/ RescuedDoes
               \/ ForgetRescueDoes \/ ForgottenDoes \/ FallbackDoes \/ SettleDoes
               \/ AnnounceDoes \/ UnlocksDoes
      BY <1>1, <2>1, <2>2, ExecFields
         DEF DiskTypes, LockDoes, PrepareDoes, RescueDoes, CommittedDoes, RescuedDoes,
             ForgetRescueDoes, ForgottenDoes, FallbackDoes, SettleDoes, AnnounceDoes, UnlocksDoes,
             ExecShared, DiskKept, ControlTypes, Holder, Unlocked
    <2>3. CASE ActivateDoes \/ CommitDoes
      <3>1. work[exec.id].cand \in Profile \cup {None}
        BY <1>1, <2>1, <2>3, ExecWorkIs DEF ActivateDoes, CommitDoes
      <3> QED BY <1>1, <2>3, <3>1 DEF DiskTypes, ActivateDoes, CommitDoes, ExecShared, DiskKept
    <2>4. CASE QuarantineDoes \/ UnlinkDoes
      BY <1>1, <2>4, NoJournalIs DEF DiskTypes, QuarantineDoes, UnlinkDoes, ExecShared
    <2>5. CASE PurgeDoes
      <3>1. exec.undo[1] \in Profile \cup {None} /\ exec.undo[2] \in Journals
        BY <1>1, <2>5, UndoFields DEF PurgeDoes, Steps, ControlTypes
      <3> QED BY <1>1, <2>5, <3>1 DEF DiskTypes, PurgeDoes, ExecShared
    <2> QED BY <1>8, <2>2, <2>3, <2>4, <2>5 DEF ExecutorDoes
  <1>9. CASE WorldDoes
    <2>1. CASE LinkDrops
      BY <1>1, <2>1 DEF DiskTypes, LinkDrops
    <2>2. CASE CliStarts /\ UNCHANGED <<profileVars, link, journal, requests>>
      BY <1>1, <2>2 DEF DiskTypes, CliStarts, Holder
    <2>3. CASE CliWorks /\ CliKeeps
      BY <1>1, <2>3 DEF DiskTypes, CliWorks, CliKeeps, Profile
    <2> QED BY <1>1, <1>9, <2>1, <2>2, <2>3, CliDoes DEF WorldDoes
  <1> QED BY <1>3, <1>4, <1>5, <1>6, <1>7, <1>8, <1>9 DEF NetworkDoes, BootsDo

\* Every step keeps the credentials of their type.
LEMMA CredsKept ==
    ASSUME ControlTypes, NetworkNext
    PROVE  creds' \subseteq Key
  <1>1. creds \subseteq Key
    BY DEF ControlTypes, ControlTypeOK
  <1>2. CASE Boots \/ Crash \/ Reboot \/ CaptureTakes \/ CaptureReleases \/ WorkerTakes
             \/ MonitorProbe \/ MonitorSubmit \/ MonitorFails \/ (World /\ UNCHANGED controlVars)
    BY <1>1, <1>2 DEF Boots, Start, BootInit, BootReconcile, BootCleanup, BootStart, Crash,
       ProcessEnds, Reboot, ForgetProcess, CaptureTakes, CaptureReleases, WorkerTakes,
       MonitorProbe, MonitorSubmit, MonitorFails, MonitorFrame
  <1>3. CASE Requests
    BY <1>1, <1>3 DEF Requests, CredentialCreate, CredentialExpire, Replay, ApplyPrepare,
       DirectAccept, ApplyAccept, Respond, Release, RequestEnds, ProcessEnds, ForgetProcess
  <1>4. CASE ExecNext
    BY <1>1, <1>4 DEF ExecNext, ExecLock, ExecPrepare, ExecAnnounce, ExecRescue, ExecActivate,
       ExecCommit, ExecCommitted, ExecRescued, ForgetRescue, ForgetQuarantine, ForgetUnlink,
       ForgetPurge, Forgotten, FallbackStage, FallbackRescue, FallbackSettle, ExecEnd, ExecFrame
  <1> QED BY <1>2, <1>3, <1>4 DEF NetworkNext

\* An executor starts at the lock.
LEMMA ExecStarts ==
    ASSUME NEW t \in Tx, NEW by \in {"worker", "boot"},
           exec' = [id |-> t, by |-> by, pc |-> "lock", undo |-> <<>>]
    PROVE  exec' \in Execs /\ exec' # NoExec /\ exec'.id = t /\ exec'.by = by /\ exec'.pc = "lock"
           /\ exec'.undo = <<>>
  <1>1. "lock" \in ExecSteps /\ <<>> \in Undos
    BY DEF ExecSteps, Undos
  <1>2. exec' \in [id : Tx, by : {"worker", "boot"}, pc : ExecSteps, undo : Undos]
    BY <1>1
  <1>3. exec'.id = t /\ exec'.by = by /\ exec'.pc = "lock" /\ exec'.undo = <<>>
    OBVIOUS
  <1>4. exec' # NoExec
    BY <1>3, NetNames DEF NoExec
  <1> QED BY <1>2, <1>3, <1>4 DEF Execs

\* No executor, no request, no transaction.
LEMMA NothingRuns ==
    NoExec \in Execs /\ NoReq \in Reqs /\ NoTx \in Transaction /\ NoExec.id = None
    /\ NoExec.pc = None /\ NoExec.undo = <<>> /\ NoReq.pc = None /\ NoTx.id = None
    /\ NoTx.stage = None /\ NoTx.status = None
  BY DEF NoExec, NoReq, NoTx, Execs, Reqs, Transaction

\* Every step keeps what the process keeps of its type.
LEMMA ControlTypesKept ==
    ASSUME ControlInv, NetworkNext, NetworkDoes
    PROVE  ControlTypes'
  <1>1. /\ ControlTypes /\ Works /\ Steps /\ creds' \subseteq Key
    BY CredsKept DEF ControlInv
  <1>2. /\ desired \in DesiredState /\ saved \in BOOLEAN /\ verified \in BOOLEAN
        /\ current \in Transaction /\ latest \in Transaction /\ released \in BOOLEAN
        /\ work \in [Tx -> Work] /\ receipts \in [Key -> Tx \cup {None}]
        /\ queued \subseteq Tx /\ deferred \subseteq Tx /\ used \subseteq Tx
        /\ worker \in BOOLEAN /\ stranded \subseteq Tx
        /\ main \in {"down", "init", "reconcile", "exec", "cleanup", "start", "serve"}
        /\ marked \in BOOLEAN /\ stored \in BOOLEAN /\ exec \in Execs /\ req \in Reqs
    BY <1>1 DEF ControlTypes, ControlTypeOK
  <1> SUFFICES
        /\ desired' \in DesiredState /\ saved' \in BOOLEAN /\ verified' \in BOOLEAN
        /\ current' \in Transaction /\ latest' \in Transaction /\ released' \in BOOLEAN
        /\ work' \in [Tx -> Work] /\ receipts' \in [Key -> Tx \cup {None}]
        /\ queued' \subseteq Tx /\ deferred' \subseteq Tx /\ used' \subseteq Tx
        /\ worker' \in BOOLEAN /\ stranded' \subseteq Tx
        /\ main' \in {"down", "init", "reconcile", "exec", "cleanup", "start", "serve"}
        /\ marked' \in BOOLEAN /\ stored' \in BOOLEAN /\ exec' \in Execs /\ req' \in Reqs
    BY <1>1 DEF ControlTypes, ControlTypeOK
  <1>3. CASE Start \/ BootInit \/ BootCleanup \/ ProcessEnds \/ Reboot \/ BootGoesOn
    <2>1. CASE Start \/ BootCleanup \/ BootGoesOn
      BY <1>2, <2>1 DEF Start, BootCleanup, BootGoesOn, Die
    <2>2. CASE BootInit
      BY <1>2, <2>2 DEF BootInit, Die, DesiredState
    <2>3. CASE ProcessEnds
      BY <1>2, <2>3, NothingRuns DEF ProcessEnds, Die, ForgetProcess
    <2>4. CASE Reboot
      BY <1>2, <2>4, NothingRuns DEF Reboot, Die, ForgetProcess
    <2> QED BY <1>3, <2>1, <2>2, <2>3, <2>4
  <1>4. CASE BootStart
    <2>1. {current.id} \ {None} \subseteq Tx
      BY <1>2, TransactionFields
    <2> QED BY <1>2, <1>4, <2>1 DEF BootStart
  <1>5. CASE BootAccepts
    <2>1. PICK t \in Tx, w \in Work :
            /\ Accepts(t, w) /\ released' = TRUE
            /\ exec' = [id |-> t, by |-> "boot", pc |-> "lock", undo |-> <<>>]
      BY <1>5 DEF BootAccepts
    <2>2. exec' \in Execs
      BY <2>1, ExecStarts
    <2> QED BY <1>2, <1>5, <2>1, <2>2 DEF BootAccepts, Accepts, AcceptedAs
  <1>6. CASE CaptureTakes \/ CaptureReleases \/ WorldDoes
    BY <1>2, <1>6 DEF CaptureTakes, CaptureReleases, WorldDoes
  <1>7. CASE \E k \in Key : PrepareRequestDoes(k) \/ ReplayDoes(k)
    BY <1>2, <1>7 DEF PrepareRequestDoes, ReplayDoes, RecordsKept
  <1>8. CASE \E k \in Key : DirectDoes(k)
    <2>1. PICK k \in Key, t \in Tx, w \in Work : Accepts(t, w) /\ Asked(k, t)
      BY <1>8 DEF DirectDoes
    <2>2. UNCHANGED <<main, exec, queued, marked, worker, stranded>>
      BY <1>8 DEF DirectDoes
    <2>3. UNCHANGED <<latest, stored>> /\ current' \in Transaction /\ work' \in [Tx -> Work]
          /\ used' = used \cup {t} /\ desired' \in DesiredState /\ saved' \in BOOLEAN
          /\ verified' \in {verified, FALSE}
      BY <2>1 DEF Accepts, AcceptedAs
    <2>4. released' = FALSE /\ receipts' = [receipts EXCEPT ![k] = t]
          /\ deferred' = deferred \cup {t} /\ req' \in Reqs
      BY <2>1 DEF Asked
    <2> QED BY <1>2, <2>1, <2>2, <2>3, <2>4
  <1>9. CASE ApplyDoes
    <2>1. CASE (\E w \in Work : Accepts(req.tx, w)) /\ Asked(req.key, req.tx)
      BY <1>2, <1>9, <2>1 DEF ApplyDoes, Accepts, AcceptedAs, Asked
    <2>2. CASE req' = NoReq /\ RecordsKept /\ UNCHANGED <<deferred, used>>
      BY <1>2, <1>9, <2>2, NothingRuns DEF ApplyDoes, RecordsKept
    <2> QED BY <1>9, <2>1, <2>2 DEF ApplyDoes
  <1>10. CASE RespondDoes \/ ReleaseDoes
    <2>1. CASE RespondDoes
      BY <1>2, <2>1, NothingRuns DEF RespondDoes, RecordsKept
    <2>2. CASE ReleaseDoes
      BY <1>2, <2>2, NothingRuns DEF ReleaseDoes
    <2> QED BY <1>10, <2>1, <2>2
  <1>11. CASE WorkerDoes
    <2>1. exec' \in Execs
      BY <1>2, <1>11, ExecStarts DEF WorkerDoes
    <2> QED BY <1>2, <1>11, <2>1 DEF WorkerDoes, RecordsKept
  <1>12. CASE SubmitDoes
    BY <1>2, <1>12 DEF SubmitDoes, Accepts, AcceptedAs
  <1>13. CASE IdleDoes
    BY <1>2, <1>13 DEF IdleDoes, RecordsKept
  <1>14. CASE EndDoes
    BY <1>2, <1>14, NothingRuns DEF EndDoes, StoreKept
  <1>15. CASE ExecutorDoes
    <2>1. CASE LockDoes \/ CommitDoes \/ QuarantineDoes \/ UnlinkDoes \/ PurgeDoes \/ UnlocksDoes
      BY <1>2, <2>1 DEF LockDoes, CommitDoes, QuarantineDoes, UnlinkDoes, PurgeDoes, UnlocksDoes,
         ExecShared, StoreKept, GoesTo
    <2>2. CASE RescueDoes \/ ActivateDoes \/ ForgetRescueDoes \/ FallbackDoes \/ AnnounceDoes
      BY <1>2, <2>2 DEF RescueDoes, ActivateDoes, ForgetRescueDoes, FallbackDoes, AnnounceDoes,
         ExecShared, StoreKept, GoesTo, StagedTo, WishKept, FallsBack
    <2>3. CASE PrepareDoes \/ CommittedDoes \/ RescuedDoes
      <3>1. work[exec.id].mode \in DesiredState
        BY <1>1, <2>3, ExecWorkIs DEF PrepareDoes, CommittedDoes, RescuedDoes, ExecShared
      <3>2. CASE PrepareDoes
        BY <1>2, <3>1, <3>2 DEF PrepareDoes, ExecShared, StoreKept, GoesTo, StagedTo, FallsBack
      <3>3. CASE CommittedDoes
        BY <1>2, <3>1, <3>3, NothingRuns DEF CommittedDoes, ExecShared, StoreKept, GoesTo,
           FinishedAs, FallsBack
      <3>4. CASE RescuedDoes
        BY <1>2, <3>1, <3>4, NothingRuns DEF RescuedDoes, ExecShared, StoreKept, GoesTo,
           FinishedAs, FallsBack
      <3> QED BY <2>3, <3>2, <3>3, <3>4
    <2>4. CASE ForgottenDoes
      BY <1>2, <2>4, NothingRuns DEF ForgottenDoes, ExecShared, StoreKept, GoesTo, FinishedAs,
         FallsBack, DesiredState
    <2>5. CASE SettleDoes
      BY <1>2, <2>5, NothingRuns DEF SettleDoes, ExecShared, GoesTo, FinishedAs, WishKept
    <2> QED BY <1>15, <2>1, <2>2, <2>3, <2>4, <2>5 DEF ExecutorDoes
  <1> QED BY <1>3, <1>4, <1>5, <1>6, <1>7, <1>8, <1>9, <1>10, <1>11, <1>12, <1>13, <1>14, <1>15
          DEF NetworkDoes, BootsDo, RequestsDo

\* A step of the executor keeps its transaction; it takes the lock once, and gives it back
\* only to fall back.
LEMMA ExecutorGoesOn ==
    ASSUME ExecutorDoes, exec \in Execs
    PROVE  /\ exec # NoExec /\ exec.id \in Tx /\ exec.pc # "end" /\ exec.pc # None
           /\ exec' # NoExec /\ exec'.id = exec.id /\ exec'.by = exec.by
           /\ exec'.by \in {"worker", "boot"} /\ exec'.pc \notin {"lock", None}
           /\ \/ opLock' = opLock /\ exec.pc # "lock"
              \/ exec.pc = "lock" /\ opLock = None /\ opLock' = exec.by
              \/ exec'.pc = "fallback" /\ opLock' = Unlocked
           /\ exec.pc \in FallbackSteps => exec'.pc \in FallbackSteps \cup {"end"}
           /\ stranded \subseteq stranded' /\ stranded' \subseteq stranded \cup {exec.id}
           /\ UNCHANGED <<main, queued, deferred, req, used, answered, receipts, cli, clis,
                          requests, stored, marked, rescue, worker>>
  <1>1. exec # NoExec /\ exec.id \in Tx
    BY DEF ExecutorDoes, LockDoes, PrepareDoes, RescueDoes, ActivateDoes, CommitDoes,
       CommittedDoes, RescuedDoes, ForgetRescueDoes, QuarantineDoes, UnlinkDoes, PurgeDoes,
       ForgottenDoes, FallbackDoes, SettleDoes, AnnounceDoes, UnlocksDoes, ExecShared
  <1>2. exec.by \in {"worker", "boot"} /\ exec.pc \in ExecSteps /\ exec.pc # None
    BY <1>1, ExecFields, StepNames
  <1>3. ExecShared
    BY DEF ExecutorDoes, LockDoes, PrepareDoes, RescueDoes, ActivateDoes, CommitDoes,
       CommittedDoes, RescuedDoes, ForgetRescueDoes, QuarantineDoes, UnlinkDoes, PurgeDoes,
       ForgottenDoes, FallbackDoes, SettleDoes, AnnounceDoes, UnlocksDoes
  <1>4. exec' # NoExec /\ exec'.id = exec.id /\ exec'.by = exec.by
    BY DEF ExecutorDoes, LockDoes, PrepareDoes, RescueDoes, ActivateDoes, CommitDoes,
       CommittedDoes, RescuedDoes, ForgetRescueDoes, QuarantineDoes, UnlinkDoes, PurgeDoes,
       ForgottenDoes, FallbackDoes, SettleDoes, AnnounceDoes, UnlocksDoes, GoesTo, FallsBack
  <1>5. exec'.pc \notin {"lock", None}
    <2>1. CASE AnnounceDoes
      BY <2>1 DEF AnnounceDoes, AfterAnnounced, Announced, GoesTo, FallsBack, None
    <2>2. CASE LockDoes \/ PrepareDoes \/ RescueDoes \/ ActivateDoes \/ CommitDoes
      BY <2>2 DEF LockDoes, PrepareDoes, RescueDoes, ActivateDoes, CommitDoes, GoesTo,
                  FallsBack, None
    <2>3. CASE CommittedDoes \/ RescuedDoes \/ ForgetRescueDoes \/ QuarantineDoes \/ UnlinkDoes
      BY <2>3 DEF CommittedDoes, RescuedDoes, ForgetRescueDoes, QuarantineDoes, UnlinkDoes,
                  GoesTo, FallsBack, None
    <2>4. CASE PurgeDoes \/ ForgottenDoes \/ FallbackDoes \/ SettleDoes \/ UnlocksDoes
      BY <2>4 DEF PurgeDoes, ForgottenDoes, FallbackDoes, SettleDoes, UnlocksDoes, GoesTo,
                  FallsBack, None
    <2> QED BY <2>1, <2>2, <2>3, <2>4 DEF ExecutorDoes
  <1>6. exec.pc # "end"
    BY DEF ExecutorDoes, LockDoes, PrepareDoes, RescueDoes, ActivateDoes, CommitDoes,
       CommittedDoes, RescuedDoes, ForgetRescueDoes, QuarantineDoes, UnlinkDoes, PurgeDoes,
       ForgottenDoes, FallbackDoes, SettleDoes, AnnounceDoes, UnlocksDoes, Settles, Announced
  <1>7. \/ opLock' = opLock /\ exec.pc # "lock"
        \/ exec.pc = "lock" /\ opLock = None /\ opLock' = exec.by
        \/ exec'.pc = "fallback" /\ opLock' = Unlocked
    BY DEF ExecutorDoes, LockDoes, PrepareDoes, RescueDoes, ActivateDoes, CommitDoes,
       CommittedDoes, RescuedDoes, ForgetRescueDoes, QuarantineDoes, UnlinkDoes, PurgeDoes,
       ForgottenDoes, FallbackDoes, SettleDoes, AnnounceDoes, UnlocksDoes, Settles, Announced,
       GoesTo
  <1>8. exec.pc \in FallbackSteps => exec'.pc \in FallbackSteps \cup {"end"}
    BY DEF ExecutorDoes, LockDoes, PrepareDoes, RescueDoes, ActivateDoes, CommitDoes,
       CommittedDoes, RescuedDoes, ForgetRescueDoes, QuarantineDoes, UnlinkDoes, PurgeDoes,
       ForgottenDoes, FallbackDoes, SettleDoes, AnnounceDoes, UnlocksDoes, Settles, Announced,
       GoesTo, FallsBack, FallbackSteps
  <1> QED BY <1>1, <1>2, <1>3, <1>4, <1>5, <1>6, <1>7, <1>8 DEF ExecShared

\* A step of the executor while another holds the operation lock is one of a fallback, and
\* touches neither the profiles nor the link.
LEMMA ExecutorUnlocked ==
    ASSUME ExecutorDoes, exec \in Execs, LockHeld, opLock \notin {None, exec.by}
    PROVE  DiskKept /\ link' = link /\ opLock' = opLock
  <1>1. exec # NoExec /\ exec.pc # "end"
    BY ExecutorGoesOn
  <1>2. exec.pc \in {"lock"} \cup FallbackSteps
    BY <1>1 DEF LockHeld
  <1>3. ~LockDoes
    BY DEF LockDoes
  <1>4. FallbackDoes \/ SettleDoes \/ UnlocksDoes
    BY <1>2, <1>3 DEF ExecutorDoes, PrepareDoes, RescueDoes, ActivateDoes, CommitDoes,
       CommittedDoes, RescuedDoes, ForgetRescueDoes, QuarantineDoes, UnlinkDoes, PurgeDoes,
       ForgottenDoes, AnnounceDoes, Settles, Announced, FallbackSteps
  <1> QED BY <1>4 DEF FallbackDoes, SettleDoes, UnlocksDoes, Unlocked

\* The worker starts on a queued transaction.
LEMMA ExecStartsOf ==
    ASSUME queued \subseteq Tx, WorkerDoes
    PROVE  /\ exec' # NoExec /\ exec'.id \in queued /\ exec'.by = "worker" /\ exec'.pc = "lock"
           /\ exec'.undo = <<>> /\ main' = "serve"
  <1>1. PICK t \in queued : exec' = [id |-> t, by |-> "worker", pc |-> "lock", undo |-> <<>>]
    BY DEF WorkerDoes
  <1> QED BY <1>1, ExecStarts DEF WorkerDoes

\* A boot that accepts a transaction executes it at once.
LEMMA BootExecStarts ==
    ASSUME BootAccepts
    PROVE  \E t \in Tx, w \in Work :
             /\ Accepts(t, w) /\ released' = TRUE /\ verified' = verified
             /\ exec' # NoExec /\ exec'.id = t /\ exec'.by = "boot" /\ exec'.pc = "lock"
             /\ exec'.undo = <<>>
  <1>1. PICK t \in Tx, w \in Work :
          /\ Accepts(t, w) /\ released' = TRUE /\ verified' = verified
          /\ exec' = [id |-> t, by |-> "boot", pc |-> "lock", undo |-> <<>>]
    BY DEF BootAccepts
  <1>2. exec' # NoExec /\ exec'.id = t /\ exec'.by = "boot" /\ exec'.pc = "lock"
        /\ exec'.undo = <<>>
    BY <1>1, ExecStarts
  <1> QED BY <1>1, <1>2

\* Every step keeps the ownership of the operation lock.
LEMMA LockHeldKept ==
    ASSUME ControlInv, NetworkDoes
    PROVE  LockHeld'
  <1>1. /\ DiskTypes /\ LockHeld /\ Commanded /\ queued \subseteq Tx /\ exec \in Execs /\ req \in Reqs
    BY DEF ControlInv, ControlTypes, ControlTypeOK
  <1>2. CASE Start \/ BootInit \/ BootCleanup \/ BootStart \/ BootGoesOn
    BY <1>1, <1>2 DEF LockHeld, Start, BootInit, BootCleanup, BootStart, BootGoesOn, Die, DiskSame
  <1>3. CASE BootAccepts
    BY <1>1, <1>3, BootExecStarts, ReqFields DEF LockHeld, BootAccepts, DiskSame
  <1>4. CASE ProcessEnds
    BY <1>1, <1>4, NothingRuns DEF LockHeld, ProcessEnds, Die, ForgetProcess, None
  <1>5. CASE Reboot
    BY <1>1, <1>5, NothingRuns DEF LockHeld, Reboot, Die, ForgetProcess, None
  <1>6. CASE CaptureTakes \/ CaptureReleases
    BY <1>1, <1>6, ExecFields DEF LockHeld, CaptureTakes, CaptureReleases, None
  <1>7. CASE \E k \in Key : PrepareRequestDoes(k) \/ ReplayDoes(k) \/ DirectDoes(k)
    BY <1>1, <1>7, ExecFields DEF LockHeld, PrepareRequestDoes, ReplayDoes, DirectDoes, Asked,
           None,
                                  DiskSame
  <1>8. CASE ApplyDoes
    <2>1. main = "serve" /\ cli = NoCli
          /\ (exec = NoExec \/ exec.pc \in {"lock", "end"} \cup FallbackSteps)
      BY <1>1, <1>8, ExecFields, ReqFields DEF LockHeld, ApplyDoes
    <2>2. req'.pc # "write"
      BY <1>8, NothingRuns DEF ApplyDoes, Asked, None
    <2> QED BY <1>1, <1>8, <2>1, <2>2 DEF LockHeld, ApplyDoes
  <1>9. CASE RespondDoes \/ ReleaseDoes
    <2>1. main = "serve" /\ req'.pc # "write"
      BY <1>1, <1>9, NothingRuns DEF LockHeld, RespondDoes, ReleaseDoes, None
    <2> QED BY <1>1, <1>9, <2>1 DEF LockHeld, RespondDoes, ReleaseDoes, DiskSame
  <1>10. CASE WorkerDoes
    BY <1>1, <1>10, ExecStartsOf DEF LockHeld, WorkerDoes, DiskSame
  <1>11. CASE SubmitDoes \/ IdleDoes
    BY <1>1, <1>11 DEF LockHeld, SubmitDoes, IdleDoes, DiskSame
  <1>12. CASE ExecutorDoes
    <2>1. /\ exec # NoExec /\ exec' # NoExec /\ exec'.by = exec.by /\ exec'.pc # "lock"
          /\ exec.by \in {"worker", "boot"} /\ exec.pc # "end"
          /\ UNCHANGED <<main, queued, req, cli>>
      BY <1>1, <1>12, ExecutorGoesOn
    <2>2. exec'.pc \notin {"end"} \cup FallbackSteps => opLock' = exec.by
      BY <1>1, <1>12, <2>1, ExecutorGoesOn DEF LockHeld, FallbackSteps
    <2>3. opLock \notin {None, exec.by} => opLock' = opLock
      BY <1>1, <1>12, ExecutorUnlocked
    <2>4. cli # NoCli => opLock' = "cli"
      BY <1>1, <2>1, <2>3 DEF LockHeld, None
    <2>5. req.pc = "write" => opLock' = "request"
      BY <1>1, <2>1, <2>3 DEF LockHeld, None
    <2> QED BY <1>1, <2>1, <2>2, <2>4, <2>5 DEF LockHeld
  <1>13. CASE EndDoes
    <2>1. exec # NoExec /\ exec.by \in {"worker", "boot"} /\ exec' = NoExec
          /\ opLock' = Unlocked /\ UNCHANGED <<cli, req>>
      BY <1>1, <1>13, ExecFields DEF EndDoes
    <2>2. (cli # NoCli => opLock' = "cli") /\ (req.pc = "write" => opLock' = "request")
      BY <1>1, <2>1 DEF LockHeld, Unlocked
    <2>3. main' # "exec" /\ (main' # "serve" => req = NoReq /\ queued' = {})
      BY <1>1, <1>13, <2>1 DEF LockHeld, EndDoes
    <2> QED BY <2>1, <2>2, <2>3 DEF LockHeld
  <1>14. CASE WorldDoes
    <2>1. CASE LinkDrops
      BY <1>1, <1>14, <2>1 DEF LockHeld, LinkDrops, WorldDoes
    <2>2. CASE CliStarts
      BY <1>1, <1>14, <2>2, ExecFields DEF LockHeld, CliStarts, WorldDoes, None
    <2>3. CASE CliWorks
      <3>1. opLock = "cli" /\ req.pc # "write"
            /\ (exec = NoExec \/ exec.pc \in {"lock", "end"} \cup FallbackSteps)
        BY <1>1, <2>3, ExecFields DEF LockHeld, CliWorks
      <3> QED BY <1>1, <1>14, <2>3, <3>1 DEF LockHeld, CliWorks, WorldDoes
    <2> QED BY <1>1, <1>14, <2>1, <2>2, <2>3, CliDoes DEF WorldDoes
  <1> QED BY <1>2, <1>3, <1>4, <1>5, <1>6, <1>7, <1>8, <1>9, <1>10, <1>11, <1>12, <1>13, <1>14
          DEF NetworkDoes, BootsDo, RequestsDo

\* Nothing but a crash or a reboot touches a command while it runs.
LEMMA CliAlone ==
    ASSUME ControlInv, NetworkDoes, ~WorldDoes
    PROVE  \/ cli' = NoCli /\ clis' = clis
           \/ UNCHANGED <<cli, clis, journal, requests, lkg, profiles>>
  <1>1. LockHeld /\ exec \in Execs /\ req \in Reqs
    BY DEF ControlInv, ControlTypes
  <1>2. CASE cli = NoCli
    BY <1>2, ExecutorGoesOn, <1>1 DEF NetworkDoes, BootsDo, Start, BootInit, BootGoesOn,
           BootAccepts,
       BootCleanup, BootStart, ProcessEnds, Reboot, CaptureTakes, CaptureReleases, RequestsDo,
       DirectDoes,
       PrepareRequestDoes, ReplayDoes, ApplyDoes, RespondDoes, ReleaseDoes, WorkerDoes, EndDoes,
       SubmitDoes, IdleDoes, DiskSame
  <1>3. CASE cli # NoCli /\ ~ExecutorDoes
    <2>1. opLock = "cli" /\ opLock # None
      BY <1>1, <1>3 DEF LockHeld, None
    <2> QED BY <1>1, <1>3, <2>1, ReqFields, ExecFields DEF LockHeld, NetworkDoes, BootsDo, Start,
       BootInit, BootGoesOn, BootAccepts,
       BootCleanup, BootStart, ProcessEnds, Reboot, CaptureTakes, CaptureReleases, RequestsDo,
       DirectDoes,
       PrepareRequestDoes, ReplayDoes, ApplyDoes, RespondDoes, ReleaseDoes, WorkerDoes, EndDoes,
       SubmitDoes, IdleDoes, DiskSame, DiskKept
  <1>4. CASE cli # NoCli /\ ExecutorDoes
    <2>1. exec.by \in {"worker", "boot"} /\ UNCHANGED <<cli, clis, requests>>
      BY <1>1, <1>4, ExecutorGoesOn
    <2>2. opLock \notin {None, exec.by}
      BY <1>1, <1>4, <2>1 DEF LockHeld, None
    <2>3. DiskKept
      BY <1>1, <1>4, <2>2, ExecutorUnlocked
    <2> QED BY <2>1, <2>3 DEF DiskKept
  <1> QED BY <1>2, <1>3, <1>4

\* Every step keeps Commanded.
LEMMA CommandedAlways ==
    ASSUME ControlInv, NetworkDoes
    PROVE  Commanded'
  <1>1. DiskTypes /\ LockHeld /\ Commanded
    BY DEF ControlInv
  <1>2. CASE WorldDoes
    BY <1>1, <1>2, CommandedKept DEF WorldDoes, LinkDrops, Commanded
  <1>3. CASE ~WorldDoes
    BY <1>1, <1>3, CliAlone DEF Commanded, NoCli, None
  <1> QED BY <1>2, <1>3

\* Every step keeps what the first command relies on.
LEMMA FirstCliAlways ==
    ASSUME ControlInv, NetworkDoes
    PROVE  FirstCli'
  <1>1. DiskTypes /\ LockHeld /\ Commanded /\ NoCliYet /\ FirstCli
    BY DEF ControlInv
  <1>2. CASE WorldDoes
    BY <1>1, <1>2, FirstCliKept DEF WorldDoes, LinkDrops, FirstCli
  <1>3. CASE ~WorldDoes
    BY <1>1, <1>3, CliAlone DEF FirstCli
  <1> QED BY <1>2, <1>3

\* A transaction is accepted only when no executor has one that has not ended.
LEMMA AcceptsAlone ==
    ASSUME ControlInv, current = NoTx
    PROVE  (exec = NoExec \/ exec.pc = "end") /\ queued \subseteq {exec.id}
  <1>1. Executing /\ exec \in Execs /\ queued \subseteq Tx
    BY DEF ControlInv, ControlTypes, ControlTypeOK
  <1>2. exec = NoExec \/ exec.pc = "end"
    BY <1>1, ExecFields, NothingRuns, NetNames DEF Executing, Ran
  <1>3. queued \subseteq {None, exec.id}
    BY <1>1, NothingRuns DEF Executing
  <1> QED BY <1>1, <1>2, <1>3, NetNames

\* Every step keeps the executor on the current transaction.
LEMMA ExecutingKept ==
    ASSUME ControlInv, NetworkDoes
    PROVE  Executing'
  <1>1. /\ LockHeld /\ Executing /\ exec \in Execs /\ queued \subseteq Tx /\ current \in Transaction
        /\ req \in Reqs /\ exec.id \in used \cup {None}
    BY DEF ControlInv, ControlTypes, ControlTypeOK, Identities
  <1>2. CASE Start \/ BootInit \/ BootCleanup \/ BootGoesOn
    BY <1>1, <1>2 DEF Executing, Ran, Start, BootInit, BootCleanup, BootGoesOn
  <1>3. CASE BootStart
    <2>1. exec = NoExec
      BY <1>1, <1>3, ExecFields DEF LockHeld, BootStart
    <2>2. queued' \subseteq {current.id}
      BY <1>3 DEF BootStart
    <2> QED BY <1>3, <2>1, <2>2, NothingRuns DEF Executing, Ran, BootStart, None
  <1>4. CASE BootAccepts
    <2>1. queued = {} /\ queued' = queued
      BY <1>1, <1>4 DEF LockHeld, BootAccepts
    <2>2. /\ exec'.pc = "lock" /\ exec'.by = "boot" /\ current'.id = exec'.id
      BY <1>4, BootExecStarts DEF Accepts, AcceptedAs
    <2> QED BY <2>1, <2>2 DEF Executing, Ran
  <1>5. CASE ProcessEnds \/ Reboot
    BY <1>5, NothingRuns DEF Executing, Ran, ProcessEnds, Reboot, ForgetProcess, None
  <1>6. CASE CaptureTakes \/ CaptureReleases \/ IdleDoes \/ WorldDoes
    BY <1>1, <1>6 DEF Executing, Ran, CaptureTakes, CaptureReleases, IdleDoes, WorldDoes,
                      RecordsKept
  <1>7. CASE \E k \in Key : PrepareRequestDoes(k) \/ ReplayDoes(k)
    BY <1>1, <1>7 DEF Executing, Ran, PrepareRequestDoes, ReplayDoes, RecordsKept
  <1>8. CASE (\E k \in Key : DirectDoes(k)) \/ (ApplyDoes /\ \E w \in Work : Accepts(req.tx, w))
    <2>1. PICK t \in Tx, w \in Work : Accepts(t, w)
      BY <1>8 DEF DirectDoes, ApplyDoes
    <2>2. current = NoTx /\ t \notin used /\ current'.id = t
      BY <2>1 DEF Accepts, AcceptedAs
    <2>3. (exec = NoExec \/ exec.pc = "end") /\ queued \subseteq {exec.id}
      BY <2>2, AcceptsAlone
    <2>4. UNCHANGED <<exec, queued>>
      BY <1>8 DEF DirectDoes, ApplyDoes
    <2>5. exec.id # t
      BY <1>1, <2>2, NetNames
    <2> QED BY <1>1, <2>2, <2>3, <2>4, <2>5 DEF Executing, Ran
  <1>9. CASE ApplyDoes /\ RecordsKept
    BY <1>1, <1>9 DEF Executing, Ran, ApplyDoes, RecordsKept
  <1>10. CASE RespondDoes \/ ReleaseDoes
    BY <1>1, <1>10 DEF Executing, Ran, RespondDoes, ReleaseDoes, RecordsKept
  <1>11. CASE WorkerDoes
    <2>1. exec = NoExec /\ exec'.id \in queued /\ exec'.id = current.id
      BY <1>1, <1>11, ExecStartsOf, NothingRuns, NetNames DEF Executing, WorkerDoes
    <2>2. exec'.pc = "lock" /\ queued' = queued /\ current' = current
      BY <1>1, <1>11, ExecStartsOf DEF WorkerDoes, RecordsKept
    <2>3. queued \subseteq {current.id}
      BY <1>1, <2>1, NothingRuns, NetNames DEF Executing
    <2> QED BY <2>1, <2>2, <2>3 DEF Executing, Ran
  <1>12. CASE SubmitDoes
    <2>1. PICK t \in Tx, w \in Work : Accepts(t, w) /\ queued' = queued \cup {t}
      BY <1>12 DEF SubmitDoes
    <2>2. current = NoTx /\ t \notin used /\ current'.id = t
      BY <2>1 DEF Accepts, AcceptedAs
    <2>3. (exec = NoExec \/ exec.pc = "end") /\ queued \subseteq {exec.id}
      BY <2>2, AcceptsAlone
    <2>4. exec' = exec /\ exec.id # t
      BY <1>1, <1>12, <2>2, NetNames DEF SubmitDoes
    <2> QED BY <1>1, <2>1, <2>2, <2>3, <2>4 DEF Executing, Ran
  <1>13. CASE EndDoes
    <2>1. exec' = NoExec /\ current' = current
      BY <1>13 DEF EndDoes, StoreKept
    <2>2. queued' \subseteq {current.id}
      BY <1>1, <1>13 DEF Executing, EndDoes, LockHeld
    <2> QED BY <2>1, <2>2, NothingRuns DEF Executing, Ran, None
  <1>14. CASE ExecutorDoes
    <2>1. /\ exec # NoExec /\ exec'.id = exec.id /\ exec'.by = exec.by /\ queued' = queued
          /\ current.id = exec.id /\ exec.id \in Tx
      BY <1>1, <1>14, ExecutorGoesOn DEF Executing, Ran
    <2>2. \/ exec'.pc # "end" /\ current'.id = current.id
          \/ exec'.pc = "end" /\ (current' = NoTx \/ exec.id \in stranded')
      <3>1. CASE LockDoes \/ RescueDoes \/ ActivateDoes \/ CommitDoes \/ ForgetRescueDoes
                 \/ QuarantineDoes \/ UnlinkDoes \/ PurgeDoes \/ UnlocksDoes
        BY <3>1 DEF LockDoes, RescueDoes, ActivateDoes, CommitDoes, ForgetRescueDoes,
           QuarantineDoes, UnlinkDoes, PurgeDoes, UnlocksDoes, StoreKept, GoesTo
      <3>2. CASE PrepareDoes \/ FallbackDoes
        BY <3>2 DEF PrepareDoes, FallbackDoes, StoreKept, StagedTo, GoesTo, FallsBack
      <3>3. CASE AnnounceDoes
        <4>1. AfterAnnounced # "end"
          BY <3>3 DEF AnnounceDoes, Announced, AfterAnnounced
        <4> QED BY <3>3, <4>1 DEF AnnounceDoes, StoreKept, StagedTo, GoesTo, FallsBack
      <3>4. CASE CommittedDoes \/ RescuedDoes \/ ForgottenDoes \/ SettleDoes
        BY <3>4 DEF CommittedDoes, RescuedDoes, ForgottenDoes, SettleDoes, StoreKept, FinishedAs,
           GoesTo, FallsBack
      <3> QED BY <1>14, <3>1, <3>2, <3>3, <3>4 DEF ExecutorDoes
    <2> QED BY <1>1, <2>1, <2>2, NothingRuns, NetNames DEF Executing, Ran
  <1> QED BY <1>2, <1>3, <1>4, <1>5, <1>6, <1>7, <1>8, <1>9, <1>10, <1>11, <1>12, <1>13, <1>14
          DEF NetworkDoes, BootsDo, RequestsDo, ApplyDoes

\* Every step keeps a transaction whose answer is still to be sent away from the worker, and a
\* dead worker's transaction current.
LEMMA ThreadsKept ==
    ASSUME ControlInv, NetworkDoes
    PROVE  Threads'
  <1>1. /\ LockHeld /\ Executing /\ Threads /\ exec \in Execs /\ queued \subseteq Tx
        /\ current \in Transaction /\ req \in Reqs /\ deferred \subseteq Tx
        /\ exec.id \in used \cup {None} /\ queued \cup deferred \cup stranded \subseteq used
    BY DEF ControlInv, ControlTypes, ControlTypeOK, Identities
  <1>2. CASE Start \/ BootInit \/ BootCleanup \/ BootGoesOn
    <2>1. worker
      BY <1>1, <1>2 DEF Threads, Start, BootInit, BootCleanup, BootGoesOn
    <2> QED BY <1>1, <1>2, <2>1 DEF Threads, Start, BootInit, BootCleanup, BootGoesOn
  <1>3. CASE BootStart
    <2>1. exec = NoExec /\ worker
      BY <1>1, <1>3, ExecFields DEF LockHeld, BootStart, Threads
    <2> QED BY <1>3, <2>1, NothingRuns DEF Threads, BootStart
  <1>4. CASE BootAccepts
    <2>1. PICK t \in Tx, w \in Work : Accepts(t, w) /\ exec'.id = t
      BY <1>4, BootExecStarts
    <2>2. t \notin used
      BY <2>1 DEF Accepts
    <2>3. worker
      BY <1>1, <1>4 DEF Threads, BootAccepts
    <2> QED BY <1>1, <1>4, <2>1, <2>2, <2>3 DEF Threads, BootAccepts
  <1>5. CASE ProcessEnds \/ Reboot
    BY <1>5 DEF Threads, ProcessEnds, Reboot, ForgetProcess
  <1>6. CASE UNCHANGED <<main, exec, queued, deferred, stranded, worker, current>>
    BY <1>1, <1>6 DEF Threads
  <1>7. CASE CaptureTakes \/ CaptureReleases \/ IdleDoes \/ WorldDoes \/ RespondDoes
             \/ \E k \in Key : PrepareRequestDoes(k) \/ ReplayDoes(k)
    BY <1>6, <1>7 DEF CaptureTakes, CaptureReleases, IdleDoes, WorldDoes, RespondDoes,
       PrepareRequestDoes, ReplayDoes, RecordsKept
  <1>8. CASE \E j \in Key, t \in Tx, w \in Work :
               Accepts(t, w) /\ Asked(j, t) /\ UNCHANGED <<main, exec, queued, stranded, worker>>
    <2>1. PICK j \in Key, t \in Tx, w \in Work : Accepts(t, w) /\ Asked(j, t)
      BY <1>8
    <2>2. current = NoTx /\ t \notin used /\ t # exec.id
      BY <1>1, <2>1, NetNames DEF Accepts
    <2>3. worker
      BY <1>1, <2>2 DEF Threads
    <2> QED BY <1>1, <1>8, <2>1, <2>2, <2>3 DEF Threads, Asked
  <1>9. CASE (\E k \in Key : DirectDoes(k)) \/ ApplyDoes
    BY <1>6, <1>8, <1>9 DEF DirectDoes, ApplyDoes, RecordsKept
  <1>10. CASE ReleaseDoes
    <2>1. UNCHANGED <<main, exec, stranded, worker, current>> /\ deferred' = deferred \ {req.tx}
      BY <1>10 DEF ReleaseDoes
    <2>2. CASE queued' = queued
      BY <1>1, <2>1, <2>2 DEF Threads
    <2>3. CASE req.tx \in deferred /\ current.id = req.tx /\ queued' = queued \cup {req.tx}
      <3>1. worker
        BY <1>1, <2>3 DEF Threads
      <3> QED BY <1>1, <2>1, <2>3, <3>1 DEF Threads
    <2> QED BY <1>10, <2>2, <2>3 DEF ReleaseDoes
  <1>11. CASE WorkerDoes
    <2>1. exec'.id \in queued
      BY <1>1, <1>11, ExecStartsOf
    <2> QED BY <1>1, <1>11, <2>1 DEF Threads, WorkerDoes, RecordsKept
  <1>12. CASE SubmitDoes
    <2>1. PICK t \in Tx, w \in Work : Accepts(t, w) /\ queued' = queued \cup {t}
      BY <1>12 DEF SubmitDoes
    <2>2. current = NoTx /\ t \notin used
      BY <2>1 DEF Accepts
    <2>3. worker
      BY <1>1, <2>2 DEF Threads
    <2> QED BY <1>1, <1>12, <2>1, <2>2, <2>3 DEF Threads, SubmitDoes
  <1>13. CASE EndDoes
    <2>1. /\ exec # NoExec /\ exec' = NoExec /\ worker /\ queued' \subseteq queued
          /\ stranded' \subseteq stranded \cup {exec.id} /\ deferred' = deferred
          /\ current' = current
      BY <1>1, <1>13 DEF EndDoes, Threads, StoreKept
    <2>2. \A t \in deferred' : t \notin queued' \cup stranded' /\ t # exec'.id
      BY <1>1, <2>1, NothingRuns, NetNames DEF Threads
    <2>3. ASSUME ~worker'
          PROVE  main' = "serve" /\ queued' = {} /\ current' # NoTx /\ current'.id \in stranded'
      <3>1. exec.pc # "end" /\ exec.by = "worker" /\ main' = main /\ queued' = queued \ {exec.id}
            /\ stranded' = stranded \cup {exec.id} /\ exec.id \in Tx
        BY <1>13, <2>1, <2>3 DEF EndDoes
      <3>2. main = "serve" /\ current.id = exec.id /\ queued \subseteq {exec.id}
        BY <1>1, <2>1, <3>1 DEF LockHeld, Executing, Ran
      <3> QED BY <2>1, <3>1, <3>2, NothingRuns, NetNames
    <2> QED BY <2>1, <2>2, <2>3 DEF Threads
  <1>14. CASE ExecutorDoes
    <2>1. /\ exec # NoExec /\ exec'.id = exec.id /\ stranded' \subseteq stranded \cup {exec.id}
          /\ UNCHANGED <<queued, deferred, worker>>
      BY <1>1, <1>14, ExecutorGoesOn
    <2> QED BY <1>1, <2>1 DEF Threads
  <1> QED BY <1>2, <1>3, <1>4, <1>5, <1>7, <1>9, <1>10, <1>11, <1>12, <1>13, <1>14
          DEF NetworkDoes, BootsDo, RequestsDo

\* What an executor's step leaves of the store, and the undo record it carries.
LEMMA ExecutorUndo ==
    ASSUME ExecutorDoes, exec \in Execs, exec.pc # "purge" => exec.undo = <<>>
    PROVE  \/ exec'.undo = <<>>
           \/ exec'.pc = "purge" /\ exec'.undo = <<lkg, journal>>
  <1>1. CASE PurgeDoes \/ UnlinkDoes
    BY <1>1 DEF PurgeDoes, UnlinkDoes, GoesTo
  <1>2. CASE ~PurgeDoes /\ ~UnlinkDoes
    BY <1>2 DEF ExecutorDoes, LockDoes, PrepareDoes, RescueDoes, ActivateDoes, CommitDoes,
       CommittedDoes, RescuedDoes, ForgetRescueDoes, QuarantineDoes,
       ForgottenDoes, FallbackDoes, SettleDoes, AnnounceDoes, UnlocksDoes, GoesTo, FallsBack,
       Settles, Announced, AfterAnnounced
  <1> QED BY <1>1, <1>2

\* The executor has something to restore exactly while it purges.
LEMMA ExecutorUndoPc ==
    ASSUME ExecutorDoes, exec \in Execs, exec.pc # "purge" => exec.undo = <<>>
    PROVE  exec'.undo # <<>> <=> exec'.pc = "purge"
  <1>1. CASE PurgeDoes \/ UnlinkDoes
    BY <1>1 DEF PurgeDoes, UnlinkDoes, GoesTo
  <1>2. CASE ~PurgeDoes /\ ~UnlinkDoes
    BY <1>2 DEF ExecutorDoes, LockDoes, PrepareDoes, RescueDoes, ActivateDoes, CommitDoes,
       CommittedDoes, RescuedDoes, ForgetRescueDoes, QuarantineDoes,
       ForgottenDoes, FallbackDoes, SettleDoes, AnnounceDoes, UnlocksDoes, GoesTo, FallsBack,
       Settles, Announced, AfterAnnounced
  <1> QED BY <1>1, <1>2

\* What a step of the executor may write to the store and to the record.
LEMMA ExecutorStore ==
    ASSUME ExecutorDoes, exec \in Execs, work \in [Tx -> Work]
    PROVE  /\ current'.id \in {current.id, None}
           /\ latest' = latest \/ latest'.id = exec.id
           /\ \A x \in Tx : work'[x] \in {work[x], NoWork}
           /\ \/ lkg' \in {lkg, None}
              \/ exec.pc = "verifying" /\ lkg' = work[exec.id].cand
              \/ exec.pc = "purge" /\ lkg' = exec.undo[1]
  <1>1. CASE LockDoes \/ CommitDoes \/ QuarantineDoes \/ UnlinkDoes \/ PurgeDoes \/ UnlocksDoes
    BY <1>1 DEF LockDoes, CommitDoes, QuarantineDoes, UnlinkDoes, PurgeDoes, UnlocksDoes, StoreKept,
       DiskKept
  <1>2. CASE PrepareDoes \/ AnnounceDoes \/ RescueDoes \/ ActivateDoes \/ ForgetRescueDoes
             \/ FallbackDoes
    BY <1>2 DEF PrepareDoes, AnnounceDoes, RescueDoes, ActivateDoes, ForgetRescueDoes,
       FallbackDoes, StoreKept, DiskKept, StagedTo, FallsBack
  <1>3. CASE CommittedDoes \/ RescuedDoes \/ ForgottenDoes \/ SettleDoes
    <2>1. lkg' = lkg
      BY <1>3 DEF CommittedDoes, RescuedDoes, ForgottenDoes, SettleDoes, DiskKept
    <2>2. CASE UNCHANGED <<current, latest, work>>
      BY <2>1, <2>2
    <2>3. CASE ~UNCHANGED <<current, latest, work>>
      <3>1. PICK status, drop : FinishedAs(status, drop)
        BY <1>3, <2>3 DEF CommittedDoes, RescuedDoes, ForgottenDoes, SettleDoes, StoreKept,
                          FallsBack
      <3> QED BY <2>1, <3>1, NothingRuns DEF FinishedAs
    <2> QED BY <2>2, <2>3
  <1> QED BY <1>1, <1>2, <1>3 DEF ExecutorDoes

\* Every step keeps the identities known.
LEMMA IdentitiesKept ==
    ASSUME ControlInv, NetworkDoes
    PROVE  Identities'
  <1>1. /\ LockHeld /\ Executing /\ Identities /\ Works /\ Commanded /\ Steps /\ DiskTypes
        /\ exec \in Execs /\ queued \subseteq Tx /\ current \in Transaction /\ req \in Reqs
        /\ receipts \in [Key -> Tx \cup {None}] /\ work \in [Tx -> Work]
    BY DEF ControlInv, ControlTypes, ControlTypeOK
  <1>2. CASE Start \/ BootInit \/ BootGoesOn
    <2>1. req = NoReq
      BY <1>1, <1>2 DEF LockHeld, Start, BootInit, BootGoesOn
    <2>2. req' = NoReq
      BY <1>2, <2>1 DEF Start, BootInit, BootGoesOn
    <2>3. lkg' \in {lkg, "factory"}
      BY <1>2 DEF Start, BootInit, BootGoesOn, DiskSame
    <2>4. UNCHANGED <<current, latest, exec, queued, deferred, stranded, receipts, used>>
      BY <1>2 DEF Start, BootInit, BootGoesOn
    <2> QED BY <1>1, <2>2, <2>3, <2>4, NothingRuns DEF Identities, None
  <1>3. CASE BootCleanup \/ BootStart
    <2>1. req = NoReq /\ req' = req
      BY <1>1, <1>3 DEF LockHeld, BootCleanup, BootStart
    <2>2. (queued \cup deferred \cup stranded)' \subseteq used
      BY <1>1, <1>3 DEF Identities, BootCleanup, BootStart
    <2>3. UNCHANGED <<current, latest, exec, receipts, used, lkg>>
      BY <1>3 DEF BootCleanup, BootStart
    <2> QED BY <1>1, <2>1, <2>2, <2>3, NothingRuns DEF Identities, None
  <1>4. CASE BootAccepts
    <2>1. PICK t \in Tx, w \in Work :
             /\ Accepts(t, w) /\ exec'.id = t /\ exec'.undo = <<>>
      BY <1>4, BootExecStarts
    <2>2. req = NoReq /\ req' = req
      BY <1>1, <1>4 DEF LockHeld, BootAccepts
    <2>3. UNCHANGED <<latest, queued, deferred, stranded, receipts, lkg>>
      BY <1>4, <2>1 DEF BootAccepts, DiskSame, Accepts, AcceptedAs
    <2>4. current'.id = t /\ used' = used \cup {t}
      BY <2>1 DEF Accepts, AcceptedAs
    <2> QED BY <1>1, <2>1, <2>2, <2>3, <2>4, NothingRuns DEF Identities, None
  <1>5. CASE ProcessEnds \/ Reboot
    BY <1>1, <1>5, NothingRuns DEF Identities, ProcessEnds, Reboot, ForgetProcess, None
  <1>6. CASE CaptureTakes \/ CaptureReleases \/ IdleDoes
    BY <1>1, <1>6 DEF Identities, CaptureTakes, CaptureReleases, IdleDoes, RecordsKept, DiskSame
  <1>7. CASE \E k \in Key : PrepareRequestDoes(k)
    BY <1>1, <1>7 DEF Identities, PrepareRequestDoes, RecordsKept
  <1>8. CASE \E k \in Key : ReplayDoes(k)
    BY <1>1, <1>8 DEF Identities, ReplayDoes, RecordsKept, DiskSame
  <1>9. CASE \E k \in Key : DirectDoes(k)
    <2>1. PICK k \in Key, t \in Tx, w \in Work : Accepts(t, w) /\ Asked(k, t)
      BY <1>9 DEF DirectDoes
    <2>2. UNCHANGED <<exec, queued, stranded, lkg>>
      BY <1>9 DEF DirectDoes, DiskSame
    <2> QED BY <1>1, <2>1, <2>2 DEF Identities, Accepts, AcceptedAs, Asked
  <1>10. CASE ApplyDoes
    <2>1. UNCHANGED <<exec, queued, stranded, lkg>>
      BY <1>10 DEF ApplyDoes
    <2>2. CASE Asked(req.key, req.tx) /\ \E w \in Work : Accepts(req.tx, w)
      BY <1>1, <1>10, <2>1, <2>2 DEF Identities, Accepts, AcceptedAs, Asked, ApplyDoes
    <2>3. CASE req' = NoReq /\ RecordsKept /\ UNCHANGED <<deferred, used>>
      BY <1>1, <2>1, <2>3, NothingRuns DEF Identities, RecordsKept, None
    <2> QED BY <1>10, <2>2, <2>3 DEF ApplyDoes
  <1>11. CASE RespondDoes
    BY <1>1, <1>11, NothingRuns DEF Identities, RespondDoes, RecordsKept, DiskSame, None
  <1>12. CASE ReleaseDoes
    BY <1>1, <1>12, NothingRuns DEF Identities, ReleaseDoes, DiskSame, None
  <1>13. CASE WorkerDoes
    <2>1. exec'.id \in queued /\ exec'.undo = <<>>
      BY <1>1, <1>13, ExecStartsOf
    <2> QED BY <1>1, <1>13, <2>1 DEF Identities, WorkerDoes, RecordsKept, DiskSame
  <1>14. CASE SubmitDoes
    BY <1>1, <1>14 DEF Identities, SubmitDoes, Accepts, AcceptedAs, DiskSame
  <1>15. CASE EndDoes
    <2>1. exec.id \in used
      BY <1>1, <1>15, NetNames DEF Identities, EndDoes
    <2>2. (queued \cup deferred \cup stranded)' \subseteq used
      BY <1>1, <1>15, <2>1 DEF Identities, EndDoes
    <2>3. UNCHANGED <<current, latest, receipts, lkg, req, used, answered, profiles>>
          /\ exec' = NoExec
      BY <1>15 DEF EndDoes, StoreKept, DiskKept
    <2> QED BY <1>1, <2>2, <2>3, NothingRuns DEF Identities
  <1>16. CASE ExecutorDoes
    <2>1. /\ exec.id \in Tx /\ exec'.id = exec.id /\ req.pc # "write"
          /\ stranded' \subseteq stranded \cup {exec.id} /\ exec.id \in used
          /\ UNCHANGED <<queued, deferred, req, used, answered, receipts>>
      BY <1>1, <1>16, ExecutorGoesOn, NothingRuns, NetNames DEF Identities, Executing, Ran
    <2>2. current'.id \in used \cup {None} /\ latest'.id \in used \cup {None}
      BY <1>1, <1>16, <2>1, ExecutorStore DEF Identities
    <2>3. lkg' \in used \cup CliRequest \cup {"factory", None}
      BY <1>1, <1>16, <2>1, ExecutorStore DEF Identities, Works, Steps
    <2>4. exec'.undo # <<>> => exec'.undo[1] = lkg
      BY <1>1, <1>16, <2>1, ExecutorUndo, ExecutorGoesOn DEF Steps
    <2> QED BY <1>1, <2>1, <2>2, <2>3, <2>4 DEF Identities
  <1>17. CASE WorldDoes
    <2>1. CASE LinkDrops
      BY <1>1, <1>17, <2>1 DEF Identities, LinkDrops, WorldDoes
    <2>2. CASE CliStarts /\ UNCHANGED <<profileVars, link, journal, requests>>
      BY <1>1, <1>17, <2>2 DEF Identities, WorldDoes
    <2>3. CASE CliWorks /\ CliKeeps
      <3>1. req.pc # "write"
        BY <1>1, <2>3 DEF LockHeld, CliWorks
      <3> QED BY <1>1, <1>17, <2>3, <3>1 DEF Identities, WorldDoes, CliKeeps
    <2> QED BY <1>1, <1>17, <2>1, <2>2, <2>3, CliDoes DEF WorldDoes
  <1> QED BY <1>2, <1>3, <1>4, <1>5, <1>6, <1>7, <1>8, <1>9, <1>10, <1>11, <1>12, <1>13, <1>14,
             <1>15, <1>16, <1>17 DEF NetworkDoes, BootsDo, RequestsDo

\* Which steps write the work of a transaction.
Quiet == UNCHANGED <<current, latest, work, used>>
Accepting == \E t \in Tx, w \in Work : Accepts(t, w) /\ (opLock = None \/ req.pc = "write")

\* Only an acceptance and a step of the executor write the work of a transaction.
LEMMA StoreSteps ==
    ASSUME NetworkDoes
    PROVE  Quiet \/ Accepting \/ ExecutorDoes
  BY DEF Quiet, Accepting, NetworkDoes, BootsDo, Start, BootInit, BootGoesOn, BootAccepts,
     BootCleanup, BootStart, ProcessEnds, Reboot, CaptureTakes, CaptureReleases, RequestsDo,
     DirectDoes,
     PrepareRequestDoes, ReplayDoes, ApplyDoes, RespondDoes, ReleaseDoes, WorkerDoes, EndDoes,
     SubmitDoes, IdleDoes, WorldDoes, RecordsKept, StoreKept, Accepts

\* Every step keeps the works well made.
LEMMA WorksKept ==
    ASSUME ControlInv, NetworkDoes
    PROVE  Works'
  <1>1. Works /\ Identities /\ work \in [Tx -> Work] /\ exec \in Execs
    BY DEF ControlInv, ControlTypes, ControlTypeOK
  <1>2. CASE Quiet
    BY <1>1, <1>2 DEF Works, Quiet
  <1>3. CASE Accepting
    <2>1. PICK t \in Tx, w \in Work : AcceptedAs(t, w) /\ WellMade(t, w)
      BY <1>3 DEF Accepting, Accepts
    <2>2. work'[t] = w /\ used' = used \cup {t} /\ \A x \in Tx \ {t} : work'[x] = work[x]
      BY <2>1 DEF AcceptedAs
    <2> QED BY <1>1, <2>1, <2>2 DEF Works, WellMade
  <1>4. CASE ExecutorDoes
    <2>1. used' = used /\ \A x \in Tx : work'[x] \in {work[x], NoWork}
      BY <1>1, <1>4, ExecutorStore, ExecutorGoesOn
    <2> QED BY <1>1, <2>1, NoWorkIs DEF Works, None
  <1> QED BY <1>2, <1>3, <1>4, StoreSteps

\* What an execution under way relies on is changed by nobody else.
LEMMA ExecAlone ==
    ASSUME ControlInv, NetworkDoes, ~ExecutorDoes
    PROVE  \/ exec' = NoExec
           \/ /\ exec' = exec
              /\ exec # NoExec /\ exec.pc \notin {"lock", "end"} \cup FallbackSteps
                 => UNCHANGED <<profiles, quarantined, lkg, opLock, current, latest, work>>
           \/ exec'.pc = "lock" /\ exec'.undo = <<>> /\ exec'.id \in Tx /\ exec = NoExec
  <1>1. LockHeld /\ exec \in Execs /\ req \in Reqs /\ DiskTypes /\ Commanded /\ queued \subseteq Tx
    BY DEF ControlInv, ControlTypes, ControlTypeOK
  <1>2. CASE BootAccepts \/ WorkerDoes
    <2>1. exec = NoExec
      BY <1>1, <1>2, ExecFields DEF LockHeld, BootAccepts, WorkerDoes
    <2> QED BY <1>1, <1>2, <2>1, BootExecStarts, ExecStartsOf
  <1>3. CASE exec = NoExec /\ ~(BootAccepts \/ WorkerDoes)
    BY <1>3 DEF NetworkDoes, BootsDo, Start, BootInit, BootGoesOn, BootCleanup, BootStart,
       ProcessEnds,
       Reboot, ForgetProcess, CaptureTakes, CaptureReleases, RequestsDo, DirectDoes,
       PrepareRequestDoes, ReplayDoes, ApplyDoes, RespondDoes, ReleaseDoes, EndDoes,
       SubmitDoes, IdleDoes, WorldDoes
  <1>4. CASE exec # NoExec /\ exec.pc \in {"lock", "end"} \cup FallbackSteps
             /\ ~(BootAccepts \/ WorkerDoes)
    BY <1>4 DEF NetworkDoes, BootsDo, Start, BootInit, BootGoesOn, BootCleanup, BootStart,
       ProcessEnds,
       Reboot, ForgetProcess, CaptureTakes, CaptureReleases, RequestsDo, DirectDoes,
       PrepareRequestDoes, ReplayDoes, ApplyDoes, RespondDoes, ReleaseDoes, EndDoes,
       SubmitDoes, IdleDoes, WorldDoes
  <1>5. CASE exec # NoExec /\ exec.pc \notin {"lock", "end"} \cup FallbackSteps
             /\ ~(BootAccepts \/ WorkerDoes)
    <2>1. /\ opLock = exec.by /\ opLock \in {"worker", "boot"} /\ cli = NoCli /\ req.pc # "write"
          /\ main \in {"exec", "serve"}
      BY <1>1, <1>5, ExecFields DEF LockHeld
    <2>2. CASE WorldDoes
      BY <1>1, <1>5, <2>1, <2>2, CliDoes DEF WorldDoes, LinkDrops, CliStarts, CliWorks, None
    <2>3. CASE ~WorldDoes
      BY <1>5, <2>1, <2>3 DEF NetworkDoes, BootsDo, Start, BootInit, BootGoesOn, BootCleanup,
         BootStart, ProcessEnds, Reboot, ForgetProcess, CaptureTakes, CaptureReleases, RequestsDo,
         DirectDoes, PrepareRequestDoes, ReplayDoes, ApplyDoes, RespondDoes, ReleaseDoes, EndDoes,
         SubmitDoes, IdleDoes, DiskSame, RecordsKept, None
    <2> QED BY <2>2, <2>3
  <1> QED BY <1>2, <1>3, <1>4, <1>5

\* Every step keeps what the executor's next one relies on.
LEMMA StepsKept ==
    ASSUME ControlInv, NetworkDoes
    PROVE  Steps'
  <1>1. /\ Steps /\ Works /\ Executing /\ LockHeld /\ exec \in Execs /\ queued \subseteq Tx
        /\ current \in Transaction /\ work \in [Tx -> Work] /\ ControlTypes
    BY DEF ControlInv, ControlTypes, ControlTypeOK
  <1>2. current' # NoTx => work'[current'.id].kind # None
    <2>1. CASE Quiet
      BY <1>1, <2>1 DEF Quiet, Steps
    <2>2. CASE Accepting
      BY <2>2 DEF Accepting, Accepts, AcceptedAs, WellMade
    <2>3. CASE ExecutorDoes
      <3>1. CASE LockDoes \/ RescueDoes \/ ActivateDoes \/ CommitDoes \/ ForgetRescueDoes
                 \/ QuarantineDoes \/ UnlinkDoes \/ PurgeDoes \/ UnlocksDoes
        BY <1>1, <3>1 DEF LockDoes, RescueDoes, ActivateDoes, CommitDoes, ForgetRescueDoes,
           QuarantineDoes, UnlinkDoes, PurgeDoes, UnlocksDoes, StoreKept, Steps
      <3>2. CASE PrepareDoes \/ AnnounceDoes \/ FallbackDoes
        <4>1. /\ current'.id = current.id /\ work' = work
              /\ (current' = current \/ current.id = exec.id)
          BY <3>2 DEF PrepareDoes, AnnounceDoes, FallbackDoes, StoreKept, StagedTo, FallsBack
        <4> QED BY <1>1, <2>3, <4>1, ExecutorGoesOn DEF Steps, Ran
      <3>3. CASE CommittedDoes \/ RescuedDoes \/ ForgottenDoes \/ SettleDoes
        BY <1>1, <3>3 DEF CommittedDoes, RescuedDoes, ForgottenDoes, SettleDoes, StoreKept,
           FinishedAs, FallsBack, Steps
      <3> QED BY <2>3, <3>1, <3>2, <3>3 DEF ExecutorDoes
    <2> QED BY <2>1, <2>2, <2>3, StoreSteps
  <1>3. CASE ~ExecutorDoes
    <2>1. CASE exec' = NoExec
      BY <1>2, <2>1, NothingRuns DEF Steps, Ran, Forgetting, None
    <2>2. CASE exec'.pc = "lock" /\ exec'.undo = <<>> /\ exec'.id \in Tx /\ exec = NoExec
      <3>1. exec' # NoExec => work'[exec'.id].kind # None
        <4>1. CASE BootAccepts
          BY <4>1, BootExecStarts DEF Accepts, AcceptedAs, WellMade
        <4>2. CASE WorkerDoes
          <5>1. exec'.id = current.id /\ current # NoTx /\ work' = work
            BY <1>1, <2>2, <4>2, ExecStartsOf, NothingRuns, NetNames
               DEF Executing, WorkerDoes, RecordsKept
          <5> QED BY <1>1, <5>1 DEF Steps
        <4>3. CASE ~BootAccepts /\ ~WorkerDoes
          <5>1. exec' = NoExec \/ exec' = exec
            BY <1>3, <4>3 DEF NetworkDoes, BootsDo, Start, BootInit, BootGoesOn, BootCleanup,
               BootStart, ProcessEnds, Reboot, ForgetProcess, CaptureTakes, CaptureReleases, RequestsDo,
               DirectDoes, PrepareRequestDoes, ReplayDoes, ApplyDoes, RespondDoes, ReleaseDoes,
               EndDoes, SubmitDoes, IdleDoes, WorldDoes
          <5> QED BY <2>2, <5>1
        <4> QED BY <4>1, <4>2, <4>3
      <3> QED BY <1>2, <2>2, <3>1 DEF Steps, Ran, Forgetting
    <2>3. CASE exec' = exec /\ exec # NoExec /\ exec.pc \notin {"lock", "end"} \cup FallbackSteps
      <3>1. UNCHANGED <<profiles, lkg, work, exec>>
        BY <1>3, <2>3, ExecAlone
      <3> QED BY <1>1, <1>2, <3>1 DEF Steps, Ran
    <2>4. CASE exec' = exec /\ exec # NoExec /\ exec.pc \in {"lock"} \cup FallbackSteps
      <3>1. current # NoTx /\ current.id = exec.id
        BY <1>1, <2>4, ExecFields, NothingRuns, NetNames DEF Executing, Ran, FallbackSteps, Settles
      <3>2. work' = work
        BY <1>3, <3>1, StoreSteps DEF Quiet, Accepting, Accepts
      <3> QED BY <1>1, <1>2, <2>4, <3>2 DEF Steps, Ran, Forgetting, FallbackSteps, Settles
    <2>6. CASE exec' = exec /\ exec # NoExec /\ exec.pc = "end"
      BY <1>1, <1>2, <2>6 DEF Steps, Ran, Forgetting
    <2>5. CASE exec' = exec /\ exec = NoExec
      BY <1>2, <2>5, NothingRuns DEF Steps, Ran, Forgetting, None
    <2> QED BY <1>3, <2>1, <2>2, <2>3, <2>4, <2>5, <2>6, ExecAlone
  <1>4. CASE ExecutorDoes
    <2> DEFINE w == work[exec.id]
    <2>1. /\ exec # NoExec /\ exec' # NoExec /\ exec'.id = exec.id /\ exec.pc # "end"
          /\ w.kind # None /\ exec.id \in Tx
          /\ w.kind \in {None, "candidate", "rescue", "fallback", "forget"}
      BY <1>1, <1>4, ExecutorGoesOn, WorkFields DEF Steps, Ran
    <2>2. exec'.undo # <<>> <=> exec'.pc = "purge"
      BY <1>1, <1>4, <2>1, ExecutorUndoPc DEF Steps
    <2>3. CASE exec'.pc = "end"
      BY <1>2, <2>1, <2>2, <2>3 DEF Steps, Ran, Forgetting
    <2>4. CASE exec'.pc # "end"
      <3>1. work' = work
        BY <1>4, <2>4 DEF ExecutorDoes, LockDoes, PrepareDoes, RescueDoes, ActivateDoes,
                          CommitDoes,
           CommittedDoes, RescuedDoes, ForgetRescueDoes, QuarantineDoes, UnlinkDoes, PurgeDoes,
           ForgottenDoes, FallbackDoes, SettleDoes, AnnounceDoes, UnlocksDoes, GoesTo, FallsBack,
           StoreKept, StagedTo
      <3>2. exec'.pc = "fallback" => Steps'
        BY <1>2, <2>1, <2>2, <3>1 DEF Steps, Ran, Forgetting
      <3>3. CASE LockDoes
        BY <1>2, <2>1, <2>2, <3>1, <3>3 DEF Steps, Ran, Forgetting, LockDoes, GoesTo
      <3>4. CASE PrepareDoes
        BY <1>1, <1>2, <2>1, <2>2, <3>1, <3>2, <3>4
           DEF Steps, Ran, Forgetting, PrepareDoes, GoesTo, FallsBack
      <3>5. CASE RescueDoes
        BY <1>1, <1>2, <2>1, <2>2, <3>1, <3>2, <3>5
           DEF Steps, Ran, Forgetting, RescueDoes, GoesTo
      <3>6. CASE ActivateDoes
        BY <1>1, <1>2, <2>1, <2>2, <3>1, <3>2, <3>6
           DEF Steps, Ran, Forgetting, ActivateDoes, GoesTo, DiskKept
      <3>11. CASE AnnounceDoes /\ ~FallsBack
        <4>1. /\ exec'.pc = AfterAnnounced /\ exec.pc \in Announced
              /\ UNCHANGED <<profiles, lkg>>
          BY <3>11 DEF AnnounceDoes, GoesTo, DiskKept
        <4>2. AfterAnnounced \in {"activate", "verifying", "falling_back", "committed", "rescued",
                                  "forget_ap"}
          BY <4>1 DEF AfterAnnounced, Announced
        <4>3. exec'.pc = "activate" => w.kind = "candidate"
          BY <1>1, <4>1 DEF AfterAnnounced, Announced, Steps
        <4>4. exec'.pc = "verifying" => w.kind = "candidate" /\ w.cand \in profiles
          BY <1>1, <4>1 DEF AfterAnnounced, Announced, Steps
        <4>5. exec'.pc = "committed" => w.kind = "rescue"
          BY <1>1, <4>1 DEF AfterAnnounced, Announced, Steps, ExecWork
        <4>6. exec'.pc = "forget_ap" => w.kind = "forget"
          BY <1>1, <4>1 DEF AfterAnnounced, Announced, Steps
        <4> QED BY <1>2, <2>1, <2>2, <3>1, <4>1, <4>2, <4>3, <4>4, <4>5, <4>6
               DEF Steps, Ran, Forgetting
      <3>12. CASE (AnnounceDoes /\ FallsBack) \/ UnlocksDoes
        BY <3>2, <3>12 DEF UnlocksDoes, FallsBack, GoesTo
      <3>7. CASE CommitDoes
        BY <1>1, <1>2, <2>1, <2>2, <3>1, <3>2, <3>7
           DEF Steps, Ran, Forgetting, CommitDoes, GoesTo
      <3>8. CASE CommittedDoes \/ RescuedDoes
        BY <2>4, <3>2, <3>8 DEF CommittedDoes, RescuedDoes, GoesTo, FallsBack
      <3>9. CASE ForgetRescueDoes \/ QuarantineDoes \/ UnlinkDoes \/ PurgeDoes \/ ForgottenDoes
        BY <1>1, <1>2, <2>1, <2>2, <2>4, <3>1, <3>2, <3>9
           DEF Steps, Ran, Forgetting, ForgetRescueDoes, QuarantineDoes, UnlinkDoes, PurgeDoes,
               ForgottenDoes, GoesTo, FallsBack
      <3>10. CASE FallbackDoes \/ SettleDoes
        BY <1>2, <2>1, <2>2, <2>4, <3>1, <3>10
           DEF Steps, Ran, Forgetting, FallbackDoes, SettleDoes, GoesTo
      <3> QED BY <1>4, <3>3, <3>4, <3>5, <3>6, <3>7, <3>8, <3>9, <3>10, <3>11, <3>12
              DEF ExecutorDoes
    <2> QED BY <2>3, <2>4
  <1> QED BY <1>3, <1>4

\* Between an accepted change and its answer nothing happens to the transaction.
LEMMA AnswersKept ==
    ASSUME ControlInv, NetworkDoes
    PROVE  Answers'
  <1>1. /\ Answers /\ Executing /\ Identities /\ LockHeld /\ exec \in Execs /\ queued \subseteq Tx
        /\ current \in Transaction /\ used \subseteq Tx
        /\ receipts \in [Key -> Tx \cup {None}] /\ ControlInv
    BY DEF ControlInv, ControlTypes, ControlTypeOK
  <1> SUFFICES ASSUME NEW k \in Key, Unanswered(k)'
               PROVE  /\ current'.id = receipts'[k] /\ current'.stage = "accepted" /\ ~released'
                      /\ receipts'[k] \notin queued' /\ exec'.id # receipts'[k]
    BY DEF Answers
  <1>2. receipts'[k] # None /\ receipts'[k] \notin answered'
    BY DEF Unanswered
  <1>3. receipts[k] # None /\ receipts[k] \notin answered
        => /\ current.id = receipts[k] /\ current.stage = "accepted" /\ ~released
           /\ receipts[k] \notin queued /\ exec.id # receipts[k] /\ current # NoTx
    BY <1>1, NothingRuns DEF Answers, Unanswered
  <1>4. CASE \E j \in Key, t \in Tx, w \in Work :
                Accepts(t, w) /\ Asked(j, t) /\ UNCHANGED <<exec, queued, answered>>
             /\ (opLock = None \/ req.pc = "write")
    <2>1. PICK j \in Key, t \in Tx, w \in Work : Accepts(t, w) /\ Asked(j, t)
      BY <1>4
    <2>2. queued \subseteq {exec.id} /\ UNCHANGED <<exec, queued, answered>> /\ current = NoTx
      BY <1>1, <1>4, AcceptsAlone DEF Accepts
    <2>5. exec.id # t
      BY <1>1, <2>1, NetNames DEF Accepts, Identities
    <2>3. j = k
      BY <1>1, <1>2, <1>3, <2>1, <2>2 DEF Asked
    <2>4. receipts'[k] = t
      BY <1>1, <2>1, <2>3 DEF Asked
    <2> QED BY <2>1, <2>2, <2>4, <2>5 DEF Accepts, AcceptedAs, Asked
  <1>5. CASE /\ UNCHANGED <<receipts, current, released>> /\ answered \subseteq answered'
             /\ queued' \subseteq queued /\ exec' \in {exec, NoExec}
    BY <1>2, <1>3, <1>5, NothingRuns
  <1>6. CASE UNCHANGED <<receipts, answered>> /\ current = NoTx
    BY <1>2, <1>3, <1>6
  <1>7. CASE Start \/ BootInit \/ BootCleanup \/ BootGoesOn \/ ProcessEnds \/ Reboot \/ CaptureTakes
             \/ CaptureReleases \/ IdleDoes \/ EndDoes \/ WorldDoes \/ RespondDoes
             \/ \E j \in Key : PrepareRequestDoes(j) \/ ReplayDoes(j)
    BY <1>5, <1>7 DEF Start, BootInit, BootCleanup, BootGoesOn, ProcessEnds, Reboot, ForgetProcess,
       CaptureTakes, CaptureReleases, IdleDoes, EndDoes, WorldDoes, RespondDoes,
       PrepareRequestDoes,
       ReplayDoes, RecordsKept, StoreKept
  <1>8. CASE BootAccepts \/ SubmitDoes
    BY <1>6, <1>8 DEF BootAccepts, SubmitDoes, Accepts
  <1>9. CASE BootStart
    BY <1>2, <1>3, <1>9 DEF BootStart
  <1>10. CASE \E j \in Key : DirectDoes(j)
    BY <1>4, <1>10 DEF DirectDoes
  <1>11. CASE ApplyDoes
    BY <1>4, <1>5, <1>11 DEF ApplyDoes, RecordsKept
  <1>12. CASE ReleaseDoes
    <2>1. req.tx \in answered /\ UNCHANGED <<receipts, answered, current, exec>>
      BY <1>1, <1>12 DEF Identities, ReleaseDoes
    <2> QED BY <1>2, <1>3, <1>12, <2>1 DEF ReleaseDoes
  <1>13. CASE WorkerDoes
    <2>1. exec'.id \in queued
      BY <1>1, <1>13, ExecStartsOf
    <2> QED BY <1>2, <1>3, <1>13, <2>1 DEF WorkerDoes, RecordsKept
  <1>14. CASE ExecutorDoes
    <2>1. current.id = exec.id /\ UNCHANGED <<receipts, answered>>
      BY <1>1, <1>14, ExecutorGoesOn DEF Executing, Ran
    <2> QED BY <1>2, <1>3, <2>1
  <1> QED BY <1>7, <1>8, <1>9, <1>10, <1>11, <1>12, <1>13, <1>14
          DEF NetworkDoes, BootsDo, RequestsDo

\* Every step before the first command keeps its profiles unknown.
LEMMA NoCliYetKept ==
    ASSUME ControlInv, NetworkDoes
    PROVE  NoCliYet'
  <1>1. /\ NoCliYet /\ DiskTypes /\ LockHeld /\ Commanded /\ Steps /\ exec \in Execs
        /\ work \in [Tx -> Work]
    BY DEF ControlInv, ControlTypes, ControlTypeOK
  <1> SUFFICES ASSUME clis' = 0 PROVE NoCliYet'
    BY DEF NoCliYet
  <1>2. clis = 0 /\ cli = NoCli
    <2>1. CASE WorldDoes
      BY <1>1, <2>1, CliDoes DEF WorldDoes, LinkDrops, CliStarts, CliWorks, DiskTypes, NoCliYet
    <2>2. CASE ~WorldDoes
      BY <1>1, <2>2, CliAlone DEF NoCliYet
    <2> QED BY <2>1, <2>2
  <1>3. /\ journal = NoJournal /\ lkg \notin CliRequest
        /\ \A t \in Tx : work[t].cand \notin CliRequest
        /\ exec.undo # <<>> => exec.undo[1] \notin CliRequest /\ exec.undo[2] = NoJournal
    BY <1>1, <1>2 DEF NoCliYet
  <1>4. cli' = NoCli
    <2>1. CASE WorldDoes
      BY <1>1, <1>2, <2>1, CliDoes DEF WorldDoes, LinkDrops, CliStarts, CliWorks, DiskTypes
    <2>2. CASE ~WorldDoes
      BY <1>2, <2>2, CliAlone
    <2> QED BY <2>1, <2>2
  <1>5. \A t \in Tx : work'[t].cand \notin CliRequest
    <2>1. CASE Quiet
      BY <1>3, <2>1 DEF Quiet
    <2>2. CASE Accepting
      <3>1. PICK t \in Tx, w \in Work : AcceptedAs(t, w) /\ WellMade(t, w)
        BY <2>2 DEF Accepting, Accepts
      <3>2. w.cand \notin CliRequest
        BY <1>2, <3>1 DEF WellMade
      <3> QED BY <1>3, <3>1, <3>2 DEF AcceptedAs
    <2>3. CASE ExecutorDoes
      <3>1. \A x \in Tx : work'[x] \in {work[x], NoWork}
        BY <1>1, <2>3, ExecutorStore
      <3> QED BY <1>3, <3>1, NoWorkIs, NetNames
    <2> QED BY <2>1, <2>2, <2>3, StoreSteps
  <1>6. CASE ExecutorDoes
    <2>1. lkg' \notin CliRequest
      BY <1>1, <1>3, <1>6, ExecutorStore, ExecutorGoesOn, NetNames DEF Steps
    <2>2. journal' = NoJournal
      <3>1. CASE UnlinkDoes \/ PurgeDoes
        BY <1>1, <1>3, <3>1 DEF UnlinkDoes, PurgeDoes, Steps
      <3>2. CASE ~UnlinkDoes /\ ~PurgeDoes
        BY <1>3, <1>6, <3>2 DEF ExecutorDoes, LockDoes, PrepareDoes, RescueDoes, ActivateDoes,
           CommitDoes, CommittedDoes, RescuedDoes, ForgetRescueDoes, QuarantineDoes,
           ForgottenDoes, FallbackDoes, SettleDoes, AnnounceDoes, UnlocksDoes, DiskKept
      <3> QED BY <3>1, <3>2
    <2>3. exec'.undo # <<>> => exec'.undo[1] = lkg /\ exec'.undo[2] = journal
      BY <1>1, <1>6, ExecutorUndo, ExecutorGoesOn DEF Steps
    <2> QED BY <1>3, <1>4, <1>5, <2>1, <2>2, <2>3 DEF NoCliYet
  <1>7. CASE ~ExecutorDoes
    <2>1. exec'.undo # <<>> => exec' = exec
      BY <1>7, ExecAlone, NothingRuns
    <2>2. CASE BootInit
      <3>1. lkg' \in {lkg, "factory"} /\ journal' = journal
        BY <2>2 DEF BootInit
      <3> QED BY <1>3, <1>4, <1>5, <2>1, <3>1, NetNames DEF NoCliYet
    <2>3. CASE ~BootInit
      <3>1. UNCHANGED <<lkg, journal>>
        BY <1>1, <1>2, <1>7, <2>3, CliDoes DEF NetworkDoes, BootsDo, Start, BootGoesOn,
               BootAccepts,
           BootCleanup, BootStart, ProcessEnds, Reboot, CaptureTakes, CaptureReleases, RequestsDo,
           DirectDoes, PrepareRequestDoes, ReplayDoes, ApplyDoes, RespondDoes, ReleaseDoes,
           WorkerDoes, EndDoes, SubmitDoes, IdleDoes, DiskSame, DiskKept, WorldDoes, LinkDrops,
           CliWorks
      <3> QED BY <1>3, <1>4, <1>5, <2>1, <3>1 DEF NoCliYet
    <2> QED BY <2>2, <2>3
  <1> QED BY <1>6, <1>7

\* Every step keeps a released transaction queued or executed.
LEMMA ReleasedIsQueuedKept ==
    ASSUME ControlInv, NetworkDoes
    PROVE  ReleasedIsQueued'
  <1>1. /\ ReleasedIsQueued /\ Executing /\ LockHeld /\ exec \in Execs /\ queued \subseteq Tx
        /\ current \in Transaction
    BY DEF ControlInv, ControlTypes, ControlTypeOK
  <1>2. CASE Start \/ BootInit \/ BootCleanup \/ BootGoesOn \/ BootAccepts \/ ProcessEnds \/ Reboot
    BY <1>1, <1>2 DEF ReleasedIsQueued, LockHeld, Start, BootInit, BootCleanup, BootGoesOn,
       BootAccepts, ProcessEnds, Reboot, Die
  <1>3. CASE BootStart
    <2>1. current # NoTx => current.id # None
      BY <1>1, TransactionFields
    <2> QED BY <1>3, <2>1 DEF BootStart, ReleasedIsQueued
  <1>4. CASE UNCHANGED <<main, current, released, queued, stranded>>
    BY <1>1, <1>4 DEF ReleasedIsQueued
  <1>5. CASE CaptureTakes \/ CaptureReleases \/ IdleDoes \/ WorldDoes \/ RespondDoes
             \/ \E k \in Key : PrepareRequestDoes(k) \/ ReplayDoes(k)
    BY <1>4, <1>5 DEF CaptureTakes, CaptureReleases, IdleDoes, WorldDoes, RespondDoes,
       PrepareRequestDoes, ReplayDoes, RecordsKept
  <1>6. CASE (\E k \in Key : DirectDoes(k)) \/ ApplyDoes
    <2>1. CASE released' = FALSE
      BY <2>1 DEF ReleasedIsQueued
    <2>2. CASE released' # FALSE
      BY <1>4, <1>6, <2>2 DEF DirectDoes, ApplyDoes, Asked, RecordsKept
    <2> QED BY <2>1, <2>2
  <1>7. CASE ReleaseDoes
    <2>1. CASE current.id = req.tx /\ queued' = queued \cup {req.tx}
      BY <1>7, <2>1 DEF ReleasedIsQueued, ReleaseDoes
    <2>2. CASE UNCHANGED <<released, queued>>
      BY <1>4, <1>7, <2>2 DEF ReleaseDoes
    <2> QED BY <1>7, <2>1, <2>2 DEF ReleaseDoes
  <1>8. CASE WorkerDoes
    <2>1. exec = NoExec /\ exec'.id \in queued /\ exec'.id = current.id /\ queued' = queued
          /\ current' = current
      BY <1>1, <1>8, ExecStartsOf, NothingRuns, NetNames DEF Executing, WorkerDoes, RecordsKept
    <2> QED BY <2>1 DEF ReleasedIsQueued
  <1>9. CASE SubmitDoes
    BY <1>9 DEF ReleasedIsQueued, SubmitDoes, Accepts, AcceptedAs
  <1>10. CASE EndDoes
    <2>1. UNCHANGED <<current, released>>
      BY <1>10 DEF EndDoes, StoreKept
    <2>2. CASE exec.pc = "end" /\ queued' = queued \ {exec.id} /\ UNCHANGED <<worker, stranded>>
               /\ main' = IF exec.by = "boot" THEN "cleanup" ELSE main
      <3>1. current.id # exec.id \/ exec.id \in stranded
        BY <1>1, <1>10, <2>2 DEF Executing, EndDoes
      <3> QED BY <1>1, <2>1, <2>2, <3>1 DEF ReleasedIsQueued
    <2>3. CASE main' = main /\ queued' = queued \ {exec.id}
               /\ stranded' = stranded \cup {exec.id}
      BY <1>1, <2>1, <2>3 DEF ReleasedIsQueued
    <2>4. CASE main' = "down"
      BY <2>4 DEF ReleasedIsQueued
    <2> QED BY <1>10, <2>2, <2>3, <2>4 DEF EndDoes
  <1>11. CASE ExecutorDoes
    <2>1. /\ exec # NoExec /\ UNCHANGED <<main, queued>> /\ current.id = exec.id
          /\ exec.id \in Tx /\ stranded \subseteq stranded'
      BY <1>1, <1>11, ExecutorGoesOn DEF Executing, Ran
    <2>2. current # NoTx
      BY <2>1, NothingRuns, NetNames
    <2>3. current' = NoTx \/ (current'.id = current.id /\ released' = released)
      BY <1>11 DEF ExecutorDoes, LockDoes, PrepareDoes, RescueDoes, ActivateDoes, CommitDoes,
         CommittedDoes, RescuedDoes, ForgetRescueDoes, QuarantineDoes, UnlinkDoes, PurgeDoes,
         ForgottenDoes, FallbackDoes, SettleDoes, AnnounceDoes, UnlocksDoes, FallsBack, StoreKept,
         StagedTo, FinishedAs
    <2> QED BY <1>1, <2>1, <2>2, <2>3 DEF ReleasedIsQueued
  <1> QED BY <1>2, <1>3, <1>4, <1>5, <1>6, <1>7, <1>8, <1>9, <1>10, <1>11
          DEF NetworkDoes, BootsDo, RequestsDo

\* What deletes client profiles, and which it spares.
LEMMA CandidateKeptAlways ==
    ASSUME ControlInv, NetworkDoes
    PROVE  CandidateKept'
  <1>1. /\ CandidateKept /\ NoCliYet /\ DiskTypes /\ LockHeld /\ Commanded /\ Steps /\ Works
        /\ Identities /\ Executing /\ exec \in Execs /\ work \in [Tx -> Work]
        /\ current \in Transaction /\ latest \in Transaction /\ used \subseteq Tx
    BY DEF ControlInv, ControlTypes, ControlTypeOK
  <1>2. clis' = 0 => clis = 0 /\ ~CliNext
    <2>1. CASE WorldDoes
      BY <1>1, <2>1, CliDoes DEF WorldDoes, LinkDrops, CliStarts, CliWorks, DiskTypes, NoCliYet
    <2>2. CASE ~WorldDoes
      <3>1. clis' = clis
        BY <2>2, CliAlone
      <3>2. CliNext => CliStarts \/ CliWorks
        BY <1>1, CliDoes
      <3> QED BY <1>1, <3>1, <3>2 DEF CliStarts, CliWorks, NoCliYet, DiskTypes
    <2> QED BY <2>1, <2>2
  <1> SUFFICES ASSUME clis' = 0 PROVE CandidateKept'
    BY DEF CandidateKept
  <1>3. clis = 0 /\ ~CliNext
    BY <1>2
  <1>4. /\ current # NoTx => current.id \in Tx
              /\ (work[current.id].cand # None => work[current.id].cand \in profiles)
        /\ current = NoTx /\ latest.status \in Unsettled => latest.id \in Tx
              /\ (work[latest.id].cand # None => work[latest.id].cand \in profiles)
    <2>1. latest.status \in Unsettled => latest.id \in Tx
      BY <1>1, TransactionFields DEF Unsettled, None
    <2>2. current # NoTx => current.id \in Tx
      BY <1>1, TransactionFields
    <2> QED BY <1>1, <1>3, <2>1, <2>2 DEF CandidateKept
  <1>5. CASE Quiet /\ ~ExecutorDoes
    <2>1. CASE BootCleanup
      <3>1. profiles' = profiles \cap (Retained \cup Referenced)
        BY <2>1 DEF BootCleanup
      <3>2. \A t \in Tx : work[t].cand # None => work[t].cand \in Retained
        BY DEF Retained
      <3>3. UNCHANGED <<current, latest, work>>
        BY <1>5 DEF Quiet
      <3> QED BY <1>4, <3>1, <3>2, <3>3 DEF CandidateKept
    <2>2. CASE ApplyDoes
      <3>1. \A t \in Tx : work[t].cand # req.tx
        BY <1>1, <1>3, <2>2, NetNames, NamesApart
           DEF ApplyDoes, Identities, Works, NoCliYet, LockHeld
      <3>2. profiles \ {req.tx} \subseteq profiles'
        BY <2>2 DEF ApplyDoes
      <3>3. UNCHANGED <<current, latest, work>>
        BY <1>5 DEF Quiet
      <3> QED BY <1>4, <3>1, <3>2, <3>3 DEF CandidateKept
    <2>3. CASE ~BootCleanup /\ ~ApplyDoes
      <3>1. profiles \subseteq profiles'
        BY <1>3, <1>5, <2>3 DEF NetworkDoes, BootsDo, Start, BootInit, BootGoesOn, BootAccepts,
           BootStart, ProcessEnds, Reboot, CaptureTakes, CaptureReleases, RequestsDo, DirectDoes,
           PrepareRequestDoes, ReplayDoes, RespondDoes, ReleaseDoes, WorkerDoes, EndDoes,
           SubmitDoes, IdleDoes, WorldDoes, LinkDrops, DiskSame, DiskKept
      <3>2. UNCHANGED <<current, latest, work>>
        BY <1>5 DEF Quiet
      <3> QED BY <1>4, <3>1, <3>2 DEF CandidateKept
    <2> QED BY <2>1, <2>2, <2>3
  <1>6. CASE Accepting /\ ~ExecutorDoes /\ ~Quiet
    <2>1. PICK t \in Tx, w \in Work : Accepts(t, w)
      BY <1>6 DEF Accepting
    <2>2. profiles' = profiles
      BY <1>3, <1>6, <2>1 DEF Quiet, NetworkDoes, BootsDo, Start, BootInit, BootGoesOn,
                              BootAccepts,
         BootCleanup, BootStart, ProcessEnds, Reboot, CaptureTakes, CaptureReleases, RequestsDo,
         DirectDoes, ApplyDoes, PrepareRequestDoes, ReplayDoes, RespondDoes, ReleaseDoes,
         WorkerDoes,
         EndDoes, SubmitDoes, IdleDoes, WorldDoes, LinkDrops, DiskSame, DiskKept, RecordsKept,
         StoreKept
    <2>3. current' # NoTx /\ current'.id = t /\ work'[t] = w
      BY <2>1 DEF Accepts, AcceptedAs
    <2>4. w.cand # None => w.cand \in profiles
      BY <1>3, <2>1 DEF Accepts, WellMade
    <2> QED BY <2>2, <2>3, <2>4 DEF CandidateKept
  <1>7. CASE ExecutorDoes
    <2>1. exec.id \in Tx /\ current.id = exec.id /\ current # NoTx
      BY <1>1, <1>7, ExecutorGoesOn, NothingRuns, NetNames DEF Executing, Ran
    <2> DEFINE c == work[exec.id].cand
    <2>2. c # None => c \in profiles
      BY <1>4, <2>1
    <2>3. c # None => c \in profiles'
      <3>1. CASE QuarantineDoes \/ UnlinkDoes \/ PurgeDoes
        BY <1>1, <2>1, <3>1 DEF QuarantineDoes, UnlinkDoes, PurgeDoes, Steps, Works, Forgetting
      <3>2. CASE CommitDoes
        BY <2>2, <3>2 DEF CommitDoes
      <3>3. CASE ~QuarantineDoes /\ ~UnlinkDoes /\ ~PurgeDoes /\ ~CommitDoes
        BY <1>7, <2>2, <3>3 DEF ExecutorDoes, LockDoes, PrepareDoes, RescueDoes, ActivateDoes,
           CommittedDoes, RescuedDoes, ForgetRescueDoes, ForgottenDoes, FallbackDoes, SettleDoes,
           AnnounceDoes, UnlocksDoes, DiskKept
      <3> QED BY <3>1, <3>2, <3>3
    <2>4. \/ current'.id = exec.id /\ current' # NoTx /\ work' = work
          \/ current' = NoTx /\ latest'.status = "committed"
          \/ current' = NoTx /\ latest'.id = exec.id /\ work'[exec.id] = work[exec.id]
      <3>1. CASE LockDoes \/ RescueDoes \/ ActivateDoes \/ CommitDoes \/ ForgetRescueDoes
                 \/ QuarantineDoes \/ UnlinkDoes \/ PurgeDoes \/ UnlocksDoes
        BY <2>1, <3>1 DEF LockDoes, RescueDoes, ActivateDoes, CommitDoes, ForgetRescueDoes,
           QuarantineDoes, UnlinkDoes, PurgeDoes, UnlocksDoes, StoreKept
      <3>2. CASE PrepareDoes \/ AnnounceDoes \/ FallbackDoes
        BY <2>1, <3>2 DEF PrepareDoes, AnnounceDoes, FallbackDoes, StoreKept, StagedTo, FallsBack
      <3>3. CASE CommittedDoes \/ ForgottenDoes
        BY <2>1, <3>3 DEF CommittedDoes, ForgottenDoes, FinishedAs, FallsBack, StoreKept
      <3>4. CASE RescuedDoes \/ SettleDoes
        BY <2>1, <3>4 DEF RescuedDoes, SettleDoes, FinishedAs, FallsBack, StoreKept
      <3> QED BY <1>7, <3>1, <3>2, <3>3, <3>4 DEF ExecutorDoes
    <2> QED BY <2>1, <2>3, <2>4 DEF CandidateKept, Unsettled
  <1> QED BY <1>5, <1>6, <1>7, StoreSteps

\* The work of a forget stays until it succeeds or another network is committed.
LEMMA ForgetWorkKept ==
    ASSUME ControlInv, NetworkDoes, ForgetWork,
           ~CommittedDoes, ~ForgottenDoes
    PROVE  ForgetWork'
  <1>1. Works /\ work \in [Tx -> Work]
    BY DEF ControlInv, ControlTypes, ControlTypeOK
  <1>2. PICK f \in Tx : work[f].kind = "forget"
    BY DEF ForgetWork
  <1>3. CASE Quiet
    BY <1>2, <1>3 DEF Quiet, ForgetWork
  <1>4. CASE Accepting
    <2>1. PICK t \in Tx, w \in Work : t \notin used /\ AcceptedAs(t, w)
      BY <1>4 DEF Accepting, Accepts
    <2>2. f # t
      BY <1>1, <1>2, <2>1, NoWorkIs DEF Works, None
    <2> QED BY <1>2, <2>1, <2>2 DEF AcceptedAs, ForgetWork
  <1>5. CASE ExecutorDoes
    <2>1. \A x \in Tx : work'[x] = work[x]
      BY <1>5 DEF ExecutorDoes, LockDoes, PrepareDoes, RescueDoes, ActivateDoes, CommitDoes,
         RescuedDoes, ForgetRescueDoes, QuarantineDoes, UnlinkDoes, PurgeDoes, FallbackDoes,
         SettleDoes, AnnounceDoes, UnlocksDoes, StoreKept, StagedTo, FinishedAs, FallsBack
    <2> QED BY <1>2, <2>1 DEF ForgetWork
  <1> QED BY <1>3, <1>4, <1>5, StoreSteps

\* Every step keeps the record of a verified network usable.
LEMMA UsableKept ==
    ASSUME ControlInv, NetworkDoes
    PROVE  Usable'
  <1>1. /\ Usable /\ NoCliYet /\ DiskTypes /\ LockHeld /\ Commanded /\ FirstCli /\ Steps /\ Works
        /\ Identities /\ exec \in Execs /\ work \in [Tx -> Work]
        /\ verified \in BOOLEAN /\ stored \in BOOLEAN /\ req \in Reqs
    BY DEF ControlInv, ControlTypes, ControlTypeOK
  <1> DEFINE usable == clis <= 1 /\ (verified \/ (~stored /\ lkg # None))
                       => lkg \in profiles \/ ForgetWork
             early == ~stored => main \in {"down", "init"} /\ exec = NoExec /\ used = {}
  <1>2. usable /\ early
    BY <1>1 DEF Usable
  <1>3. early'
    <2>1. CASE ExecutorDoes
      BY <1>1, <1>2, <2>1, ExecutorGoesOn
    <2>2. CASE BootInit
      BY <1>2, <2>2 DEF BootInit, Die
    <2>3. CASE ~ExecutorDoes /\ ~BootInit
      <3> SUFFICES ASSUME ~stored' PROVE (main \in {"down", "init"} /\ exec = NoExec /\ used = {})'
        OBVIOUS
      <3>1. ~stored
        BY <2>3 DEF NetworkDoes, BootsDo, Start, BootGoesOn, BootAccepts, Accepts, AcceptedAs,
           BootCleanup, BootStart, ProcessEnds, Reboot, CaptureTakes, CaptureReleases, RequestsDo,
           DirectDoes, ApplyDoes, PrepareRequestDoes, ReplayDoes, RespondDoes, ReleaseDoes,
           WorkerDoes, EndDoes, SubmitDoes, IdleDoes, WorldDoes, RecordsKept
      <3>2. main \in {"down", "init"} /\ exec = NoExec /\ used = {} /\ req = NoReq
        BY <1>1, <1>2, <3>1 DEF LockHeld
      <3> QED BY <2>3, <3>2, ReqFields DEF NetworkDoes, BootsDo, Start, BootGoesOn,
         BootAccepts, BootCleanup, BootStart, ProcessEnds, Reboot, ForgetProcess, Die, CaptureTakes,
         CaptureReleases, RequestsDo, DirectDoes, ApplyDoes, PrepareRequestDoes, ReplayDoes,
         RespondDoes, ReleaseDoes, WorkerDoes, EndDoes, SubmitDoes, IdleDoes, WorldDoes,
         RecordsKept
    <2> QED BY <2>1, <2>2, <2>3
  <1>4. usable'
    <2> SUFFICES ASSUME clis' <= 1, verified' \/ (~stored' /\ lkg' # None)
                 PROVE  lkg' \in profiles' \/ ForgetWork'
      OBVIOUS
    <2>1. clis <= 1
      <3>1. CASE WorldDoes
        BY <1>1, <3>1, CliDoes DEF WorldDoes, LinkDrops, CliStarts, CliWorks, DiskTypes
      <3>2. CASE ~WorldDoes
        BY <3>2, CliAlone
      <3> QED BY <3>1, <3>2
    <2>2. CASE ExecutorDoes
      <3>1. stored /\ stored' = stored /\ exec.id \in Tx
        BY <1>1, <1>2, <2>2, ExecutorGoesOn
      <3>2. verified'
        BY <3>1
      <3>3. CASE CommittedDoes
        <4>1. CASE FallsBack
          BY <1>2, <2>1, <3>2, <3>3, <4>1 DEF CommittedDoes, FallsBack, StoreKept, DiskKept,
                                              ForgetWork
        <4>2. CASE ~FallsBack
          <5>1. work[exec.id].mode = "wifi" /\ UNCHANGED <<lkg, profiles>>
            BY <3>2, <3>3, <4>2 DEF CommittedDoes, DiskKept
          <5>2. work[exec.id].kind # "rescue"
            BY <1>1, <3>1, <5>1 DEF Works
          <5>3. lkg \in profiles
            BY <1>1, <3>3, <5>2 DEF Steps, CommittedDoes
          <5> QED BY <5>1, <5>3
        <4> QED BY <4>1, <4>2
      <3>4. CASE ForgottenDoes
        BY <1>2, <2>1, <3>2, <3>4 DEF ForgottenDoes, FallsBack, StoreKept, DiskKept, ForgetWork
      <3>5. CASE QuarantineDoes \/ UnlinkDoes \/ PurgeDoes
        <4>1. ForgetWork /\ work' = work
          BY <1>1, <3>1, <3>5 DEF QuarantineDoes, UnlinkDoes, PurgeDoes, Steps, Forgetting,
                                  ForgetWork, StoreKept
        <4> QED BY <4>1 DEF ForgetWork
      <3>6. CASE CommitDoes
        <4>1. work[exec.id].cand \in profiles /\ verified' = verified /\ work' = work
          BY <1>1, <3>6 DEF CommitDoes, Steps, StoreKept
        <4>2. CASE UNCHANGED <<lkg, profiles>>
          BY <1>2, <2>1, <3>2, <4>1, <4>2 DEF ForgetWork
        <4>3. CASE lkg' = work[exec.id].cand
                   /\ profiles \cap {work[exec.id].cand} \subseteq profiles'
          BY <4>1, <4>3
        <4> QED BY <3>6, <4>2, <4>3 DEF CommitDoes
      <3>7. CASE ~CommittedDoes /\ ~ForgottenDoes /\ ~QuarantineDoes /\ ~UnlinkDoes /\ ~PurgeDoes
                 /\ ~CommitDoes
        <4>1. UNCHANGED <<verified, lkg, profiles>>
          BY <2>2, <3>7 DEF ExecutorDoes, LockDoes, PrepareDoes, RescueDoes, ActivateDoes,
             RescuedDoes, ForgetRescueDoes, FallbackDoes, SettleDoes, AnnounceDoes, UnlocksDoes,
             DiskKept, StoreKept, WishKept, FallsBack
        <4> QED BY <1>2, <2>1, <3>2, <3>7, <4>1, ForgetWorkKept
      <3> QED BY <3>3, <3>4, <3>5, <3>6, <3>7
    <2>3. ExecutorDoes \/ (~CommittedDoes /\ ~ForgottenDoes)
      BY DEF ExecutorDoes
    <2>4. CASE BootInit
      <3>1. work' = work
        BY <2>4 DEF BootInit
      <3>2. CASE lkg' = "factory" /\ profiles' = profiles \cup {"factory"}
        BY <3>2
      <3>3. CASE ~(lkg' = "factory" /\ profiles' = profiles \cup {"factory"})
        <4>1. UNCHANGED <<lkg, profiles>> /\ (verified' => verified \/ (~stored /\ lkg # None))
              /\ (~stored' => ~stored)
          BY <2>4, <3>3 DEF BootInit
        <4> QED BY <1>2, <2>1, <3>1, <4>1 DEF ForgetWork
      <3> QED BY <3>2, <3>3
    <2>5. CASE WorldDoes
      <3>1. UNCHANGED <<verified, stored, work>>
        BY <2>5 DEF WorldDoes
      <3>2. CASE CliNext
        <4>1. CASE lkg \in profiles \/ lkg' # lkg
          BY <1>1, <3>2, <4>1, FirstCliSpares
        <4>2. CASE lkg \notin profiles /\ lkg' = lkg
          BY <1>2, <2>1, <3>1, <4>2 DEF ForgetWork
        <4> QED BY <4>1, <4>2
      <3>3. CASE LinkDrops
        BY <1>2, <2>1, <3>1, <3>3 DEF ForgetWork, LinkDrops
      <3> QED BY <2>5, <3>2, <3>3 DEF WorldDoes
    <2>6. CASE ~ExecutorDoes /\ ~BootInit /\ ~WorldDoes
      <3>1. lkg' = lkg /\ (verified' => verified) /\ stored' = stored
        <4>1. CASE BootAccepts \/ SubmitDoes \/ (\E k \in Key : DirectDoes(k))
                   \/ (ApplyDoes /\ \E w \in Work : Accepts(req.tx, w))
          <5>1. lkg' = lkg
            BY <4>1 DEF BootAccepts, SubmitDoes, DirectDoes, ApplyDoes, DiskSame
          <5>2. PICK t \in Tx, w \in Work : Accepts(t, w)
            BY <4>1 DEF BootAccepts, SubmitDoes, DirectDoes, ApplyDoes
          <5>3. verified' \in {verified, FALSE}
            BY <5>2 DEF Accepts
          <5>4. stored' = stored
            BY <5>2 DEF Accepts, AcceptedAs
          <5>5. verified' => verified
            <6>1. CASE verified' = verified
              BY <6>1
            <6>2. CASE verified' = FALSE
              BY <6>2
            <6> QED BY <5>3, <6>1, <6>2
          <5> QED BY <5>1, <5>4, <5>5
        <4>2. CASE EndDoes \/ WorkerDoes \/ IdleDoes \/ RespondDoes \/ ReleaseDoes
                   \/ (\E k \in Key : PrepareRequestDoes(k) \/ ReplayDoes(k))
                   \/ (ApplyDoes /\ RecordsKept)
          BY <4>2 DEF EndDoes, WorkerDoes, IdleDoes, RespondDoes, ReleaseDoes, PrepareRequestDoes,
             ReplayDoes, ApplyDoes, RecordsKept, StoreKept, DiskSame, DiskKept
        <4>3. CASE Start \/ BootGoesOn \/ BootCleanup \/ BootStart \/ ProcessEnds \/ Reboot
                   \/ CaptureTakes \/ CaptureReleases
          BY <4>3 DEF Start, BootGoesOn, BootCleanup, BootStart, ProcessEnds, Reboot, CaptureTakes,
             CaptureReleases, DiskSame
        <4> QED BY <2>6, <4>1, <4>2, <4>3 DEF NetworkDoes, BootsDo, RequestsDo, ApplyDoes
      <3>2. lkg \in profiles \/ ForgetWork
        BY <1>2, <2>1, <3>1
      <3>3. ForgetWork => ForgetWork'
        BY <2>3, <2>6, ForgetWorkKept
      <3>4. lkg \in profiles => lkg \in profiles'
        <4>1. CASE BootCleanup
          BY <1>1, <4>1, NetNames DEF BootCleanup, Referenced, DiskTypes
        <4>2. CASE ApplyDoes
          <5>1. lkg # req.tx
            BY <1>1, <4>2, NetNames, NamesApart DEF ApplyDoes, Identities
          <5> QED BY <4>2, <5>1 DEF ApplyDoes
        <4>3. CASE ~BootCleanup /\ ~ApplyDoes
          BY <2>6, <4>3 DEF NetworkDoes, BootsDo, Start, BootGoesOn, BootAccepts,
             BootStart, ProcessEnds, Reboot, CaptureTakes, CaptureReleases, RequestsDo,
             DirectDoes, PrepareRequestDoes, ReplayDoes, RespondDoes, ReleaseDoes,
             WorkerDoes, EndDoes, SubmitDoes, IdleDoes, DiskSame, DiskKept
        <4> QED BY <4>1, <4>2, <4>3
      <3> QED BY <3>1, <3>2, <3>3, <3>4
    <2> QED BY <2>2, <2>4, <2>5, <2>6
  <1> QED BY <1>3, <1>4 DEF Usable

-----------------------------------------------------------------------------
(* The theorems *)

\* The invariant holds at installation.
LEMMA ControlInvStarts == NetworkInit => ControlInv
  <1> SUFFICES ASSUME NetworkInit PROVE ControlInv
    OBVIOUS
  <1> USE DEF NetworkInit, ProfilesInit, ControlInit
  <1>1. DiskTypes
    BY CliNever, NoJournalIs DEF DiskTypes, Profile, Holder
  <1>2. ControlTypes
    BY NothingRuns, NoWorkIs DEF ControlTypes, ControlTypeOK, DesiredState
  <1>3. LockHeld
    BY NothingRuns DEF LockHeld, None
  <1>4. Executing /\ Threads
    BY NothingRuns DEF Executing, Threads, Ran, None
  <1>5. Identities
    BY NothingRuns, NoWorkIs DEF Identities, None
  <1>6. Works
    BY NoWorkIs DEF Works, None
  <1>7. Steps
    BY NothingRuns DEF Steps, Ran, Forgetting, None
  <1>8. Answers
    BY DEF Answers, Unanswered
  <1>9. NoCliYet
    BY NothingRuns, NoWorkIs, NetNames DEF NoCliYet
  <1>10. Commanded /\ FirstCli
    BY DEF Commanded, FirstCli, NoCli, None
  <1>11. Usable
    BY DEF Usable
  <1>12. ReleasedIsQueued
    BY DEF ReleasedIsQueued
  <1>13. CandidateKept
    BY NothingRuns DEF CandidateKept, Unsettled, None
  <1> QED BY <1>1, <1>2, <1>3, <1>4, <1>5, <1>6, <1>7, <1>8, <1>9, <1>10, <1>11, <1>12, <1>13
          DEF ControlInv

\* Every step keeps the invariant.
LEMMA ControlStep == ControlInv /\ [NetworkNext]_networkVars => ControlInv'
  <1>1. ASSUME ControlInv, NetworkNext PROVE ControlInv'
    <2>1. NetworkDoes
      BY <1>1, NetworkEffects DEF ControlInv
    <2> QED BY <1>1, <2>1, DiskTypesKept, ControlTypesKept, LockHeldKept, ExecutingKept,
               ThreadsKept, IdentitiesKept, WorksKept, StepsKept, AnswersKept, NoCliYetKept, CommandedAlways,
               FirstCliAlways, UsableKept, ReleasedIsQueuedKept, CandidateKeptAlways
            DEF ControlInv
  <1>2. ASSUME ControlInv, UNCHANGED networkVars PROVE ControlInv'
    BY <1>2 DEF networkVars, ControlInv, DiskTypes, ControlTypes, ControlTypeOK, LockHeld,
       Executing, Ran, Threads, Identities, Works, Steps, Answers, Unanswered, NoCliYet, Commanded,
       FirstCli, Usable, ForgetWork, ReleasedIsQueued, CandidateKept, Unreferenced, Referenced
  <1> QED BY <1>1, <1>2

\* At every step of the control process, the command line tool, a crash or a reboot, the
\* parts of the invariant hold together.
THEOREM ControlInvariant == NetworkSpec => []ControlInv
  BY ControlInvStarts, ControlStep, PTL DEF NetworkSpec

\* The profiles, the store and the process are always of their types.
THEOREM NetworkTypesCorrect == NetworkSpec => [](ProfilesTypeOK /\ ControlTypeOK)
  <1>1. ControlInv => ProfilesTypeOK /\ ControlTypeOK
    BY DEF ControlInv, DiskTypes, ControlTypes, ProfilesTypeOK
  <1> QED BY <1>1, ControlInvariant, PTL

\* What becomes of a transaction that was accepted: the network is left alone until its reply
\* is written (AnswerBeforeChange), once released (release_response, start) it stays queued or
\* executed unless its end could not be written, and a worker that died strands no other, whatever
\* boots, crashes, requests, commands and failed writes do.
THEOREM HonestCorrect == NetworkSpec => []TransactionHonest
  <1>1. ControlInv => TransactionHonest
    BY DEF ControlInv, TransactionHonest, Answers, Unanswered, AnswerBeforeChange, Threads,
       DeadWorkerHoldsNone
  <1> QED BY <1>1, ControlInvariant, PTL

\* No cleanup, recovery, forget or crash takes away a profile that the record of a verified
\* network or a work still needs.
THEOREM ProfilesKeptCorrect == NetworkSpec => []ProfilesKept
  <1>1. ControlInv => ProfilesKept
    BY DEF ControlInv, ProfilesKept, Usable, SavedNetworkUsable, ForgetWork
  <1> QED BY <1>1, ControlInvariant, PTL

\* Nothing writes the profiles while the capture holds the operation lock.
LEMMA CaptureStep ==
    ASSUME ControlInv, NetworkDoes, opLock = "capture", opLock' = "capture"
    PROVE  UNCHANGED profileVars /\ (link' = link \/ link' = None)
  <1>1. /\ LockHeld /\ DiskTypes /\ Commanded /\ exec \in Execs /\ req \in Reqs
    BY DEF ControlInv, ControlTypes
  <1>2. CASE ExecutorDoes
    <2>1. exec.by \in {"worker", "boot"}
      BY <1>1, <1>2, ExecutorGoesOn
    <2>2. opLock \notin {None, exec.by}
      BY <2>1 DEF None
    <2> QED BY <1>1, <1>2, <2>2, ExecutorUnlocked, ExecutorGoesOn DEF DiskKept
  <1>3. CASE WorldDoes
    BY <1>1, <1>3, CliDoes DEF WorldDoes, LinkDrops, CliStarts, CliWorks, LockHeld, None
  <1>4. CASE ~WorldDoes /\ ~ExecutorDoes
    BY <1>1, <1>4 DEF NetworkDoes, BootsDo, Start, BootInit, BootGoesOn, BootAccepts,
       BootCleanup, BootStart, ProcessEnds, Reboot, CaptureTakes, CaptureReleases, RequestsDo,
       DirectDoes, ApplyDoes, PrepareRequestDoes, ReplayDoes, RespondDoes, ReleaseDoes,
       WorkerDoes, SubmitDoes, IdleDoes, EndDoes, DiskSame, DiskKept, None, LockHeld
  <1> QED BY <1>2, <1>3, <1>4

\* While a capture holds the operation lock (shared with network_control through
\* _operation_lock) no step changes the network's profiles or brings another link up.
THEOREM CaptureUndisturbedCorrect == NetworkSpec => CaptureUndisturbed
  <1>1. ASSUME ControlInv, NetworkNext
        PROVE  opLock = "capture" /\ opLock' = "capture"
               => UNCHANGED profileVars /\ (link' = link \/ link' = None)
    <2>1. NetworkDoes
      BY <1>1, NetworkEffects DEF ControlInv
    <2> QED BY <1>1, <2>1, CaptureStep
  <1>2. ControlInv /\ [NetworkNext]_networkVars
        => [opLock = "capture" /\ opLock' = "capture"
            => UNCHANGED profileVars /\ (link' = link \/ link' = None)]_networkVars
    BY <1>1
  <1> QED BY <1>2, ControlInvariant, PTL DEF NetworkSpec, CaptureUndisturbed

=============================================================================
