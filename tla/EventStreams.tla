----------------------------- MODULE EventStreams ------------------------------
(***************************************************************************)
(* The capture event stream: the coordinator's revision and recording      *)
(* progress, the CaptureEventPump thread that samples them (daemon.py), the*)
(* bounded EventReplayBuffer (events.py) and the SSE readers of the gateway*)
(* that follow it, break off and come back with a Last-Event-ID.           *)
(*                                                                         *)
(* An event keeps its delivery identity, revision, session, kind and       *)
(* resync mark; its payload and the API version it is projected to are     *)
(* left out.  Session 0 stands for "nothing is being recorded".            *)
(***************************************************************************)
EXTENDS Naturals, Sequences

CONSTANTS
    Client,            \* SSE readers of capture events
    Window,            \* events kept for replay (128 in the code)
    MaxRevision,       \* bound: state changes of a behaviour
    MaxTicks           \* bound: progress samples of one recording

ASSUME WindowAssumption == Window \in Nat \ {0} /\ MaxRevision \in Nat /\ MaxTicks \in Nat

VARIABLES
    source,            \* coordinator: [revision, session, ticks]
    pump,              \* the pump thread: [at, sample]
    lastSource,        \* pump: revision last published
    lastProgress,      \* pump: progress key last published
    events,            \* buffer: events kept, oldest first
    nextEvent,         \* buffer: next delivery identity
    reader,            \* reader: "off" or "on", whether its stream is open
    cursor,            \* reader: delivery identity it saw last, 0 for none
    took               \* reader: [from, batch], its last delivery

coordinatorVars == <<source>>
pumpVars == <<pump, lastSource, lastProgress>>
bufferVars == <<events, nextEvent>>
readerVars == <<reader, cursor, took>>
streamVars == <<coordinatorVars, pumpVars, bufferVars, readerVars>>

ProgressKey(s) == <<s.revision, s.session, s.ticks>>

Unseen == [revision |-> 0, session |-> 0, kind |-> "none", resync |-> FALSE, id |-> 0]

StreamInit ==
    /\ source = [revision |-> 1, session |-> 0, ticks |-> 0]
    /\ pump = [at |-> "wait", sample |-> source]
    /\ lastSource = source.revision
    /\ lastProgress = ProgressKey(source)
    /\ events = <<>>
    /\ nextEvent = 1
    /\ reader = [c \in Client |-> "off"]
    /\ cursor = [c \in Client |-> 0]
    /\ took = [c \in Client |-> [from |-> Unseen, batch |-> <<>>]]

-----------------------------------------------------------------------------
(* The coordinator: every state change takes a new revision; a recording    *)
(* moves its progress within one.                                           *)

StateChange ==
    /\ source.revision < MaxRevision
    /\ \E s \in {source.session, 0, source.revision + 1} :
         source' = [revision |-> source.revision + 1, session |-> s,
                    ticks |-> IF s = source.session THEN source.ticks ELSE 0]
    /\ UNCHANGED <<pumpVars, bufferVars, readerVars>>

Progress ==
    /\ source.session # 0
    /\ source.ticks < MaxTicks
    /\ source' = [source EXCEPT !.ticks = @ + 1]
    /\ UNCHANGED <<pumpVars, bufferVars, readerVars>>

-----------------------------------------------------------------------------
(* The replay buffer.                                                       *)

Event(kind, s, resync) ==
    [id |-> nextEvent, revision |-> s.revision, session |-> s.session,
     kind |-> kind, resync |-> resync]

Keep(e) ==
    LET log == Append(events, e)
    IN  IF Len(log) > Window THEN Tail(log) ELSE log

Publish(e) ==
    /\ events' = Keep(e)
    /\ nextEvent' = nextEvent + 1

(* Whether an event may follow another without a snapshot in between. *)
Succeeds(prev, e) ==
    \/ e.resync
    \/ e.kind = "progress" /\ e.revision = prev.revision /\ e.session = prev.session
    \/ e.revision = prev.revision + 1

Contiguous_SkipsCursor(log) == \A i \in 2 .. Len(log) - 1 : Succeeds(log[i], log[i + 1])

Contiguous(log) == \A i \in 1 .. Len(log) - 1 : Succeeds(log[i], log[i + 1])

(* The position in the buffer of the event a reader saw last, or 0. *)
Position(id) ==
    IF events = <<>> \/ id < events[1].id \/ id > events[Len(events)].id
      THEN 0 ELSE id - events[1].id + 1

(* Whether the buffer continues what a reader saw last without a gap: a     *)
(* reader that it does not continue is given a snapshot of the present state.*)
Continues(id) ==
    LET p == Position(id)
    IN  p # 0 /\ Contiguous(SubSeq(events, p, Len(events)))

EventsAfter(id) == SubSeq(events, Position(id) + 1, Len(events))

-----------------------------------------------------------------------------
(* The pump: a first sample under the coordinator's lock, a second one for   *)
(* the snapshot, and a publication later still.                              *)

PumpRead ==
    /\ pump.at = "wait"
    /\ pump' = [at |-> IF source.revision # lastSource \/ source.session = 0
                         THEN "changed" ELSE "progress",
                sample |-> source]
    /\ UNCHANGED <<coordinatorVars, lastSource, lastProgress, bufferVars, readerVars>>

PumpSnapshot ==
    /\ pump.at = "changed"
    /\ pump' = [at |-> IF source.revision # lastSource THEN "publish" ELSE "progress",
                sample |-> source]
    /\ UNCHANGED <<coordinatorVars, lastSource, lastProgress, bufferVars, readerVars>>

(* An event that fails its validation is reported and sampled again. *)
PumpRejected ==
    /\ pump.at \in {"publish", "progress"}
    /\ pump' = [pump EXCEPT !.at = "wait"]
    /\ UNCHANGED <<coordinatorVars, lastSource, lastProgress, bufferVars, readerVars>>

PumpPublish ==
    /\ pump.at = "publish"
    /\ Publish(Event("snapshot", pump.sample, FALSE))
    /\ lastSource' = pump.sample.revision
    /\ lastProgress' = ProgressKey(pump.sample)
    /\ pump' = [pump EXCEPT !.at = "wait"]
    /\ UNCHANGED <<coordinatorVars, readerVars>>

(* Progress is thinned by time, so a new key may also wait for a later poll. *)
PumpProgress ==
    /\ pump.at = "progress"
    /\ pump.sample.session # 0
    /\ ProgressKey(pump.sample) # lastProgress
    /\ Publish(Event("progress", pump.sample, FALSE))
    /\ lastProgress' = ProgressKey(pump.sample)
    /\ pump' = [pump EXCEPT !.at = "wait"]
    /\ UNCHANGED <<coordinatorVars, lastSource, readerVars>>

-----------------------------------------------------------------------------
(* The readers.                                                             *)

(* The reader receives a prefix of what is written to it: the connection    *)
(* may break in the middle.  A stream that breaks keeps its cursor.         *)
Receive(c, batch) ==
    \E n \in 0 .. Len(batch) :
      /\ reader' = [reader EXCEPT ![c] = IF n = Len(batch) THEN "on" ELSE "off"]
      /\ cursor' = [cursor EXCEPT ![c] = IF n = 0 THEN @ ELSE batch[n].id]
      /\ took' = IF n = 0 THEN took
                 ELSE [took EXCEPT ![c] =
                        [from |-> IF @.batch = <<>> THEN Unseen ELSE @.batch[Len(@.batch)],
                         batch |-> SubSeq(batch, 1, n)]]

Resync(c) ==
    LET e == Event("snapshot", source, TRUE)
    IN  Publish(e) /\ Receive(c, <<e>>)

(* replay: a reader opens its stream, with or without a Last-Event-ID. *)
ReplayStream(c) ==
    /\ reader[c] = "off"
    /\ \/ /\ ~(cursor[c] # 0 /\ Continues(cursor[c]))
          /\ Resync(c)
       \/ /\ cursor[c] # 0 /\ Continues(cursor[c])
          /\ Receive(c, EventsAfter(cursor[c]))
          /\ UNCHANGED bufferVars
    /\ UNCHANGED <<coordinatorVars, pumpVars>>

(* wait_after: an open stream is woken by new events. *)
WaitAfter(c) ==
    /\ reader[c] = "on"
    /\ \/ ~Continues(cursor[c]) /\ Resync(c)
       \/ /\ Continues(cursor[c])
          /\ EventsAfter(cursor[c]) # <<>>
          /\ Receive(c, EventsAfter(cursor[c]))
          /\ UNCHANGED bufferVars
    /\ UNCHANGED <<coordinatorVars, pumpVars>>

Disconnect(c) ==
    /\ reader[c] = "on"
    /\ reader' = [reader EXCEPT ![c] = "off"]
    /\ UNCHANGED <<coordinatorVars, pumpVars, bufferVars, cursor, took>>

StreamNext ==
    \/ StateChange \/ Progress
    \/ PumpRead \/ PumpSnapshot \/ PumpRejected \/ PumpPublish \/ PumpProgress
    \/ \E c \in Client : ReplayStream(c) \/ WaitAfter(c) \/ Disconnect(c)

(* nextEvent grows with every reconnection: a bound for the model checker. *)
StreamBound == nextEvent <= MaxRevision + MaxTicks + 2

StreamSpec == StreamInit /\ [][StreamNext]_streamVars

-----------------------------------------------------------------------------
(* Properties.                                                              *)

StreamTypeOK ==
    /\ source \in [revision : 1 .. MaxRevision, session : 0 .. MaxRevision, ticks : 0 .. MaxTicks]
    /\ pump.at \in {"wait", "changed", "progress", "publish"}
    /\ Len(events) <= Window
    /\ \A i \in 1 .. Len(events) : events[i].id = nextEvent - Len(events) + i - 1
    /\ reader \in [Client -> {"off", "on"}]
    /\ \A c \in Client : cursor[c] < nextEvent

(* Whatever the pump publishes late, out of order or not at all, and however *)
(* often a reader breaks off and returns, what the reader applies is a       *)
(* history of the coordinator: it starts with a snapshot, a change without   *)
(* resync is the next revision, progress belongs to the revision and the     *)
(* session the reader already shows, and no snapshot takes it back.          *)
StreamFollowsState ==
    \A c \in Client :
      LET b == took[c].batch
          Before(i) == IF i = 1 THEN took[c].from ELSE b[i - 1]
      IN  \A i \in 1 .. Len(b) :
            /\ Succeeds(Before(i), b[i])
            /\ b[i].revision >= Before(i).revision
            /\ Before(i) = Unseen => b[i].resync

=============================================================================
