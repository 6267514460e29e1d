------------------------------- MODULE HttpEdge --------------------------------
(***************************************************************************)
(* The HTTP edge of the device (gateway.py): the accept thread with its    *)
(* hard cap and reclamation of idle clients, one handler thread for each   *)
(* connection that reads requests, dispatches them and keeps the connection*)
(* alive, the registry of SSE and preview streams with a peer watcher each,*)
(* the admission of session downloads, and shutdown.                       *)
(*                                                                         *)
(* A request is its method class, its route and whether it declares a body;*)
(* what a route answers is the provider's business and left out, but every *)
(* refusal before the provider, and whether it leaves the body unread, is  *)
(* kept.  Time is left out: every timeout may expire.                      *)
(***************************************************************************)
EXTENDS Naturals, Sequences, FiniteSets

CONSTANTS
    Conn,              \* client connections
    MaxHttp,           \* max_http_connections
    MaxDownloads,      \* max_session_downloads
    Slots,             \* streams admitted of each kind
    MaxRequests        \* bound: requests of a behaviour

ASSUME EdgeBounds ==
    /\ MaxHttp \in Nat \ {0} /\ MaxDownloads \in Nat \ {0}
    /\ Slots \in [{"sse", "preview"} -> Nat \ {0}] /\ MaxRequests \in Nat

VARIABLES
    accepting,         \* accept thread: the connection waiting for a place, or {}
    handler,           \* where the handler thread of a connection is
    socket,            \* "open", or "shut" by either side
    request,           \* the request being handled
    unread,            \* connections whose declared body has not been read
    closeAfter,        \* connections whose handler ends after this answer
    http,              \* _http_connections
    reclaimable,       \* keys of _http_reclaimable
    stamps,            \* connections in the order of their reclaim stamps
    yielded,           \* _http_cancelled
    downloads,         \* _session_downloads
    freeSlots,         \* value of each semaphore
    owed,              \* slots of each kind a canceller took and has yet to return
    streams,           \* sessions: [kind, held, cancelled]
    active,            \* sessions in the registry
    down,              \* shutdown: "no", "streams", "closing"
    requestsMade

acceptVars == <<accepting, http, reclaimable, stamps, yielded>>
handlerVars == <<handler, socket, request, unread, closeAfter>>
streamRegistryVars == <<freeSlots, owed, streams, active>>
edgeVars == <<acceptVars, handlerVars, downloads, streamRegistryVars, down, requestsMade>>

NoRequest == [method |-> "none", route |-> "none"]

(* Methods that may carry a body, and the routes of each method. *)
BodyMethod == {"POST", "PUT"}

Request ==
    [method : {"GET"}, route : {"read", "sse", "preview", "artifact", "missing"}]
      \cup [method : {"POST"}, route : {"command", "missing"}]
      \cup [method : {"PUT"}, route : {"missing"}]

NoStream == [kind |-> "none", held |-> FALSE, cancelled |-> FALSE]

Closing == down = "closing"

EdgeInit ==
    /\ accepting = {}
    /\ handler = [c \in Conn |-> "none"]
    /\ socket = [c \in Conn |-> "open"]
    /\ request = [c \in Conn |-> NoRequest]
    /\ unread = {} /\ closeAfter = {}
    /\ http = {} /\ reclaimable = {} /\ stamps = <<>> /\ yielded = {}
    /\ downloads = {}
    /\ freeSlots = Slots
    /\ owed = [k \in DOMAIN Slots |-> 0]
    /\ streams = [c \in Conn |-> NoStream]
    /\ active = {}
    /\ down = "no"
    /\ requestsMade = 0

-----------------------------------------------------------------------------
(* The accept thread: process_request.                                      *)

Stamp(c) == stamps' = Append(SelectSeq(stamps, LAMBDA d : d # c), c)

Goto(c, place) == handler' = [handler EXCEPT ![c] = place]

Admit(c) ==
    /\ http' = http \cup {c}
    /\ reclaimable' = reclaimable \cup {c}
    /\ Stamp(c)
    /\ Goto(c, "loop")
    /\ UNCHANGED <<yielded, socket>>

Refuse(c) ==
    /\ Goto(c, "done")
    /\ socket' = [socket EXCEPT ![c] = "shut"]
    /\ UNCHANGED <<http, reclaimable, stamps, yielded>>

(* The connection that has been idle or incomplete for longest. *)
OldestReclaimable ==
    LET waiting == {i \in 1 .. Len(stamps) : stamps[i] \in reclaimable \ yielded}
    IN  {stamps[i] : i \in {n \in waiting : \A j \in waiting : n <= j}}

AcceptConnection(c) ==
    /\ accepting = {}
    /\ handler[c] = "none"
    /\ \/ /\ ~Closing /\ Cardinality(http) < MaxHttp
          /\ Admit(c) /\ UNCHANGED accepting
       \/ /\ ~Closing /\ Cardinality(http) >= MaxHttp /\ OldestReclaimable # {}
          /\ accepting' = {c}
          /\ yielded' = yielded \cup OldestReclaimable
          /\ socket' = [d \in Conn |-> IF d \in OldestReclaimable THEN "shut" ELSE socket[d]]
          /\ UNCHANGED <<handler, http, reclaimable, stamps>>
       \/ /\ Closing \/ (Cardinality(http) >= MaxHttp /\ OldestReclaimable = {})
          /\ Refuse(c) /\ UNCHANGED accepting
    /\ UNCHANGED <<request, unread, closeAfter, downloads, streamRegistryVars, down, requestsMade>>

(* A place came free, the wait timed out or the server closes. *)
AcceptDecided(c) ==
    /\ c \in accepting
    /\ accepting' = {}
    /\ \/ ~Closing /\ Cardinality(http) < MaxHttp /\ Admit(c)
       \/ (Closing \/ Cardinality(http) >= MaxHttp) /\ Refuse(c)
    /\ UNCHANGED <<request, unread, closeAfter, downloads, streamRegistryVars, down, requestsMade>>

-----------------------------------------------------------------------------
(* The handler thread.                                                      *)

(* _http_finished, in the handler's finally. *)
Finished(c) ==
    /\ handler[c] = "exit"
    /\ Goto(c, "done")
    /\ http' = http \ {c}
    /\ reclaimable' = reclaimable \ {c}
    /\ yielded' = yielded \ {c}
    /\ downloads' = downloads \ {c}
    /\ socket' = [socket EXCEPT ![c] = "shut"]
    /\ stamps' = SelectSeq(stamps, LAMBDA d : d # c)
    /\ request' = [request EXCEPT ![c] = NoRequest]
    /\ unread' = unread \ {c}
    /\ closeAfter' = closeAfter \ {c}
    /\ UNCHANGED <<accepting, streamRegistryVars, down, requestsMade>>

Interrupted(c) == Closing \/ c \in yielded

(* begin_request_input: the wait for the first byte of a request. *)
BeginInput(c) ==
    /\ handler[c] = "loop"
    /\ IF Interrupted(c)
         THEN Goto(c, "exit") /\ UNCHANGED <<reclaimable, stamps>>
         ELSE Goto(c, "peek") /\ reclaimable' = reclaimable \cup {c} /\ Stamp(c)
    /\ UNCHANGED <<accepting, http, yielded, socket, request, unread, closeAfter, downloads,
                   streamRegistryVars, down, requestsMade>>

(* The first byte arrives, or the peer is gone or silent for too long. *)
Peek(c) ==
    /\ handler[c] = "peek"
    /\ \/ Goto(c, "exit") /\ UNCHANGED <<reclaimable, stamps, requestsMade>>
       \/ /\ socket[c] = "open"
          /\ requestsMade < MaxRequests
          /\ requestsMade' = requestsMade + 1
          /\ IF Interrupted(c)
               THEN Goto(c, "exit") /\ UNCHANGED <<reclaimable, stamps>>
               ELSE Goto(c, "header") /\ reclaimable' = reclaimable \cup {c} /\ Stamp(c)
    /\ UNCHANGED <<accepting, http, yielded, socket, request, unread, closeAfter, downloads,
                   streamRegistryVars, down>>

(* parse_request leaves the read deadline: a connection that was made to     *)
(* yield meanwhile, or whose time ran out, ends here.                        *)
HeaderRead(c) ==
    /\ handler[c] = "header"
    /\ reclaimable' = reclaimable \ {c}
    /\ \/ Goto(c, "exit") /\ UNCHANGED <<request, unread, closeAfter>>
       \/ /\ c \notin yielded
          /\ \E r \in Request, body \in BOOLEAN :
               /\ request' = [request EXCEPT ![c] = r]
               /\ unread' = IF body THEN unread \cup {c} ELSE unread
          /\ closeAfter' = closeAfter \ {c}
          /\ Goto(c, "begin")
    /\ UNCHANGED <<accepting, http, stamps, yielded, socket, downloads, streamRegistryVars, down,
                   requestsMade>>

HandlerFrame == UNCHANGED <<acceptVars, socket, request, downloads, streamRegistryVars, down,
                            requestsMade>>

CloseIfUnread_Never(c) == UNCHANGED closeAfter

(* _close_if_request_body_is_unread. *)
CloseIfUnread(c) ==
    closeAfter' = IF request[c].method \in BodyMethod \/ c \in unread
                    THEN closeAfter \cup {c} ELSE closeAfter

(* _begin_request: a malformed target, an encoding, a wrong or an oversized  *)
(* length, or a body where the method takes none, is refused.                *)
BeginRequest(c) ==
    /\ handler[c] = "begin"
    /\ \/ /\ Goto(c, "reply")
          /\ closeAfter' = closeAfter \cup {c}
       \/ /\ c \in unread => request[c].method \in BodyMethod
          /\ Goto(c, "route")
          /\ UNCHANGED closeAfter
    /\ UNCHANGED unread
    /\ HandlerFrame

(* No such route, or a method the device does not support. *)
RouteMissing(c) ==
    /\ handler[c] = "route"
    /\ request[c].route = "missing"
    /\ CloseIfUnread(c)
    /\ Goto(c, "reply")
    /\ UNCHANGED unread
    /\ HandlerFrame

(* _principal: the origin, the credential, the permission or the audit       *)
(* record refuses the request; a command also needs CSRF and a key.          *)
PrincipalRefuses(c) ==
    /\ handler[c] = "route"
    /\ request[c].route # "missing"
    /\ CloseIfUnread(c)
    /\ Goto(c, "reply")
    /\ UNCHANGED unread
    /\ HandlerFrame

PrincipalAdmits(c) ==
    /\ handler[c] = "route"
    /\ request[c].route # "missing"
    /\ Goto(c, CASE request[c].route = "command" -> "readbody"
                 [] request[c].route = "read" -> "command"
                 [] request[c].route = "artifact" -> "admitdownload"
                 [] OTHER -> "admitstream")
    /\ UNCHANGED <<unread, closeAfter>>
    /\ HandlerFrame

(* _read_json: a type or length it does not take is refused unread; then the *)
(* body is read under the request's deadline, reclaimable again.             *)
BodyRefused(c) ==
    /\ handler[c] = "readbody"
    /\ CloseIfUnread(c)
    /\ Goto(c, "reply")
    /\ UNCHANGED unread
    /\ HandlerFrame

BodyBegin(c) ==
    /\ handler[c] = "readbody"
    /\ c \in unread
    /\ IF Interrupted(c)
         THEN /\ Goto(c, "reply") /\ closeAfter' = closeAfter \cup {c}
              /\ UNCHANGED reclaimable
         ELSE /\ Goto(c, "body") /\ reclaimable' = reclaimable \cup {c}
              /\ UNCHANGED closeAfter
    /\ UNCHANGED <<accepting, http, stamps, yielded, socket, request, unread, downloads,
                   streamRegistryVars, down, requestsMade>>

BodyEnd(c) ==
    /\ handler[c] = "body"
    /\ reclaimable' = reclaimable \ {c}
    /\ \/ /\ Goto(c, "reply")
          /\ closeAfter' = closeAfter \cup {c}
          /\ UNCHANGED unread
       \/ /\ c \notin yielded
          /\ unread' = unread \ {c}
          /\ \E bad \in BOOLEAN : Goto(c, IF bad THEN "reply" ELSE "command")
          /\ UNCHANGED closeAfter
    /\ UNCHANGED <<accepting, http, stamps, yielded, socket, request, downloads,
                   streamRegistryVars, down, requestsMade>>

(* The provider answers, refuses or fails; another exception ends the thread. *)
Command(c) ==
    /\ handler[c] = "command"
    /\ \E next \in {"answer", "exit"} : Goto(c, next)
    /\ UNCHANGED <<unread, closeAfter>>
    /\ HandlerFrame

(* The answer is written under the write deadline and the loop goes on, or   *)
(* the connection ends: it is to close, the peer is gone, time ran out.      *)
Answered(c) ==
    /\ handler[c] \in {"reply", "answer"}
    /\ \/ Goto(c, "exit")
       \/ /\ ~Interrupted(c) /\ socket[c] = "open" /\ c \notin closeAfter
          /\ Goto(c, "loop")
    /\ request' = [request EXCEPT ![c] = NoRequest]
    /\ UNCHANGED <<acceptVars, socket, unread, closeAfter, downloads, streamRegistryVars, down,
                   requestsMade>>

-----------------------------------------------------------------------------
(* Session downloads.                                                       *)

DownloadLimit ==
    LET spare == IF MaxHttp > 1 THEN MaxHttp - 1 ELSE 1
    IN  IF MaxDownloads < spare THEN MaxDownloads ELSE spare

(* begin_session_download. *)
AdmitDownload(c) ==
    /\ handler[c] = "admitdownload"
    /\ \/ Goto(c, "answer") /\ UNCHANGED <<downloads, closeAfter>>     \* capture_busy
       \/ /\ ~Interrupted(c) /\ Cardinality(downloads) < DownloadLimit
          /\ downloads' = downloads \cup {c}
          /\ Goto(c, "download")
          /\ UNCHANGED closeAfter
       \/ /\ Interrupted(c) \/ Cardinality(downloads) >= DownloadLimit
          /\ closeAfter' = closeAfter \cup {c}
          /\ Goto(c, "reply")
          /\ UNCHANGED downloads
    /\ UNCHANGED <<acceptVars, socket, request, unread, streamRegistryVars, down, requestsMade>>

(* The representation is sent, refused, or breaks off. *)
DownloadEnd(c) ==
    /\ handler[c] = "download"
    /\ downloads' = downloads \ {c}
    /\ \E next \in {"answer", "exit"} : Goto(c, next)
    /\ UNCHANGED <<acceptVars, socket, request, unread, closeAfter, streamRegistryVars, down,
                   requestsMade>>

-----------------------------------------------------------------------------
(* Streams: the registry, the peer watcher and the handler end a session.    *)

StreamFrame == UNCHANGED <<acceptVars, request, unread, downloads, down, requestsMade>>

(* _StreamRegistry.begin: no slot in time, or no thread for the watcher, is  *)
(* answered with 503; the slot goes back when no session came to own it.     *)
AdmitStream(c) ==
    LET kind == request[c].route
    IN  /\ handler[c] = "admitstream"
        /\ \/ Goto(c, "answer") /\ UNCHANGED streamRegistryVars
           \/ /\ freeSlots[kind] > 0
              /\ freeSlots' = [freeSlots EXCEPT ![kind] = @ - 1]
              /\ streams' = [streams EXCEPT ![c] =
                               [kind |-> kind, held |-> TRUE, cancelled |-> FALSE]]
              /\ active' = active \cup {c}
              /\ UNCHANGED owed
              /\ Goto(c, "stream")
        /\ UNCHANGED <<socket, closeAfter>>
        /\ StreamFrame

(* cancel: the first caller, whoever it is, takes the slot to give it back.  *)
Cancel(c) ==
    IF streams[c].cancelled THEN UNCHANGED <<streams, owed>>
    ELSE /\ streams' = [streams EXCEPT ![c] = [@ EXCEPT !.held = FALSE, !.cancelled = TRUE]]
         /\ owed' = [owed EXCEPT ![streams[c].kind] = @ + 1]

(* The caller that took a slot gives it back outside the session's lock. *)
SlotReturned(k) ==
    /\ owed[k] > 0
    /\ owed' = [owed EXCEPT ![k] = @ - 1]
    /\ freeSlots' = [freeSlots EXCEPT ![k] = @ + 1]
    /\ UNCHANGED <<streams, active, handlerVars>>
    /\ StreamFrame

(* _watch_peer: the peer is gone, or the socket was shut by shutdown. *)
WatchPeer(c) ==
    /\ c \in active /\ ~streams[c].cancelled
    /\ socket[c] = "shut"
    /\ Cancel(c)
    /\ UNCHANGED <<freeSlots, active, handlerVars>>
    /\ StreamFrame

(* The handler is done with its stream: written to the end, broken, refused  *)
(* before its first byte, or cancelled by somebody else.                     *)
StreamEnds(c) ==
    /\ handler[c] = "stream"
    /\ Cancel(c)
    /\ Goto(c, "finish")
    /\ \E refused \in BOOLEAN :
         closeAfter' = IF refused THEN closeAfter ELSE closeAfter \cup {c}
    /\ UNCHANGED <<freeSlots, active, socket>>
    /\ StreamFrame

(* finish: the watcher is joined for a moment and the session forgotten. *)
StreamForgotten(c) ==
    /\ handler[c] = "finish"
    /\ active' = active \ {c}
    /\ streams' = [streams EXCEPT ![c] = NoStream]
    /\ Goto(c, "answer")
    /\ UNCHANGED <<freeSlots, owed, socket, closeAfter>>
    /\ StreamFrame

-----------------------------------------------------------------------------
(* Shutdown, and the peers.                                                 *)

ClientGone(c) ==
    /\ handler[c] \notin {"none", "done"} /\ socket[c] = "open"
    /\ socket' = [socket EXCEPT ![c] = "shut"]
    /\ UNCHANGED <<handler, closeAfter, streamRegistryVars>>
    /\ StreamFrame

(* cancel_all: the sessions of the registry at this moment. *)
ShutdownStreams ==
    LET live == {c \in active : ~streams[c].cancelled}
    IN  /\ down = "no"
        /\ down' = "streams"
        /\ streams' = [c \in Conn |-> IF c \in live
                                        THEN [streams[c] EXCEPT !.held = FALSE, !.cancelled = TRUE]
                                        ELSE streams[c]]
        /\ owed' = [k \in DOMAIN Slots |->
                      owed[k] + Cardinality({c \in live : streams[c].kind = k})]
        /\ socket' = [c \in Conn |-> IF c \in live THEN "shut" ELSE socket[c]]
        /\ UNCHANGED <<acceptVars, handler, request, unread, closeAfter, downloads, freeSlots,
                       active, requestsMade>>

(* _cancel_http_connections. *)
ShutdownConnections ==
    /\ down = "streams"
    /\ down' = "closing"
    /\ socket' = [c \in Conn |-> IF c \in http THEN "shut" ELSE socket[c]]
    /\ UNCHANGED <<acceptVars, handler, request, unread, closeAfter, downloads,
                   streamRegistryVars, requestsMade>>

Handle(c) ==
    \/ AcceptConnection(c) \/ AcceptDecided(c) \/ Finished(c) \/ BeginInput(c) \/ Peek(c)
    \/ HeaderRead(c) \/ BeginRequest(c) \/ RouteMissing(c) \/ PrincipalRefuses(c)
    \/ PrincipalAdmits(c) \/ BodyRefused(c) \/ BodyBegin(c) \/ BodyEnd(c) \/ Command(c)
    \/ Answered(c) \/ AdmitDownload(c) \/ DownloadEnd(c) \/ AdmitStream(c)
    \/ StreamEnds(c) \/ StreamForgotten(c)

EdgeNext ==
    \/ \E c \in Conn : Handle(c) \/ WatchPeer(c) \/ ClientGone(c)
    \/ \E k \in DOMAIN Slots : SlotReturned(k)
    \/ ShutdownStreams \/ ShutdownConnections

EdgeSpec == EdgeInit /\ [][EdgeNext]_edgeVars

-----------------------------------------------------------------------------
(* Properties.                                                              *)

EdgeTypeOK ==
    /\ http \subseteq Conn /\ reclaimable \subseteq http /\ yielded \subseteq http
    /\ downloads \subseteq http /\ unread \subseteq Conn /\ closeAfter \subseteq Conn
    /\ socket \in [Conn -> {"open", "shut"}]
    /\ down \in {"no", "streams", "closing"}

(* However the request was refused, a connection kept alive has no body left *)
(* in front of its next request.                                             *)
UnreadBodyCloses ==
    \A c \in Conn : handler[c] \in {"loop", "peek", "header"} => c \notin unread

(* A connection is never taken from a command, a download or a stream, nor   *)
(* from the answer to one, to make room for another client.                  *)
CommandUninterrupted ==
    \A c \in Conn : handler[c] \in {"command", "answer", "download", "stream"} => c \notin yielded

(* Every stream slot is in the semaphore, with one session or on its way     *)
(* back, and a handler that ended or waits for its next request keeps        *)
(* neither a slot, a download nor a session.                                 *)
SlotsReturned ==
    /\ \A k \in DOMAIN Slots :
         freeSlots[k] + owed[k]
           + Cardinality({c \in Conn : streams[c].kind = k /\ streams[c].held}) = Slots[k]
    /\ \A c \in Conn : handler[c] \in {"loop", "done"} =>
         c \notin downloads /\ c \notin active /\ ~streams[c].held

(* Connections, streams and downloads are kept apart and given back          *)
(* (gateway.py: the handler loop, the stream registry, download admission).  *)
EdgeSafe == UnreadBodyCloses /\ CommandUninterrupted /\ SlotsReturned

=============================================================================
