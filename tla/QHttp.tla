-------------------------------- MODULE QHttp --------------------------------
(***************************************************************************)
(* class QHttp (qhttp.cpp) on top of a QTcpSocket, as a record and the     *)
(* effects its methods and slots have on it. A client has one connection   *)
(* and a list of requests, of which the first is being executed: to get    *)
(* something, of some kind, or to close the connection. Its slots are      *)
(* called by the socket, or posted to the event loop, which is "posted".   *)
(*                                                                         *)
(* The signal done is the field "done", which the user of a client handles *)
(* at the end of the step; in the source its slot is called a little       *)
(* earlier, but the user's slot adds no request after an error and nothing *)
(* follows the signal after a success. The signal requestFinished is       *)
(* connected to nothing. Only the server's challenge to authenticate is    *)
(* modelled, as no user name is ever set, and no proxy, TLS or POST.       *)
(***************************************************************************)
EXTENDS Integers, Sequences

Close == "Close"  \* the request of close()
None  == "None"

State == {"Unconnected", "Connecting", "Sending", "Reading", "Connected", "Closing"}

HttpType(Kind) ==
    [state : State,
     pending : Seq(Kind \cup {Close}),
     posted : Seq({"StartNextRequest", "SendRequest", "DoFinished"}),
     socket : {"Unconnected", "Connecting", "Connected"},
     open : BOOLEAN,                      \* isOpen() of the socket
     reconnectAttempts : -1..2,
     header : Kind \cup {None},           \* the request last started
     asked : BOOLEAN,                     \* sent, and not yet answered
     rba : Kind \cup {None},              \* what the bytes read answer
     whole : BOOLEAN,                     \* all of the answer has been read
     sized : BOOLEAN,                     \* the response has a content length
     method : {None, "Given", "Ntlm"},    \* of the authenticator
     phase : {"Start", "Done", "Invalid"},
     done : {None, "success", "error"}]

\* The constructor and init.
NewHttp ==
    [state |-> "Unconnected", pending |-> <<>>, posted |-> <<"DoFinished">>,
     socket |-> "Unconnected", open |-> FALSE, reconnectAttempts |-> 2,
     header |-> None, asked |-> FALSE, rba |-> None, whole |-> FALSE,
     sized |-> FALSE, method |-> None, phase |-> "Start", done |-> None]

Post(h, slot) == [h EXCEPT !.posted = Append(@, slot)]

----------------------------------------------------------------------------
(* The end of a request and of a connection.                               *)

\* finishedWithError: all requests are given up.
FinishedWithError(h) ==
    IF h.pending = <<>> THEN h ELSE [h EXCEPT !.pending = <<>>, !.done = "error"]

\* _q_slotClosed, for disconnected().
SlotClosed(h) ==
    LET early == \/ h.state = "Reading" /\ h.sized /\ ~h.whole
                 \/ h.state \in {"Connecting", "Sending"}
    IN  Post([(IF early THEN FinishedWithError(h) ELSE h) EXCEPT !.state = "Closing"],
             "DoFinished")

\* close() or abort() of the socket with its signals blocked.
SocketClosedQuietly(h) ==
    [h EXCEPT !.socket = "Unconnected", !.open = FALSE, !.asked = FALSE]

\* close() or abort() of the socket: a connection is closed at once.
SocketClosed(h) ==
    LET c == SocketClosedQuietly(h)
    IN  IF h.socket = "Connected" THEN SlotClosed(c) ELSE c

\* After error() the socket announces disconnected() if it has not yet.
SocketGone(h) ==
    IF h.socket = "Connected"
    THEN SlotClosed([h EXCEPT !.socket = "Unconnected", !.asked = FALSE])
    ELSE h

\* closeConn.
CloseConn(h) ==
    LET c == [h EXCEPT !.state = "Closing"]
    IN  CASE h.state \in {"Closing", "Unconnected"} -> h
          [] h.state \notin {"Closing", "Unconnected"} /\ ~h.open -> Post(c, "DoFinished")
          [] OTHER -> SocketClosed(c)

----------------------------------------------------------------------------
(* The start of a request.                                                 *)

\* _q_slotConnected: the request is written.
SlotConnected(h) == [h EXCEPT !.state = "Sending", !.asked = TRUE]

\* _q_slotSendRequest: over the connection there is, or over a new one.
SendRequest(h) ==
    LET a == IF h.method = None THEN h ELSE [h EXCEPT !.phase = "Done"]
    IN  IF h.socket = "Connected" THEN SlotConnected(a)
        ELSE [SocketClosedQuietly(a) EXCEPT
                !.state = "Connecting", !.socket = "Connecting", !.open = TRUE]

\* start of a request: QHttpCloseRequest and QHttpNormalRequest.
Start(h, r) ==
    IF r = Close THEN CloseConn(h)
    ELSE SendRequest([h EXCEPT !.header = r, !.reconnectAttempts = 2])

\* readAll, which leaves nothing behind.
ReadAll(h) == [h EXCEPT !.rba = None]

\* Seeded fault: what the last request has read is kept.
StartNextRequestKeepsBytes(h) ==
    IF h.pending = <<>> THEN h ELSE Start(h, Head(h.pending))

\* _q_startNextRequest.
StartNextRequest(h) ==
    IF h.pending = <<>> THEN h
    ELSE Start([ReadAll(h) EXCEPT !.whole = FALSE], Head(h.pending))

\* addRequest.
AddRequest(h, r) ==
    LET a == [h EXCEPT !.pending = Append(@, r)]
    IN  IF Len(a.pending) = 1 THEN Post(a, "StartNextRequest") ELSE a

\* get and close.
AddGet(h, kind) == AddRequest(h, kind)
AddClose(h)     == AddRequest(h, Close)

\* finishedWithSuccess: of the first request; then the next.
FinishedWithSuccess(h) ==
    LET t == [h EXCEPT !.pending = Tail(@)]
    IN  CASE h.pending = <<>> -> h
          [] Len(h.pending) = 1 -> [t EXCEPT !.done = "success"]
          [] OTHER -> StartNextRequest(t)

\* _q_slotDoFinished.
DoFinished(h) ==
    CASE h.state = "Connected"   -> FinishedWithSuccess(h)
      [] h.state = "Unconnected" -> h
      [] OTHER -> FinishedWithSuccess([h EXCEPT !.state = "Unconnected"])

\* The event loop calls the slot that was posted first.
RunPosted(h) ==
    LET t == [h EXCEPT !.posted = Tail(@)]
    IN  CASE Head(h.posted) = "StartNextRequest" -> StartNextRequest(t)
          [] Head(h.posted) = "SendRequest"      -> SendRequest(t)
          [] Head(h.posted) = "DoFinished"       -> DoFinished(t)

\* clearPendingRequests: all but the first.
ClearPendingRequests(h) ==
    [h EXCEPT !.pending = IF @ = <<>> THEN @ ELSE <<Head(@)>>]

\* abort, also of the destructor.
Abort(h) ==
    IF h.pending = <<>> THEN h
    ELSE CloseConn(SocketClosed(ClearPendingRequests(FinishedWithError(h))))

----------------------------------------------------------------------------
(* What the socket tells.                                                  *)

\* _q_slotError. A server that closes before it answers is asked again.
SlotError(h, remoteClosed) ==
    CASE h.state \in {"Connecting", "Sending", "Reading"} /\ ~remoteClosed ->
            CloseConn(FinishedWithError(h))
      [] h.state = "Sending" /\ remoteClosed /\ h.reconnectAttempts # 0 ->
            Post([SocketClosedQuietly(h) EXCEPT !.state = "Unconnected",
                                                !.reconnectAttempts = @ - 1],
                 "SendRequest")
      [] h.state = "Sending" /\ remoteClosed /\ h.reconnectAttempts = 0 ->
            CloseConn([h EXCEPT !.reconnectAttempts = @ - 1])
      [] OTHER -> CloseConn(h)

\* _q_slotReadyRead for a part of the answer; its header tells whether it is
\* sized.
ReadPart(h, sized) ==
    [h EXCEPT !.state = "Reading", !.rba = h.header,
              !.sized = IF h.state = "Reading" THEN @ ELSE sized]

\* For the rest of it. closes: the header says that the connection closes.
ReadRest(h, closes) ==
    LET t == [h EXCEPT !.state = "Reading", !.rba = h.header, !.whole = TRUE,
                       !.asked = FALSE]
    IN  IF closes THEN CloseConn(t)
        ELSE Post([t EXCEPT !.state = "Connected"], "DoFinished")

\* For a header or a chunk that makes no sense.
ReadInvalid(h) ==
    CloseConn(FinishedWithError([h EXCEPT !.state = "Reading", !.asked = FALSE]))

\* parseHttpResponse of the authenticator, for a response that asks for method.
ParseChallenge(h, method) ==
    [h EXCEPT !.state = "Reading", !.asked = FALSE, !.method = method,
              !.phase = CASE method = "Given" -> "Done"   \* no user is set
                          [] method = None    -> "Invalid"
                          [] OTHER            -> @]

\* For status 401. Only a first NTLM challenge has the request sent again.
ReadUnauthorized(h, method, closes) ==
    LET t == ParseChallenge(h, method)
    IN  IF t.phase \in {"Done", "Invalid"} THEN CloseConn(FinishedWithError(t))
        ELSE SendRequest(IF closes
                         THEN SocketClosedQuietly([t EXCEPT !.state = "Closing"])
                         ELSE t)
=============================================================================
