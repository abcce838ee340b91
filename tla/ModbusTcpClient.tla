--------------------------- MODULE ModbusTcpClient ---------------------------
(***************************************************************************)
(* class ModbusTcpClient (modbus_tcp_client.cpp) on top of a QTcpSocket,   *)
(* as a record and the effects its methods and slots have on it. Signals   *)
(* call their slots at once, so the module of the user of a client joins   *)
(* the effects of both sides into one step (see SunspecUpdater).           *)
(*                                                                         *)
(* The timers of a client, the connect timer and one for each reply, have  *)
(* the same interval (mTimeout), so they expire in the order in which they *)
(* were started; "timers" is the queue of those that run. A user of the    *)
(* client has a timer in it too, UserTimer, of the same interval.          *)
(*                                                                         *)
(* A client is a record with the fields                                    *)
(*   socket   state of the QTcpSocket                                      *)
(*   closing  disconnectFromHost was called before the socket connected    *)
(*   timers   see above                                                    *)
(*   pending  the requests in mPendingReplies                              *)
(*   dropped  requests no longer there whose reply has not finished        *)
(*   sent     identifiers of requests the server may answer                *)
(***************************************************************************)
EXTENDS Integers, SequencesExt

CONSTANT MaxOutstanding \* bound on replies that have not finished

ASSUME OutstandingAssumption == MaxOutstanding \in Nat \ {0}

SocketState == {"Unconnected", "Connecting", "Connected"}

ConnectTimer == 0
UserTimer    == -1

Ids    == 1..MaxOutstanding
Timers == Ids \cup {ConnectTimer, UserTimer}

ClientType(Request) ==
    [socket : SocketState, closing : BOOLEAN, timers : Seq(Timers),
     pending : SUBSET Request, dropped : SUBSET Request, sent : SUBSET Ids]

NewClient ==
    [socket |-> "Unconnected", closing |-> FALSE, timers |-> <<>>,
     pending |-> {}, dropped |-> {}, sent |-> {}]

Outstanding(c) == c.pending \cup c.dropped
Answerable(c)  == {r \in c.pending : r.id \in c.sent /\ c.socket = "Connected"}

FreshId(c) == CHOOSE n \in Ids : \A r \in Outstanding(c) : r.id # n

\* The timer t expires next.
Expires(c, t) == c.timers # <<>> /\ Head(c.timers) = t

\* No timer is in the queue twice: see ModbusTcpClientProofs.
StopTimer(c, t)  == [c EXCEPT !.timers = RemoveFirst(@, t)]
StartTimer(c, t) == [c EXCEPT !.timers = Append(RemoveFirst(@, t), t)]

\* sendFrame. While connecting the socket buffers what is written; without a
\* connection it is lost.
SendFrame(c, kind, value) ==
    LET id == FreshId(c)
    IN  [StartTimer(c, id) EXCEPT
            !.pending = @ \cup {[id |-> id, kind |-> kind, value |-> value]},
            !.sent = IF c.socket \in {"Connecting", "Connected"} THEN @ \cup {id} ELSE @]

\* A reply is finished: by an answer, by its timer, or by a socket error. An
\* answer that comes later finds no reply and is ignored.
Finished(c, r) ==
    [StopTimer(c, r.id) EXCEPT
        !.pending = @ \ {r}, !.dropped = @ \ {r}, !.sent = @ \ {r.id}]

\* connectToServer: a timer is started without a look at the one that may
\* still run, and the socket ignores the call unless it is unconnected.
ConnectToServer(c) ==
    [c EXCEPT !.timers = Append(@, ConnectTimer),
              !.closing = IF c.socket = "Unconnected" THEN FALSE ELSE @,
              !.socket = IF @ = "Unconnected" THEN "Connecting" ELSE @]

\* The connection is gone, and with it what was on its way.
SocketClosed(c) ==
    [c EXCEPT !.socket = "Unconnected", !.closing = FALSE, !.sent = {}]

\* timerEvent, up to the signal: the socket is told to disconnect, which it
\* postpones while it is connecting.
ConnectTimeout(c) ==
    LET d == StopTimer(c, ConnectTimer)
    IN  IF c.socket = "Connecting" THEN [d EXCEPT !.closing = TRUE] ELSE SocketClosed(d)

\* The socket is connected: onConnected up to the signal.
SocketConnected(c) == [StopTimer(c, ConnectTimer) EXCEPT !.socket = "Connected"]

\* mPendingReplies.clear() in onSocketErrorReceived: replies that the slots
\* created in the meantime are forgotten, yet their timers run.
PendingCleared(c) ==
    [c EXCEPT !.dropped = @ \cup c.pending, !.pending = {}]
=============================================================================
