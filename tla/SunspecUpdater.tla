--------------------------- MODULE SunspecUpdater ---------------------------
(***************************************************************************)
(* The polling loop of a SunSpec inverter (sunspec_updater.cpp) with its   *)
(* ModbusTcpClient. The handlers of the updater are operators on the pair  *)
(* of both, since signals run handlers within handlers: a socket error     *)
(* finishes every pending reply, whose slots send new requests, before it  *)
(* announces the disconnection.                                            *)
(*                                                                         *)
(* The inverter answers anything, at any time, or not at all. When the     *)
(* updater announces connectionLost or inverterModelChanged its mediator   *)
(* deletes it (see InverterMediator).                                      *)
(***************************************************************************)
EXTENDS ModbusTcpClient

CONSTANTS
    Limits,     \* the power limits that may be requested, in percent
    Limiting    \* the product supports power limiting (getInitState)

ASSUME LimitsAssumption   == Limits \subseteq 0..100
ASSUME LimitingAssumption == Limiting \in BOOLEAN

\* Enough identifiers: three replies at most have not finished, as is proved.
ASSUME RepliesAssumption == MaxOutstanding >= 3

MaxRetries == 5

VARIABLES
    u,      \* members of the SunspecUpdater
    client  \* its mModbusClient

vars == <<u, client>>

ModbusState == {"ReadPowerLimit", "ReadPowerAndVoltage", "WritePowerLimit", "Idle"}

Percent == Limits \cup {0, 100}

\* Value is the limit in a write, and 0 in a read.
Request ==
    [id : 1..MaxOutstanding, kind : ModbusState \ {"Idle"}, value : Percent]

\* mTimer runs for 1000 ms ("idle") or for 5000 ms ("retry"), which is the
\* interval of the timers of the client: see UserTimer.
UpdaterType ==
    [mCurrentState : ModbusState,
     mRetryCount : 0..MaxRetries,
     mWritePowerLimitRequested : BOOLEAN,
     mPowerLimitPct : Percent,
     mTimer : {"off", "idle", "retry"},
     powerLimit : BOOLEAN,     \* the inverter has a finite power limit
     told : Percent,           \* history: the limit in the last write request
     gone : BOOLEAN]           \* connectionLost or inverterModelChanged

TypeOK ==
    /\ u \in UpdaterType
    /\ client \in ClientType(Request)

----------------------------------------------------------------------------
(* Handlers, on records s with the updater s.u and the client s.c.         *)

InitState == IF Limiting THEN "ReadPowerLimit" ELSE "ReadPowerAndVoltage"

StopUserTimer(s) ==
    [s EXCEPT !.u.mTimer = "off", !.c = StopTimer(@, UserTimer)]

StartIdleTimer(s) ==
    IF s.u.mCurrentState = "Idle"
    THEN [StopUserTimer(s) EXCEPT !.u.mTimer = "idle"]
    ELSE [s EXCEPT !.u.mTimer = "retry", !.c = StartTimer(@, UserTimer)]

\* Seeded fault: nothing is done when there is nothing to send.
StartNextActionIdles(s, state) ==
    IF state = "Idle" THEN [s EXCEPT !.u.mCurrentState = state]
    ELSE [s EXCEPT !.u.mCurrentState = state, !.c = SendFrame(s.c, state, 0)]

\* readHoldingRegisters and writeMultipleHoldingRegisters.
ReadRegisters(s, state)         == [s EXCEPT !.c = SendFrame(@, state, 0)]
WriteRegisters(s, state, value) ==
    [s EXCEPT !.u.told = value, !.c = SendFrame(@, state, value)]

\* startNextAction: a request is sent, or in Idle the timer is started.
StartNextAction(s, state) ==
    LET t == [s EXCEPT !.u.mCurrentState = state]
    IN  CASE state = "Idle" -> StartIdleTimer(t)
          [] state = "WritePowerLimit" -> WriteRegisters(t, state, s.u.mPowerLimitPct)
          [] OTHER -> ReadRegisters(t, state)

\* handleError.
HandleError(s) ==
    LET lost == s.u.mRetryCount = MaxRetries
    IN  StartIdleTimer([s EXCEPT !.u.mRetryCount = IF lost THEN 0 ELSE @ + 1,
                                 !.u.gone = @ \/ lost])

\* Seeded fault: a disconnection starts the count anew.
OnDisconnectedForgets(s) ==
    HandleError([s EXCEPT !.u.mCurrentState = InitState, !.u.mRetryCount = 0])

OnDisconnected(s) == HandleError([s EXCEPT !.u.mCurrentState = InitState])

\* What onReadCompleted may see in a good reply r in the current state: what
\* was asked for in that state, or the answer to another question.
Seen(s, r) ==
    CASE s.u.mCurrentState = "ReadPowerLimit" /\ r.kind = "ReadPowerLimit" ->
            {"limit", "noLimit", "unusable"}
      [] s.u.mCurrentState = "ReadPowerAndVoltage" /\ r.kind = "ReadPowerAndVoltage" ->
            {"data", "otherModel", "unusable"}
      [] s.u.mCurrentState = "ReadPowerAndVoltage" /\ r.kind = "ReadPowerLimit" ->
            {"otherModel", "unusable"}
      [] OTHER -> {"unusable"}

\* onReadCompleted for a good reply. A reply that is unusable is read again at
\* once; the last case is the default branch with its Q_ASSERT.
OnValues(s, seen) ==
    LET t == [s EXCEPT !.u.mRetryCount = 0]
    IN  CASE seen = "otherModel" ->
                StartNextAction([t EXCEPT !.u.gone = TRUE], "Idle")
          [] seen = "data" ->
                StartNextAction(t, IF s.u.mWritePowerLimitRequested
                                   THEN "WritePowerLimit" ELSE "Idle")
          [] seen \in {"limit", "noLimit"} ->
                StartNextAction([t EXCEPT !.u.powerLimit = seen = "limit"],
                                "ReadPowerAndVoltage")
          [] seen = "unusable" /\ s.u.mCurrentState \in {"ReadPowerLimit", "ReadPowerAndVoltage"} ->
                StartNextAction(t, s.u.mCurrentState)
          [] OTHER -> StartNextAction(t, InitState)

\* onWriteCompleted: the result is not looked at.
OnWriteCompleted(s) ==
    StartNextAction([s EXCEPT !.u.mWritePowerLimitRequested = FALSE], InitState)

\* A reply finishes with an error.
OnFailure(s, r) ==
    LET t == [s EXCEPT !.c = Finished(s.c, r)]
    IN  IF r.kind = "WritePowerLimit" THEN OnWriteCompleted(t) ELSE HandleError(t)

\* onSocketErrorReceived: all pending replies fail, and then disconnected().
OnSocketError(s) ==
    LET failed == FoldSet(LAMBDA r, t : OnFailure(t, r), s, s.c.pending)
    IN  OnDisconnected([failed EXCEPT !.c = PendingCleared(@)])

----------------------------------------------------------------------------
Now == [u |-> u, c |-> client]

Becomes(s) == u' = s.u /\ client' = s.c

\* The constructor connects at once.
NewUpdater ==
    [mCurrentState |-> "Idle", mRetryCount |-> 0, mWritePowerLimitRequested |-> FALSE,
     mPowerLimitPct |-> 100, mTimer |-> "off", powerLimit |-> FALSE, told |-> 100,
     gone |-> FALSE]

Init ==
    /\ u = NewUpdater
    /\ client = ConnectToServer(NewClient)

\* The device was found again: a new updater with a new client.
Recreated ==
    /\ u.gone
    /\ u' = NewUpdater
    /\ client' = ConnectToServer(NewClient)

\* The inverter answers a read request.
ReadAnswered(r) ==
    /\ r \in Answerable(client)
    /\ r.kind # "WritePowerLimit"
    /\ LET s == [Now EXCEPT !.c = Finished(client, r)]
       IN  \E seen \in Seen(s, r) : Becomes(OnValues(s, seen))

\* The inverter answers a write request.
WriteAnswered(r) ==
    /\ r \in Answerable(client)
    /\ r.kind = "WritePowerLimit"
    /\ Becomes(OnWriteCompleted([Now EXCEPT !.c = Finished(client, r)]))

\* An exception or a reply that cannot be parsed.
ReplyFailed(r) ==
    /\ r \in Answerable(client)
    /\ Becomes(OnFailure(Now, r))

\* The time limit of a reply.
ReplyTimedOut(r) ==
    /\ Expires(client, r.id)
    /\ Becomes(OnFailure(Now, r))

\* connected(); then the socket closes if it was told so while connecting.
Connected ==
    /\ client.socket = "Connecting"
    /\ LET s == StartNextAction([Now EXCEPT !.c = SocketConnected(client)], InitState)
       IN  Becomes(IF client.closing
                   THEN OnDisconnected([s EXCEPT !.c = SocketClosed(@)])
                   ELSE s)

\* The connection could not be made.
ConnectionRefused ==
    /\ client.socket = "Connecting"
    /\ Becomes(OnSocketError([Now EXCEPT !.c = SocketClosed(client)]))

\* The connection broke: error() and then disconnected() of the socket.
ConnectionBroken ==
    /\ client.socket = "Connected"
    /\ LET s == OnSocketError(Now)
       IN  Becomes(OnDisconnected([s EXCEPT !.c = SocketClosed(@)]))

\* The connect timer expires; a connected socket would announce it, too.
ConnectTimerExpired ==
    /\ Expires(client, ConnectTimer)
    /\ LET s == OnDisconnected([Now EXCEPT !.c = ConnectTimeout(client)])
       IN  Becomes(IF client.socket = "Connected" THEN OnDisconnected(s) ELSE s)

OnTimer ==
    /\ u.mTimer = "idle" \/ Expires(client, UserTimer)
    /\ LET s == StopUserTimer(Now)
       IN  Becomes(IF client.socket = "Connected"
                   THEN StartNextAction(s, IF u.mCurrentState = "Idle"
                                           THEN InitState ELSE u.mCurrentState)
                   ELSE [s EXCEPT !.c = ConnectToServer(@)])

\* Seeded fault: the timer is not stopped.
PowerLimitRequestedTimed(limit) ==
    /\ u.powerLimit
    /\ LET s == [Now EXCEPT !.u.mPowerLimitPct = limit]
       IN  Becomes(IF u.mTimer # "off" /\ u.mCurrentState = "Idle"
                   THEN StartNextAction(s, "WritePowerLimit")
                   ELSE [s EXCEPT !.u.mWritePowerLimitRequested = TRUE])

\* onPowerLimitRequested; without a finite power limit there is no limiting.
PowerLimitRequested(limit) ==
    /\ u.powerLimit
    /\ LET s == [StopUserTimer(Now) EXCEPT !.u.mPowerLimitPct = limit]
       IN  Becomes(CASE u.mTimer = "off" -> [s EXCEPT !.u.mWritePowerLimitRequested = TRUE]
                     [] u.mTimer # "off" /\ u.mCurrentState = "Idle" ->
                           StartNextAction(s, "WritePowerLimit")
                     [] OTHER ->
                           [StartNextAction(s, u.mCurrentState)
                               EXCEPT !.u.mWritePowerLimitRequested = TRUE])

Step ==
    /\ ~u.gone
    /\ \/ \E r \in client.pending : ReadAnswered(r) \/ WriteAnswered(r)
       \/ \E r \in client.pending : ReplyFailed(r)
       \/ \E r \in Outstanding(client) : ReplyTimedOut(r)
       \/ Connected
       \/ ConnectionRefused
       \/ ConnectionBroken
       \/ ConnectTimerExpired
       \/ OnTimer
       \/ \E limit \in Limits : PowerLimitRequested(limit)

Next == Step \/ Recreated

Spec == Init /\ [][Next]_vars

\* Timers expire, so replies finish and attempts to connect end.
Fairness ==
    /\ WF_vars(~u.gone /\ \E r \in Outstanding(client) : ReplyTimedOut(r))
    /\ WF_vars(~u.gone /\ ConnectTimerExpired)
    /\ WF_vars(~u.gone /\ OnTimer)

FairSpec == Spec /\ Fairness

----------------------------------------------------------------------------
(* Properties.                                                             *)

\* The polling loop never stops: whatever the order of errors, answers,
\* timeouts and power limit requests, there is a timer, a request or a
\* connection under way whose end calls a handler again (each handler ends in
\* startNextAction, startIdleTimer or connectToServer).
NeverStuck ==
    \/ u.gone
    \/ u.mTimer # "off"
    \/ Outstanding(client) # {}
    \/ client.socket = "Connecting"

\* An inverter that is never heard again is given up (handleError counts the
\* failures up to connectionLost), even while power limits are requested, the
\* connection comes and goes and write requests are answered.
SilentIsGivenUp ==
    \/ []<>(u.gone)
    \/ []<><<\E r \in client.pending : ReadAnswered(r)>>_vars

\* An answer is taken for what is read in the current state, so it had better
\* be the answer to that: at most one request can be answered, and it is the one
\* of the current state, although requests are sent from timers, replies, the
\* connection and power limit requests. (The assertion in the default branch of
\* onReadCompleted is a consequence.)
AnswerMatchesState ==
    /\ Cardinality(Answerable(client)) <= 1
    /\ \A r \in Answerable(client) : r.kind = u.mCurrentState

\* As the README has it, power limiting works: the newest limit requested has
\* been sent to the inverter, or will be as mWritePowerLimitRequested is set.
LimitNotForgotten ==
    \/ u.gone
    \/ u.mPowerLimitPct = u.told
    \/ u.mWritePowerLimitRequested
=============================================================================
