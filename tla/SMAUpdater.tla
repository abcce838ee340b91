----------------------------- MODULE SMAUpdater -----------------------------
(***************************************************************************)
(* The polling loop of an SMA inverter (sma_updater.cpp) with its          *)
(* ModbusTcpClient and what it keeps in its SMAInverter. As in             *)
(* SunspecUpdater the handlers are operators on the pair of both.          *)
(*                                                                         *)
(* One cycle asks for condition and state, logs in with the grid code and  *)
(* sets the operating mode where needed, reads the measurements and then   *)
(* writes the power limit, if it is allowed to. Of the values read only    *)
(* the choices they lead to are kept.                                      *)
(***************************************************************************)
EXTENDS ModbusTcpClient

CONSTANTS
    MaxPower,           \* of the device, in units of power
    PowerLimitScale,    \* of the device: the limit its detection read from it
    Limits              \* the power limits that may be requested, negative ones too

ASSUME PowerAssumption  == MaxPower \in Nat /\ PowerLimitScale \in Nat
ASSUME LimitsAssumption == Limits \subseteq Int

\* Enough identifiers: three replies at most have not finished, as is proved.
ASSUME RepliesAssumption == MaxOutstanding >= 3

MaxRetries == 5
MaxWrites  == 3

VARIABLES
    u,      \* members of the SMAUpdater and of its SMAInverter
    client  \* its mModbusClient

vars == <<u, client>>

WriteStates == {"DoLogin", "SetOpMode", "WritePowerLimit"}

\* The measurements, read one after the other.
ReadAfter ==
    [ReadACFrequency       |-> "ReadACCurrent",
     ReadACCurrent         |-> "ReadACPowerAndVoltage",
     ReadACPowerAndVoltage |-> "ReadTemperature",
     ReadTemperature       |-> "ReadPVData1",
     ReadPVData1           |-> "ReadPVData2",
     ReadPVData2           |-> "ReadPowerLimit"]

ReadStates ==
    {"CheckCondition", "CheckState", "CheckLogin", "CheckOpMode", "ReadPowerYield",
     "ReadPowerLimit"} \cup DOMAIN ReadAfter

ModbusState == ReadStates \cup WriteStates \cup {"Idle", "Error"}

\* The number of registers asked for, which is what a reply is checked for.
Size(state) ==
    CASE state = "ReadPowerYield" -> 8
      [] state = "ReadACPowerAndVoltage" -> 10
      [] state \in {"ReadPVData1", "ReadPVData2"} -> 6
      [] OTHER -> 2

\* The registers that are written are left out, the power limit with its
\* conversion to 16 bits among them.
Request ==
    [id : Ids, kind : ReadStates \cup WriteStates, value : {0}]

Status == {"START0", "STANDBY", "ERROR", "MPPT", "THROTTLED"}

NotPublished == "NOT_PUBLISHED"

\* A warning is as good as OK, anything else read as bad as a fault.
Condition == {"INVALID", "OK", "FAULT"}

UpdaterType ==
    [mCurrentState : ModbusState,
     mRetryCount : 0..MaxRetries,
     mWriteCount : -1..MaxWrites,     \* read before it is set: see NewUpdater
     mPowerLimitWatt : Int,
     mTimer : {"off", "idle", "retry"},
     hasGridCode : BOOLEAN,           \* gridCode() of the inverter is not 0
     opCondition : Condition,
     tracking : BOOLEAN,              \* opState() is SMA_OS_MPP
     isLoggedIn : BOOLEAN,
     inWattMode : BOOLEAN,            \* opMode() is SMA_OM_WATT
     mStatus : Status,
     statusCode : Status \cup {NotPublished},     \* on D-Bus
     logins : 0..MaxWrites + 1,       \* history: logins written in this cycle
     modes : 0..MaxWrites + 1,        \* history: modes written in this cycle
     gone : BOOLEAN]                  \* connectionLost

TypeOK ==
    /\ u \in UpdaterType
    /\ client \in ClientType(Request)

----------------------------------------------------------------------------
(* Handlers, on records s with the updater s.u and the client s.c.         *)

StopUserTimer(s) ==
    [s EXCEPT !.u.mTimer = "off", !.c = StopTimer(@, UserTimer)]

StartIdleTimer(s) ==
    IF s.u.mCurrentState = "Idle"
    THEN [StopUserTimer(s) EXCEPT !.u.mTimer = "idle"]
    ELSE [s EXCEPT !.u.mTimer = "retry", !.c = StartTimer(@, UserTimer)]

\* SMAInverter::setStatus: published when it differs from the last one set.
SetStatus(s, code) ==
    IF s.u.mStatus = code THEN s
    ELSE [s EXCEPT !.u.mStatus = code, !.u.statusCode = code]

\* SMAInverter::setLoggedOn.
SetLoggedOn(s, status) == [s EXCEPT !.u.isLoggedIn = status]

\* SMAInverter::setOperatingCondition.
SetOperatingCondition(s, condition) == [s EXCEPT !.u.opCondition = condition]

\* SMAInverter::setOperatingState; of the states only SMA_OS_MPP matters here.
SetOperatingState(s, tracking) == [s EXCEPT !.u.tracking = tracking]

\* SMAInverter::setOperatingMode; of the modes only SMA_OM_WATT matters.
SetOperatingMode(s, watt) == [s EXCEPT !.u.inWattMode = watt]

\* The state Error, as the D-Bus shows it.
ShowError(s) ==
    SetOperatingState(SetOperatingCondition(SetStatus(s, "ERROR"), "FAULT"), FALSE)

\* Seeded fault: the timer is not started when the loop becomes idle.
StartNextActionIdles(s, state) ==
    LET t == [s EXCEPT !.u.mCurrentState = state]
    IN  CASE state = "Idle"  -> t
          [] state = "Error" -> ShowError(t)
          [] OTHER -> [t EXCEPT !.c = SendFrame(s.c, state, 0)]

\* startNextAction. In Error nothing is sent and no timer is started.
StartNextAction(s, state) ==
    LET t == [s EXCEPT !.u.mCurrentState = state]
    IN  CASE state = "Idle"  -> StartIdleTimer(t)
          [] state = "Error" -> ShowError(t)
          [] OTHER ->
                [t EXCEPT !.c = SendFrame(s.c, state, 0),
                          !.u.logins = IF state = "DoLogin" THEN @ + 1 ELSE @,
                          !.u.modes = IF state = "SetOpMode" THEN @ + 1 ELSE @]

\* handleError.
HandleError(s) ==
    LET lost == s.u.mRetryCount = MaxRetries
    IN  StartIdleTimer([s EXCEPT !.u.mRetryCount = IF lost THEN 0 ELSE @ + 1,
                                 !.u.gone = @ \/ lost])

\* Seeded fault: a disconnection starts the count anew.
OnDisconnectedForgets(s) ==
    HandleError([s EXCEPT !.u.mCurrentState = "CheckCondition", !.u.mRetryCount = 0])

OnDisconnected(s) == HandleError([s EXCEPT !.u.mCurrentState = "CheckCondition"])

\* CheckCondition: the inverter is asleep or faulty unless it is OK or warns.
OnCondition(s, ok) ==
    LET t == SetOperatingCondition(s, IF ok THEN "OK" ELSE "FAULT")
    IN  IF ok THEN StartNextAction(t, "CheckState")
        ELSE StartNextAction(SetStatus(t, "ERROR"), "Idle")

\* Seeded fault: the writes are not counted anew.
OnStateCounting(s, tracking) ==
    StartNextAction([s EXCEPT !.u.tracking = tracking, !.u.logins = 0, !.u.modes = 0],
                    IF s.u.hasGridCode /\ tracking THEN "CheckLogin" ELSE "ReadPowerYield")

\* Seeded fault: the status is published past setStatus with a grid code, too.
OnStateBypassing(s, tracking) ==
    StartNextAction([s EXCEPT !.u.tracking = tracking, !.u.mWriteCount = 0,
                              !.u.logins = 0, !.u.modes = 0, !.u.statusCode = "STANDBY"],
                    IF s.u.hasGridCode /\ tracking THEN "CheckLogin" ELSE "ReadPowerYield")

\* CheckState. Without a grid code the status is published past setStatus.
OnState(s, tracking) ==
    LET t == [SetOperatingState(s, tracking) EXCEPT !.u.mWriteCount = 0,
                  !.u.logins = 0, !.u.modes = 0]
        r == IF s.u.hasGridCode THEN t ELSE [t EXCEPT !.u.statusCode = "STANDBY"]
    IN  IF tracking
        THEN StartNextAction(r, IF s.u.hasGridCode THEN "CheckLogin" ELSE "ReadPowerYield")
        ELSE StartNextAction(SetStatus(r, "STANDBY"), "ReadPowerYield")

\* CheckLogin: up to MaxWrites attempts. A login seen after the last of them
\* counts as a failure.
OnLogin(s, loggedIn) ==
    LET t == SetLoggedOn(s, loggedIn)
    IN  CASE ~loggedIn /\ s.u.mWriteCount < MaxWrites ->
                StartNextAction([t EXCEPT !.u.mWriteCount = @ + 1], "DoLogin")
          [] s.u.mWriteCount >= MaxWrites ->
                StartNextAction(SetStatus(t, "STANDBY"), "ReadPowerYield")
          [] OTHER -> StartNextAction([t EXCEPT !.u.mWriteCount = 0], "CheckOpMode")

\* CheckOpMode: up to MaxWrites attempts.
OnOpMode(s, watt) ==
    LET t == SetOperatingMode(s, watt)
    IN  IF ~watt /\ s.u.mWriteCount < MaxWrites
        THEN StartNextAction([t EXCEPT !.u.mWriteCount = @ + 1], "SetOpMode")
        ELSE StartNextAction(
                SetStatus(t, IF s.u.mPowerLimitWatt = MaxPower THEN "MPPT" ELSE "THROTTLED"),
                "ReadPowerYield")

\* ReadPowerYield, the last question to an inverter whose DC side is down.
OnYield(s) ==
    IF s.u.tracking THEN StartNextAction(s, "ReadACFrequency")
    ELSE StartNextAction(SetStatus(s, "STANDBY"), "Idle")

\* Seeded fault: the limit is written in any mode.
OnPowerLimitAnyMode(s) ==
    StartNextAction(s, IF s.u.isLoggedIn THEN "WritePowerLimit" ELSE "Idle")

\* ReadPowerLimit ends the cycle.
OnPowerLimit(s) ==
    StartNextAction(s, IF s.u.isLoggedIn /\ s.u.inWattMode THEN "WritePowerLimit" ELSE "Idle")

\* onReadCompleted for a good reply with size registers, whose value leads to
\* the choice yes. The first case is the default branch with its Q_ASSERT.
OnValues(s, size, yes) ==
    LET t     == [s EXCEPT !.u.mRetryCount = 0]
        state == s.u.mCurrentState
    IN  CASE state \notin ReadStates -> StartNextAction(t, "CheckCondition")
          [] state \in ReadStates /\ size # Size(state) -> StartNextAction(t, "Error")
          [] state = "CheckCondition" /\ size = 2 -> OnCondition(t, yes)
          [] state = "CheckState" /\ size = 2     -> OnState(t, yes)
          [] state = "CheckLogin" /\ size = 2     -> OnLogin(t, yes)
          [] state = "CheckOpMode" /\ size = 2    -> OnOpMode(t, yes)
          [] state = "ReadPowerYield" /\ size = 8 -> OnYield(t)
          [] state = "ReadPowerLimit" /\ size = 2 -> OnPowerLimit(t)
          [] state \in DOMAIN ReadAfter /\ size = Size(state) ->
                StartNextAction(t, ReadAfter[state])

\* onWriteCompleted: the result is not looked at. The last case is the default
\* branch with its Q_ASSERT.
OnWriteCompleted(s) ==
    StartNextAction(s, CASE s.u.mCurrentState = "DoLogin" -> "CheckLogin"
                         [] s.u.mCurrentState = "SetOpMode" -> "CheckOpMode"
                         [] s.u.mCurrentState = "WritePowerLimit" -> "Idle"
                         [] OTHER -> "CheckCondition")

\* A reply finishes with an error.
OnFailure(s, r) ==
    LET t == [s EXCEPT !.c = Finished(s.c, r)]
    IN  IF r.kind \in WriteStates THEN OnWriteCompleted(t) ELSE HandleError(t)

\* onSocketErrorReceived: all pending replies fail, and then disconnected().
OnSocketError(s) ==
    LET failed == FoldSet(LAMBDA r, t : OnFailure(t, r), s, s.c.pending)
    IN  OnDisconnected([failed EXCEPT !.c = PendingCleared(@)])

----------------------------------------------------------------------------
Now == [u |-> u, c |-> client]

Becomes(s) == u' = s.u /\ client' = s.c

\* A new updater for a new inverter, of which no status is published yet. The
\* constructor does not set mWriteCount; -1 and MaxWrites stand for the values it
\* may have.
NewUpdaters ==
    {[mCurrentState |-> "Idle", mRetryCount |-> 0, mWriteCount |-> n,
      mPowerLimitWatt |-> PowerLimitScale, mTimer |-> "off", hasGridCode |-> grid,
      opCondition |-> "INVALID", tracking |-> FALSE, isLoggedIn |-> FALSE, inWattMode |-> FALSE,
      mStatus |-> "START0", statusCode |-> NotPublished, logins |-> 0, modes |-> 0,
      gone |-> FALSE]
        : n \in {-1, MaxWrites}, grid \in BOOLEAN}

\* The constructor connects at once.
Init ==
    /\ u \in NewUpdaters
    /\ client = ConnectToServer(NewClient)

\* The device was found again: a new updater with a new client.
Recreated ==
    /\ u.gone
    /\ u' \in NewUpdaters
    /\ client' = ConnectToServer(NewClient)

\* The inverter answers a read request, as asked or with too few registers.
ReadAnswered(r) ==
    /\ r \in Answerable(client)
    /\ r.kind \in ReadStates
    /\ \E size \in {Size(r.kind), 1}, yes \in BOOLEAN :
          Becomes(OnValues([Now EXCEPT !.c = Finished(client, r)], size, yes))

\* The inverter answers a write request.
WriteAnswered(r) ==
    /\ r \in Answerable(client)
    /\ r.kind \in WriteStates
    /\ Becomes(OnWriteCompleted([Now EXCEPT !.c = Finished(client, r)]))

\* An exception or a reply that cannot be parsed.
ReplyFailed(r) ==
    /\ r \in Answerable(client)
    /\ Becomes(OnFailure(Now, r))

\* The time limit of a reply.
ReplyTimedOut(r) ==
    /\ Expires(client, r.id)
    /\ Becomes(OnFailure(Now, r))

\* connected(); then the socket closes if it was told so while connecting.
Connected ==
    /\ client.socket = "Connecting"
    /\ LET s == StartNextAction([Now EXCEPT !.c = SocketConnected(client)], "CheckCondition")
       IN  Becomes(IF client.closing
                   THEN OnDisconnected([s EXCEPT !.c = SocketClosed(@)])
                   ELSE s)

\* The connection could not be made.
ConnectionRefused ==
    /\ client.socket = "Connecting"
    /\ Becomes(OnSocketError([Now EXCEPT !.c = SocketClosed(client)]))

\* The connection broke: error() and then disconnected() of the socket.
ConnectionBroken ==
    /\ client.socket = "Connected"
    /\ LET s == OnSocketError(Now)
       IN  Becomes(OnDisconnected([s EXCEPT !.c = SocketClosed(@)]))

\* The connect timer expires; a connected socket would announce it, too.
ConnectTimerExpired ==
    /\ Expires(client, ConnectTimer)
    /\ LET s == OnDisconnected([Now EXCEPT !.c = ConnectTimeout(client)])
       IN  Becomes(IF client.socket = "Connected" THEN OnDisconnected(s) ELSE s)

OnTimer ==
    /\ u.mTimer = "idle" \/ Expires(client, UserTimer)
    /\ LET s == StopUserTimer(Now)
       IN  Becomes(IF client.socket = "Connected"
                   THEN StartNextAction(s, IF u.mCurrentState = "Idle"
                                           THEN "CheckCondition" ELSE u.mCurrentState)
                   ELSE [s EXCEPT !.c = ConnectToServer(@)])

\* onPowerLimitRequested: written at the end of the next cycle. The limit is
\* bounded above only.
PowerLimitRequested(limit) ==
    /\ u' = [u EXCEPT !.mPowerLimitWatt = IF limit > MaxPower THEN MaxPower ELSE limit]
    /\ UNCHANGED client

Step ==
    /\ ~u.gone
    /\ \/ \E r \in client.pending : ReadAnswered(r) \/ WriteAnswered(r)
       \/ \E r \in client.pending : ReplyFailed(r)
       \/ \E r \in Outstanding(client) : ReplyTimedOut(r)
       \/ Connected
       \/ ConnectionRefused
       \/ ConnectionBroken
       \/ ConnectTimerExpired
       \/ OnTimer
       \/ \E limit \in Limits : PowerLimitRequested(limit)

Next == Step \/ Recreated

Spec == Init /\ [][Next]_vars

\* Timers expire, so replies finish and attempts to connect end.
Fairness ==
    /\ WF_vars(~u.gone /\ \E r \in Outstanding(client) : ReplyTimedOut(r))
    /\ WF_vars(~u.gone /\ ConnectTimerExpired)
    /\ WF_vars(~u.gone /\ OnTimer)

FairSpec == Spec /\ Fairness

----------------------------------------------------------------------------
(* Properties.                                                             *)

\* The polling loop stops in state Error only, and there only while the
\* connection stands: otherwise a timer, a request or a connection is under way
\* whose end calls a handler of the loop again.
StuckOnlyInError ==
    \/ u.gone
    \/ u.mTimer # "off"
    \/ Outstanding(client) # {}
    \/ client.socket = "Connecting"
    \/ u.mCurrentState = "Error" /\ client.socket = "Connected"

\* Login and operating mode share mWriteCount, which the constructor leaves
\* uninitialized: in one cycle an inverter is still written to at most MaxWrites
\* times for each, through errors, timeouts and reconnections.
WritesBounded == u.logins <= MaxWrites /\ u.modes <= MaxWrites

\* The limit is written only with the login and the mode that let it count.
LimitOnlyInControl ==
    \A r \in Answerable(client) :
        r.kind = "WritePowerLimit" => u.isLoggedIn /\ u.inWattMode

\* D-Bus shows the status that was set last, once one was set: then that of an
\* error as long as the condition of the inverter is a fault, whatever is asked
\* for meanwhile. Without a grid code it may be STANDBY instead, which is
\* published past setStatus.
StatusIsShown ==
    /\ \/ u.statusCode = u.mStatus
       \/ u.statusCode = NotPublished /\ u.mStatus = "START0"
       \/ u.statusCode = "STANDBY" /\ ~u.hasGridCode
    /\ u.opCondition = "FAULT" =>
          u.mStatus = "ERROR" /\ (u.hasGridCode => u.statusCode = "ERROR")

\* setStatus is to update the D-Bus "when need to" (sma_inverter.cpp:63), so a
\* faulty inverter should be shown with an error, with a grid code or without.
\* Without one it is not: STANDBY was published over the error that is set, and
\* the next fault changes nothing that is set.
FaultIsShown == u.opCondition = "FAULT" => u.statusCode = "ERROR"

\* An inverter that is never heard again is given up, unless the loop is stuck
\* in Error.
SilentIsGivenUp ==
    \/ []<>(u.gone)
    \/ []<><<\E r \in client.pending : ReadAnswered(r)>>_vars
    \/ <>[](u.mCurrentState = "Error")

\* As onReadCompleted has it (line 288), an inverter is left in report-only mode
\* since the login failed.
ReportOnlyMeansNoLogin ==
    [][u.mCurrentState = "CheckLogin" /\ u'.mCurrentState = "ReadPowerYield"
        => ~u'.isLoggedIn]_vars
=============================================================================
