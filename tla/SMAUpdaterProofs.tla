-------------------------- MODULE SMAUpdaterProofs --------------------------
(***************************************************************************)
(* Theorems about SMAUpdater: its type, that the polling loop stops in the *)
(* state Error only, that the writes of a cycle are bounded, that a limit  *)
(* is written in control of the inverter only, and what status the D-Bus   *)
(* shows.                                                                  *)
(*                                                                         *)
(* The invariant has two parts. Loop says what is under way in each state  *)
(* of the socket, as in SunspecUpdaterProofs. Cycle says what the members  *)
(* are in each state of the cycle. They need each other: an answer is      *)
(* taken for what is asked for in the current state, and that it is one to *)
(* this question follows from Loop.                                        *)
(***************************************************************************)
EXTENDS SMAUpdater, ModbusTcpClientProofs

\* What the D-Bus shows is what was set, or nothing before that, or what was
\* published past setStatus without a grid code.
Shown(grid, shown, set) ==
    \/ shown = set
    \/ shown = NotPublished /\ set = "START0"
    \/ shown = "STANDBY" /\ ~grid

\* The members in the cycle: the count of writes is that of logins first, and
\* that of modes then; only an inverter that is all right gets beyond the
\* question for its condition.
Cycle(v) ==
    /\ v.logins <= MaxWrites /\ v.modes <= MaxWrites
    /\ v.mCurrentState \in {"CheckLogin", "DoLogin"} =>
          v.mWriteCount = v.logins /\ v.modes = 0
    /\ v.mCurrentState \in {"CheckOpMode", "SetOpMode"} => v.mWriteCount = v.modes
    /\ v.mCurrentState = "WritePowerLimit" => v.isLoggedIn /\ v.inWattMode
    /\ Shown(v.hasGridCode, v.statusCode, v.mStatus)
    /\ v.opCondition = "FAULT" =>
          v.mStatus = "ERROR" /\ v.mCurrentState \in {"Idle", "CheckCondition", "Error"}

\* Nothing but the one question of the current state is under way, or the
\* updater waits for its timer, or it is stuck in Error. A write is not repeated.
Online(v, c) ==
    /\ c.socket = "Connected"
    /\ ~c.closing
    /\ c.dropped = {}
    /\ c.sent = {r.id : r \in c.pending}
    /\ ConnectTimer \notin Running(c)
    /\ Len(c.timers) <= 1
    /\ \A r \in c.pending : r.kind = v.mCurrentState
    /\ Len(c.timers) = 0 <=> v.mCurrentState \in {"Idle", "Error"}
    /\ v.mTimer = "idle" <=> v.mCurrentState = "Idle"
    /\ v.mTimer = "retry" => v.mCurrentState \in ReadStates

\* One timer runs: that of the attempt, unless it has expired.
Dialling(v, c) ==
    /\ c.socket = "Connecting"
    /\ Outstanding(c) = {}
    /\ Len(c.timers) = 1
    /\ ~c.closing => ConnectTimer \in Running(c)
    /\ v.mTimer # "idle"

\* Replies run out of time one by one, before the updater connects again.
Offline(v, c) ==
    /\ c.socket = "Unconnected"
    /\ ~c.closing
    /\ c.sent = {}
    /\ Len(c.timers) \in 1..3
    /\ Last(c.timers) = UserTimer
    /\ \A r \in Outstanding(c) : r.kind \in ReadStates
    /\ v.mCurrentState = "CheckCondition"
    /\ v.mTimer = "retry"

Loop(v, c) ==
    /\ v \in UpdaterType
    /\ Cycle(v)
    /\ Sound(c, Request)
    /\ v.mTimer = "retry" <=> UserTimer \in Running(c)
    /\ Online(v, c) \/ Dialling(v, c) \/ Offline(v, c)

IInv == Loop(u, client)

----------------------------------------------------------------------------
(* The handlers as functions of the members and the client.                *)

\* The timer of the updater stops.
LEMMA StopUserTimerPair ==
    ASSUME NEW v, NEW c
    PROVE  StopUserTimer(Pair(v, c)) = Pair([v EXCEPT !.mTimer = "off"], StopTimer(c, UserTimer))
<1> DEFINE m == [Pair(v, c) EXCEPT !.u.mTimer = "off"]
<1>1. StopUserTimer(Pair(v, c)) = [m EXCEPT !.c = StopTimer(c, UserTimer)]
  BY PairUpdate DEF StopUserTimer
<1>2. m = Pair([v EXCEPT !.mTimer = "off"], c)
  BY DEF Pair
<1> HIDE DEF m
<1> QED BY <1>1, <1>2, PairUpdate

\* The members after a request, after a timer was started, and in Error.
Sending(v, state) ==
    [v EXCEPT !.mCurrentState = state,
              !.logins = IF state = "DoLogin" THEN v.logins + 1 ELSE v.logins,
              !.modes = IF state = "SetOpMode" THEN v.modes + 1 ELSE v.modes]

Waiting(v) ==
    LET lost == v.mRetryCount = MaxRetries
    IN  [v EXCEPT !.mRetryCount = IF lost THEN 0 ELSE @ + 1, !.gone = @ \/ lost,
                  !.mTimer = "retry"]

Showing(v, code) ==
    IF v.mStatus = code THEN v ELSE [v EXCEPT !.mStatus = code, !.statusCode = code]

Failing(v) ==
    [Showing([v EXCEPT !.mCurrentState = "Error"], "ERROR") EXCEPT
        !.opCondition = "FAULT", !.tracking = FALSE]

\* The states in which something is asked for or written.
LEMMA States ==
    /\ ReadStates \subseteq ModbusState /\ WriteStates \subseteq ModbusState
    /\ ModbusState = ReadStates \cup WriteStates \cup {"Idle", "Error"}
    /\ {"Idle", "Error"} \cap (ReadStates \cup WriteStates) = {}
    /\ ReadStates \cap WriteStates = {}
    /\ {"CheckCondition", "CheckState", "CheckLogin", "CheckOpMode", "ReadPowerYield",
        "ReadPowerLimit", "ReadACFrequency"} \subseteq ReadStates
    /\ "CheckCondition" \in ModbusState \ {"Idle", "Error"}
  BY DEF ModbusState, ReadStates, WriteStates, ReadAfter

\* A request.
LEMMA StartSends ==
    ASSUME NEW v \in UpdaterType, NEW c, NEW state \in ModbusState \ {"Idle", "Error"}
    PROVE  StartNextAction(Pair(v, c), state)
              = Pair(Sending(v, state), SendFrame(c, state, 0))
<1> DEFINE x == [v EXCEPT !.mCurrentState = state]
           f == SendFrame(c, state, 0)
           l == IF state = "DoLogin" THEN x.logins + 1 ELSE x.logins
           m == IF state = "SetOpMode" THEN x.modes + 1 ELSE x.modes
           y == [x EXCEPT !.logins = l]
           z == [y EXCEPT !.modes = m]
<1>1. [Pair(v, c) EXCEPT !.u.mCurrentState = state] = Pair(x, c)
  BY DEF Pair
<1>2. z = Sending(v, state)
  BY DEF Sending, UpdaterType
<1> HIDE DEF x, y
<1>3. StartNextAction(Pair(v, c), state)
         = [Pair(x, c) EXCEPT !.c = f, !.u.logins = l, !.u.modes = m]
  <2> DEFINE e == Pair(x, c)
  <2>1. Pair(v, c).u = v /\ Pair(v, c).c = c /\ e.u = x
    BY PairUpdate
  <2>2. state # "Idle" /\ state # "Error"
    OBVIOUS
  <2> HIDE DEF e
  <2>3. StartNextAction(Pair(v, c), state)
           = [e EXCEPT !.c = SendFrame(c, state, 0),
                       !.u.logins = IF state = "DoLogin" THEN @ + 1 ELSE @,
                       !.u.modes = IF state = "SetOpMode" THEN @ + 1 ELSE @]
    <3>1. [Pair(v, c) EXCEPT !.u.mCurrentState = state] = e
      BY <1>1 DEF e
    <3> QED BY <2>1, <2>2, <3>1, ZenonT(60) DEF StartNextAction
  <2> QED BY <2>1, <2>3 DEF e
<1> HIDE DEF f, l, m, z
<1>4. [Pair(x, c) EXCEPT !.c = f, !.u.logins = l, !.u.modes = m]
         = [[Pair(x, c) EXCEPT !.c = f] EXCEPT !.u = [[x EXCEPT !.logins = l] EXCEPT !.modes = m]]
  BY DEF Pair
<1>5. [[x EXCEPT !.logins = l] EXCEPT !.modes = m] = z
  BY DEF y, z
<1>6. [[Pair(x, c) EXCEPT !.c = f] EXCEPT !.u = z] = Pair(z, f)
  <2>1. [Pair(x, c) EXCEPT !.c = f] = Pair(x, f) /\ [Pair(x, f) EXCEPT !.u = z] = Pair(z, f)
    BY PairUpdate
  <2> QED BY <2>1
<1>7. StartNextAction(Pair(v, c), state) = Pair(z, f)
  BY <1>3, <1>4, <1>5, <1>6
<1> QED BY <1>2, <1>7 DEF f

\* In Idle the timer of 1000 ms is started, which is not one of the client.
LEMMA StartIdles ==
    ASSUME NEW v \in UpdaterType, NEW c
    PROVE  StartNextAction(Pair(v, c), "Idle")
              = Pair([v EXCEPT !.mCurrentState = "Idle", !.mTimer = "idle"],
                     StopTimer(c, UserTimer))
<1> DEFINE t == [v EXCEPT !.mCurrentState = "Idle"]
<1>1. [Pair(v, c) EXCEPT !.u.mCurrentState = "Idle"] = Pair(t, c)
  BY DEF Pair
<1>2. StartNextAction(Pair(v, c), "Idle") = StartIdleTimer(Pair(t, c))
  BY <1>1 DEF StartNextAction
<1>3. t.mCurrentState = "Idle"
  BY DEF UpdaterType
<1>4. StartIdleTimer(Pair(t, c)) = [StopUserTimer(Pair(t, c)) EXCEPT !.u.mTimer = "idle"]
  BY <1>3 DEF StartIdleTimer, Pair
<1> HIDE DEF t
<1>5. ASSUME NEW x, NEW d
      PROVE  [Pair(x, d) EXCEPT !.u.mTimer = "idle"] = Pair([x EXCEPT !.mTimer = "idle"], d)
  BY DEF Pair
<1> DEFINE off == [t EXCEPT !.mTimer = "off"]
<1>6. [off EXCEPT !.mTimer = "idle"] = [v EXCEPT !.mCurrentState = "Idle", !.mTimer = "idle"]
  BY DEF t, UpdaterType
<1>7. StopUserTimer(Pair(t, c)) = Pair(off, StopTimer(c, UserTimer))
  BY StopUserTimerPair
<1> HIDE DEF off
<1> QED BY <1>2, <1>4, <1>5, <1>6, <1>7

\* The status is set, and published.
LEMMA SetStatusPair ==
    ASSUME NEW v, NEW c, NEW code
    PROVE  SetStatus(Pair(v, c), code) = Pair(Showing(v, code), c)
<1>1. CASE v.mStatus = code
  BY <1>1 DEF SetStatus, Showing, Pair
<1>2. CASE v.mStatus # code
  <2> DEFINE x == [v EXCEPT !.mStatus = code]
  <2>1. SetStatus(Pair(v, c), code)
           = [[Pair(v, c) EXCEPT !.u.mStatus = code] EXCEPT !.u.statusCode = code]
    BY <1>2 DEF SetStatus, Pair
  <2>2. [Pair(v, c) EXCEPT !.u.mStatus = code] = Pair(x, c)
    BY DEF Pair
  <2>3. Showing(v, code) = [x EXCEPT !.statusCode = code]
    BY <1>2 DEF Showing
  <2> HIDE DEF x
  <2>4. [Pair(x, c) EXCEPT !.u.statusCode = code] = Pair([x EXCEPT !.statusCode = code], c)
    BY DEF Pair
  <2> QED BY <2>1, <2>2, <2>3, <2>4
<1> QED BY <1>1, <1>2

\* The setters of the inverter.
LEMMA SetLoggedOnPair ==
    \A v, c, b : SetLoggedOn(Pair(v, c), b) = Pair([v EXCEPT !.isLoggedIn = b], c)
  BY DEF SetLoggedOn, Pair

\* The same for the member opCondition.
LEMMA SetOperatingConditionPair ==
    \A v, c, b : SetOperatingCondition(Pair(v, c), b) = Pair([v EXCEPT !.opCondition = b], c)
  BY DEF SetOperatingCondition, Pair

\* The same for the member tracking.
LEMMA SetOperatingStatePair ==
    \A v, c, b : SetOperatingState(Pair(v, c), b) = Pair([v EXCEPT !.tracking = b], c)
  BY DEF SetOperatingState, Pair

\* The same for the member inWattMode.
LEMMA SetOperatingModePair ==
    \A v, c, b : SetOperatingMode(Pair(v, c), b) = Pair([v EXCEPT !.inWattMode = b], c)
  BY DEF SetOperatingMode, Pair

\* In Error nothing is sent.
LEMMA StartFails ==
    ASSUME NEW v, NEW c
    PROVE  StartNextAction(Pair(v, c), "Error") = Pair(Failing(v), c)
<1> DEFINE x == [v EXCEPT !.mCurrentState = "Error"]
           y == Showing(x, "ERROR")
           z == [y EXCEPT !.opCondition = "FAULT"]
<1>1. [Pair(v, c) EXCEPT !.u.mCurrentState = "Error"] = Pair(x, c)
  BY DEF Pair
<1>2. StartNextAction(Pair(v, c), "Error") = ShowError(Pair(x, c))
  BY <1>1 DEF StartNextAction
<1>3. Failing(v) = [z EXCEPT !.tracking = FALSE]
  BY DEF Failing
<1> HIDE DEF x, y, z
<1>4. SetStatus(Pair(x, c), "ERROR") = Pair(y, c)
  BY SetStatusPair DEF y
<1>5. SetOperatingCondition(Pair(y, c), "FAULT") = Pair(z, c)
  BY SetOperatingConditionPair, Zenon DEF z
<1>6. SetOperatingState(Pair(z, c), FALSE) = Pair([z EXCEPT !.tracking = FALSE], c)
  BY SetOperatingStatePair, Zenon
<1> QED BY <1>2, <1>3, <1>4, <1>5, <1>6 DEF ShowError

\* After an error the updater waits for its timer of 5000 ms.
LEMMA ErrorWaits ==
    ASSUME NEW v \in UpdaterType, NEW c, v.mCurrentState # "Idle"
    PROVE  HandleError(Pair(v, c)) = Pair(Waiting(v), StartTimer(c, UserTimer))
<1> DEFINE lost == v.mRetryCount = MaxRetries
           t    == [v EXCEPT !.mRetryCount = IF lost THEN 0 ELSE @ + 1, !.gone = @ \/ lost]
           n    == IF lost THEN 0 ELSE v.mRetryCount + 1
           g    == v.gone \/ lost
<1>1. HandleError(Pair(v, c)) = StartIdleTimer(Pair(t, c))
  <2> HIDE DEF n, g
  <2>1. HandleError(Pair(v, c))
           = StartIdleTimer([Pair(v, c) EXCEPT !.u = [[v EXCEPT !.mRetryCount = n]
                                                          EXCEPT !.gone = g]])
    BY DEF HandleError, Pair, n, g
  <2>2. t = [[v EXCEPT !.mRetryCount = n] EXCEPT !.gone = g]
    BY DEF n, g
  <2> QED BY <2>1, <2>2, PairUpdate
<1>2. t.mCurrentState = v.mCurrentState
  BY DEF UpdaterType
<1>3. [t EXCEPT !.mTimer = "retry"] = Waiting(v)
  BY DEF Waiting, UpdaterType
<1> HIDE DEF t
<1>4. StartIdleTimer(Pair(t, c)) = Pair([t EXCEPT !.mTimer = "retry"], StartTimer(c, UserTimer))
  BY <1>2 DEF StartIdleTimer, Pair
<1> QED BY <1>1, <1>3, <1>4

\* What is sent is a request.
LEMMA RequestTyped ==
    ASSUME NEW state \in ModbusState \ {"Idle", "Error"}
    PROVE  \A n \in Ids : [id |-> n, kind |-> state, value |-> 0] \in Request
<1>1. state \in ReadStates \cup WriteStates
  BY DEF ModbusState
<1> QED BY <1>1 DEF Request

----------------------------------------------------------------------------
(* The cycle.                                                              *)

\* What holds of the members when a state is entered, so that Cycle holds then.
Ready(v, state) ==
    /\ v \in UpdaterType
    /\ v.logins <= MaxWrites /\ v.modes <= MaxWrites
    /\ state = "DoLogin" =>
          v.logins < MaxWrites /\ v.mWriteCount = v.logins + 1 /\ v.modes = 0
    /\ state = "CheckLogin" => v.mWriteCount = v.logins /\ v.modes = 0
    /\ state = "SetOpMode" => v.modes < MaxWrites /\ v.mWriteCount = v.modes + 1
    /\ state = "CheckOpMode" => v.mWriteCount = v.modes
    /\ state = "WritePowerLimit" => v.isLoggedIn /\ v.inWattMode
    /\ Shown(v.hasGridCode, v.statusCode, v.mStatus)
    /\ v.opCondition = "FAULT" =>
          v.mStatus = "ERROR" /\ state \in {"Idle", "CheckCondition", "Error"}

\* A request leads to its state of the cycle.
LEMMA SendingCycle ==
    ASSUME NEW v, NEW state \in ModbusState \ {"Idle", "Error"}, Ready(v, state)
    PROVE  /\ Sending(v, state) \in UpdaterType
           /\ Cycle(Sending(v, state))
           /\ Sending(v, state).mCurrentState = state
           /\ Sending(v, state).mTimer = v.mTimer
<1> DEFINE w == Sending(v, state)
           l == IF state = "DoLogin" THEN v.logins + 1 ELSE v.logins
           m == IF state = "SetOpMode" THEN v.modes + 1 ELSE v.modes
<1>1. v \in UpdaterType
  BY DEF Ready
<1>2. /\ l \in 0..MaxWrites + 1 /\ l <= MaxWrites
      /\ m \in 0..MaxWrites + 1 /\ m <= MaxWrites
  BY <1>1 DEF Ready, UpdaterType, MaxWrites
<1>3. w = [v EXCEPT !.mCurrentState = state, !.logins = l, !.modes = m]
  BY DEF Sending
<1> HIDE DEF w
<1>4. /\ w \in UpdaterType
      /\ w.mCurrentState = state /\ w.logins = l /\ w.modes = m
      /\ w.mTimer = v.mTimer /\ w.mWriteCount = v.mWriteCount
      /\ w.isLoggedIn = v.isLoggedIn /\ w.inWattMode = v.inWattMode
      /\ w.hasGridCode = v.hasGridCode /\ w.statusCode = v.statusCode
      /\ w.mStatus = v.mStatus /\ w.opCondition = v.opCondition
  <2> HIDE DEF l, m
  <2> QED BY <1>1, <1>2, <1>3 DEF UpdaterType
<1>5. Cycle(w)
  BY <1>1, <1>2, <1>4 DEF Ready, Cycle, UpdaterType
<1> QED BY <1>4, <1>5 DEF w

\* The cycle ends.
LEMMA IdleCycle ==
    ASSUME NEW v, Ready(v, "Idle")
    PROVE  LET w == [v EXCEPT !.mCurrentState = "Idle", !.mTimer = "idle"]
           IN  w \in UpdaterType /\ Cycle(w) /\ w.mCurrentState = "Idle" /\ w.mTimer = "idle"
<1> DEFINE w == [v EXCEPT !.mCurrentState = "Idle", !.mTimer = "idle"]
<1>1. v \in UpdaterType
  BY DEF Ready
<1>2. /\ w \in UpdaterType
      /\ w.mCurrentState = "Idle" /\ w.mTimer = "idle"
      /\ w.logins = v.logins /\ w.modes = v.modes
      /\ w.hasGridCode = v.hasGridCode /\ w.statusCode = v.statusCode
      /\ w.mStatus = v.mStatus /\ w.opCondition = v.opCondition
  BY <1>1 DEF UpdaterType, ModbusState
<1> HIDE DEF w
<1>3. Cycle(w)
  BY <1>2 DEF Ready, Cycle
<1> QED BY <1>2, <1>3 DEF w

\* The members v and w differ in the status only.
SameButStatus(v, w) ==
    /\ w.mCurrentState = v.mCurrentState /\ w.mTimer = v.mTimer
    /\ w.mWriteCount = v.mWriteCount /\ w.logins = v.logins /\ w.modes = v.modes
    /\ w.isLoggedIn = v.isLoggedIn /\ w.inWattMode = v.inWattMode
    /\ w.hasGridCode = v.hasGridCode /\ w.opCondition = v.opCondition

\* The status that was set is shown if the last one was.
LEMMA ShowingTyped ==
    ASSUME NEW v \in UpdaterType, NEW code \in Status
    PROVE  /\ Showing(v, code) \in UpdaterType
           /\ SameButStatus(v, Showing(v, code))
           /\ Showing(v, code).mStatus = code
           /\ Shown(v.hasGridCode, v.statusCode, v.mStatus)
                 => LET w == Showing(v, code)
                    IN  Shown(w.hasGridCode, w.statusCode, w.mStatus)
<1>1. CASE v.mStatus = code
  BY <1>1 DEF Showing, SameButStatus
<1>2. CASE v.mStatus # code
  <2> DEFINE w == [v EXCEPT !.mStatus = code, !.statusCode = code]
  <2>1. Showing(v, code) = w
    BY <1>2 DEF Showing
  <2>2. w \in UpdaterType /\ SameButStatus(v, w) /\ w.mStatus = code /\ w.statusCode = code
    BY DEF UpdaterType, SameButStatus
  <2>3. Shown(w.hasGridCode, code, code)
    BY DEF Shown
  <2> QED BY <2>1, <2>2, <2>3
<1> QED BY <1>1, <1>2

\* Error is shown as such.
LEMMA FailingCycle ==
    ASSUME NEW v, Ready(v, "Error")
    PROVE  /\ Failing(v) \in UpdaterType
           /\ Cycle(Failing(v))
           /\ Failing(v).mCurrentState = "Error"
           /\ Failing(v).mTimer = v.mTimer
<1> DEFINE x == [v EXCEPT !.mCurrentState = "Error"]
           y == Showing(x, "ERROR")
           w == Failing(v)
<1>1. v \in UpdaterType
  BY DEF Ready
<1>2. /\ x \in UpdaterType
      /\ x.mCurrentState = "Error" /\ x.mTimer = v.mTimer
      /\ x.logins = v.logins /\ x.modes = v.modes
      /\ x.hasGridCode = v.hasGridCode /\ x.statusCode = v.statusCode
      /\ x.mStatus = v.mStatus
  BY <1>1 DEF UpdaterType, ModbusState
<1>3. w = [y EXCEPT !.opCondition = "FAULT", !.tracking = FALSE]
  BY DEF Failing
<1> HIDE DEF x, w
<1>4. /\ y \in UpdaterType /\ SameButStatus(x, y) /\ y.mStatus = "ERROR"
      /\ Shown(x.hasGridCode, x.statusCode, x.mStatus)
              => Shown(y.hasGridCode, y.statusCode, y.mStatus)
  BY <1>2, ShowingTyped DEF Status
<1> HIDE DEF y
<1>5. /\ w \in UpdaterType
      /\ w.mCurrentState = y.mCurrentState /\ w.mTimer = y.mTimer
      /\ w.logins = y.logins /\ w.modes = y.modes
      /\ w.hasGridCode = y.hasGridCode /\ w.statusCode = y.statusCode
      /\ w.mStatus = y.mStatus
  BY <1>3, <1>4 DEF UpdaterType, Condition
<1>6. Cycle(w)
  BY <1>2, <1>4, <1>5 DEF Ready, Cycle, SameButStatus
<1> QED BY <1>2, <1>4, <1>5, <1>6 DEF w, SameButStatus

\* An error counts, and otherwise leaves the members alone.
LEMMA WaitingCycle ==
    ASSUME NEW v \in UpdaterType, Cycle(v)
    PROVE  /\ Waiting(v) \in UpdaterType
           /\ Cycle(Waiting(v))
           /\ Waiting(v).mCurrentState = v.mCurrentState
           /\ Waiting(v).mTimer = "retry"
<1> DEFINE lost == v.mRetryCount = MaxRetries
           n    == IF lost THEN 0 ELSE v.mRetryCount + 1
           g    == v.gone \/ lost
           w    == Waiting(v)
<1>1. n \in 0..MaxRetries /\ g \in BOOLEAN
  BY DEF UpdaterType, MaxRetries
<1>2. w = [v EXCEPT !.mRetryCount = n, !.gone = g, !.mTimer = "retry"]
  BY DEF Waiting, UpdaterType
<1> HIDE DEF n, g, w
<1>3. /\ w \in UpdaterType
      /\ w.mCurrentState = v.mCurrentState /\ w.mTimer = "retry"
      /\ w.logins = v.logins /\ w.modes = v.modes /\ w.mWriteCount = v.mWriteCount
      /\ w.isLoggedIn = v.isLoggedIn /\ w.inWattMode = v.inWattMode
      /\ w.hasGridCode = v.hasGridCode /\ w.statusCode = v.statusCode
      /\ w.mStatus = v.mStatus /\ w.opCondition = v.opCondition
  BY <1>1, <1>2 DEF UpdaterType
<1>4. Cycle(w)
  BY <1>3 DEF Cycle
<1> QED BY <1>3, <1>4 DEF w

\* A new cycle may start at any time.
LEMMA CheckConditionReady ==
    ASSUME NEW v \in UpdaterType, Cycle(v)
    PROVE  Ready(v, "CheckCondition")
  BY DEF Cycle, Ready

\* A state that reads may be entered again.
LEMMA ReadAgainReady ==
    ASSUME NEW v \in UpdaterType, Cycle(v), v.mCurrentState \in ReadStates
    PROVE  Ready(v, v.mCurrentState)
  BY DEF Cycle, Ready, ReadStates, ReadAfter

----------------------------------------------------------------------------
(* The handlers of an answer, one for each state that reads: from members  *)
(* in the cycle they lead to a state that is ready to be entered.          *)

Continues(v, c, s) ==
    \E w \in UpdaterType, state \in ModbusState :
        /\ Ready(w, state)
        /\ w.mTimer = v.mTimer
        /\ s = StartNextAction(Pair(w, c), state)

\* CheckCondition: the inverter is all right, or its fault is shown.
LEMMA ConditionContinues ==
    ASSUME NEW v \in UpdaterType, Cycle(v), v.mCurrentState = "CheckCondition", NEW c,
           NEW ok \in BOOLEAN
    PROVE  Continues(v, c, OnCondition(Pair(v, c), ok))
<1>1. "OK" \in Condition /\ "FAULT" \in Condition /\ "ERROR" \in Status
  BY DEF Condition, Status
<1>2. "CheckState" \in ModbusState /\ "Idle" \in ModbusState
  BY States
<1>3. CASE ok
  <2> DEFINE w == [v EXCEPT !.opCondition = "OK"]
  <2>1. OnCondition(Pair(v, c), ok) = StartNextAction(Pair(w, c), "CheckState")
    <3>1. SetOperatingCondition(Pair(v, c), "OK") = Pair(w, c)
      BY SetOperatingConditionPair, Zenon
    <3> QED BY <1>3, <3>1 DEF OnCondition
  <2>2. /\ w \in UpdaterType /\ w.opCondition = "OK" /\ w.mTimer = v.mTimer
        /\ w.logins = v.logins /\ w.modes = v.modes
        /\ w.hasGridCode = v.hasGridCode /\ w.statusCode = v.statusCode
        /\ w.mStatus = v.mStatus
    BY <1>1 DEF UpdaterType
  <2> HIDE DEF w
  <2>3. Ready(w, "CheckState")
    BY <2>2 DEF Cycle, Ready
  <2> QED BY <1>2, <2>1, <2>2, <2>3 DEF Continues
<1>4. CASE ~ok
  <2> DEFINE x == [v EXCEPT !.opCondition = "FAULT"]
             w == Showing(x, "ERROR")
  <2>1. OnCondition(Pair(v, c), ok) = StartNextAction(Pair(w, c), "Idle")
    <3>1. SetOperatingCondition(Pair(v, c), "FAULT") = Pair(x, c)
      BY SetOperatingConditionPair, Zenon
    <3> HIDE DEF x
    <3>2. SetStatus(Pair(x, c), "ERROR") = Pair(w, c)
      BY SetStatusPair
    <3> QED BY <1>4, <3>1, <3>2 DEF OnCondition
  <2>2. /\ x \in UpdaterType /\ x.mTimer = v.mTimer
        /\ x.logins = v.logins /\ x.modes = v.modes
        /\ x.hasGridCode = v.hasGridCode /\ x.statusCode = v.statusCode
        /\ x.mStatus = v.mStatus
    BY <1>1 DEF UpdaterType
  <2> HIDE DEF x
  <2>3. /\ w \in UpdaterType /\ SameButStatus(x, w) /\ w.mStatus = "ERROR"
        /\ Shown(x.hasGridCode, x.statusCode, x.mStatus)
              => Shown(w.hasGridCode, w.statusCode, w.mStatus)
    BY <1>1, <2>2, ShowingTyped
  <2> HIDE DEF w
  <2>4. Ready(w, "Idle")
    BY <2>2, <2>3 DEF Cycle, Ready, SameButStatus
  <2>5. w.mTimer = v.mTimer
    BY <2>2, <2>3 DEF SameButStatus
  <2> QED BY <1>2, <2>1, <2>3, <2>4, <2>5 DEF Continues
<1> QED BY <1>3, <1>4

\* CheckState: the writes are counted anew.
LEMMA StateContinues ==
    ASSUME NEW v \in UpdaterType, Cycle(v), v.mCurrentState = "CheckState", NEW c,
           NEW tracking \in BOOLEAN
    PROVE  Continues(v, c, OnState(Pair(v, c), tracking))
<1> DEFINE x == [v EXCEPT !.tracking = tracking]
           y == [x EXCEPT !.mWriteCount = 0, !.logins = 0, !.modes = 0]
           z == IF v.hasGridCode THEN y ELSE [y EXCEPT !.statusCode = "STANDBY"]
           w == IF tracking THEN z ELSE Showing(z, "STANDBY")
           state == IF tracking /\ v.hasGridCode THEN "CheckLogin" ELSE "ReadPowerYield"
<1>1. OnState(Pair(v, c), tracking) = StartNextAction(Pair(w, c), state)
  <2>1. SetOperatingState(Pair(v, c), tracking) = Pair(x, c)
    BY SetOperatingStatePair, Zenon
  <2> HIDE DEF x
  <2>2. [Pair(x, c) EXCEPT !.u.mWriteCount = 0, !.u.logins = 0, !.u.modes = 0] = Pair(y, c)
    <3>1. [Pair(x, c) EXCEPT !.u.mWriteCount = 0, !.u.logins = 0, !.u.modes = 0]
             = [Pair(x, c) EXCEPT !.u = [[[x EXCEPT !.mWriteCount = 0] EXCEPT !.logins = 0]
                                            EXCEPT !.modes = 0]]
      BY DEF Pair
    <3>2. [[[x EXCEPT !.mWriteCount = 0] EXCEPT !.logins = 0] EXCEPT !.modes = 0] = y
      OBVIOUS
    <3> HIDE DEF y
    <3> QED BY <3>1, <3>2, PairUpdate
  <2> HIDE DEF y
  <2>3. [Pair(y, c) EXCEPT !.u.statusCode = "STANDBY"]
           = Pair([y EXCEPT !.statusCode = "STANDBY"], c)
    BY DEF Pair
  <2>4. Pair(v, c).u = v
    BY PairUpdate
  <2>5. z = IF v.hasGridCode THEN y ELSE [y EXCEPT !.statusCode = "STANDBY"]
    OBVIOUS
  <2> HIDE DEF z
  <2>6. (IF v.hasGridCode THEN Pair(y, c) ELSE [Pair(y, c) EXCEPT !.u.statusCode = "STANDBY"])
           = Pair(z, c)
    BY <2>3, <2>5
  <2>7. OnState(Pair(v, c), tracking)
           = IF tracking
             THEN StartNextAction(Pair(z, c), IF v.hasGridCode THEN "CheckLogin"
                                              ELSE "ReadPowerYield")
             ELSE StartNextAction(SetStatus(Pair(z, c), "STANDBY"), "ReadPowerYield")
    <3> DEFINE e == Pair(x, c)
               f == [e EXCEPT !.u.mWriteCount = 0, !.u.logins = 0, !.u.modes = 0]
    <3>1. SetOperatingState(Pair(v, c), tracking) = e /\ f = Pair(y, c)
      BY <2>1, <2>2
    <3> HIDE DEF e
    <3>2. OnState(Pair(v, c), tracking)
             = LET r == IF v.hasGridCode THEN f ELSE [f EXCEPT !.u.statusCode = "STANDBY"]
               IN  IF tracking
                   THEN StartNextAction(r, IF v.hasGridCode THEN "CheckLogin"
                                           ELSE "ReadPowerYield")
                   ELSE StartNextAction(SetStatus(r, "STANDBY"), "ReadPowerYield")
      BY <2>4, <3>1 DEF OnState
    <3> HIDE DEF f
    <3> QED BY <2>6, <3>1, <3>2
  <2>8. SetStatus(Pair(z, c), "STANDBY") = Pair(Showing(z, "STANDBY"), c)
    BY SetStatusPair
  <2> QED BY <2>7, <2>8
<1>2. v.opCondition # "FAULT"
  BY DEF Cycle
<1>3. /\ x \in UpdaterType /\ x.mTimer = v.mTimer
      /\ x.hasGridCode = v.hasGridCode /\ x.statusCode = v.statusCode
      /\ x.mStatus = v.mStatus /\ x.opCondition = v.opCondition
  BY DEF UpdaterType
<1> HIDE DEF x
<1>4. /\ y \in UpdaterType /\ y.mTimer = v.mTimer
      /\ y.mWriteCount = 0 /\ y.logins = 0 /\ y.modes = 0
      /\ y.hasGridCode = v.hasGridCode /\ y.statusCode = v.statusCode
      /\ y.mStatus = v.mStatus /\ y.opCondition = v.opCondition
  <2>1. 0 \in -1..MaxWrites /\ 0 \in 0..MaxWrites + 1
    BY DEF MaxWrites
  <2> QED BY <1>3, <2>1 DEF UpdaterType
<1> HIDE DEF y
<1>5. /\ z \in UpdaterType /\ z.mTimer = v.mTimer
      /\ z.mWriteCount = 0 /\ z.logins = 0 /\ z.modes = 0
      /\ z.hasGridCode = v.hasGridCode /\ z.opCondition = v.opCondition
      /\ Shown(z.hasGridCode, z.statusCode, z.mStatus)
  BY <1>4 DEF UpdaterType, Status, Cycle, Shown
<1> HIDE DEF z
<1>6. /\ w \in UpdaterType /\ w.mTimer = v.mTimer
      /\ w.mWriteCount = 0 /\ w.logins = 0 /\ w.modes = 0
      /\ w.opCondition = v.opCondition
      /\ Shown(w.hasGridCode, w.statusCode, w.mStatus)
  BY <1>5, ShowingTyped DEF SameButStatus, Status
<1> HIDE DEF w
<1>7. Ready(w, state)
  BY <1>2, <1>6 DEF Ready, MaxWrites
<1>8. state \in ModbusState
  BY States
<1> QED BY <1>1, <1>6, <1>7, <1>8 DEF Continues

\* CheckLogin: another attempt, reading only, or the mode is next.
LEMMA LoginContinues ==
    ASSUME NEW v \in UpdaterType, Cycle(v), v.mCurrentState = "CheckLogin", NEW c,
           NEW loggedIn \in BOOLEAN
    PROVE  Continues(v, c, OnLogin(Pair(v, c), loggedIn))
<1> DEFINE x == [v EXCEPT !.isLoggedIn = loggedIn]
<1>1. SetLoggedOn(Pair(v, c), loggedIn) = Pair(x, c)
  BY SetLoggedOnPair, Zenon
<1>2. Pair(v, c).u = v
  BY PairUpdate
<1>3. /\ v.opCondition # "FAULT"
      /\ Shown(v.hasGridCode, v.statusCode, v.mStatus)
      /\ v.mWriteCount = v.logins /\ v.modes = 0 /\ v.logins \in 0..MaxWrites
  BY DEF Cycle, UpdaterType, MaxWrites
<1>4. /\ x \in UpdaterType /\ x.mTimer = v.mTimer
      /\ x.mWriteCount = v.mWriteCount /\ x.logins = v.logins /\ x.modes = v.modes
      /\ x.hasGridCode = v.hasGridCode /\ x.statusCode = v.statusCode
      /\ x.mStatus = v.mStatus /\ x.opCondition = v.opCondition
  BY DEF UpdaterType
<1> HIDE DEF x
<1>5. CASE ~loggedIn /\ v.mWriteCount < MaxWrites
  <2> DEFINE n == x.mWriteCount + 1
             w == [x EXCEPT !.mWriteCount = n]
  <2>1. OnLogin(Pair(v, c), loggedIn) = StartNextAction(Pair(w, c), "DoLogin")
    <3> DEFINE e == Pair(x, c)
    <3>1. [e EXCEPT !.u.mWriteCount = @ + 1] = Pair(w, c)
      BY DEF Pair
    <3>2. SetLoggedOn(Pair(v, c), loggedIn) = e
      BY <1>1
    <3>3. /\ ~loggedIn /\ Pair(v, c).u.mWriteCount < MaxWrites
          /\ ~(Pair(v, c).u.mWriteCount >= MaxWrites)
      BY <1>2, <1>3, <1>5 DEF MaxWrites
    <3> HIDE DEF e, w
    <3>4. OnLogin(Pair(v, c), loggedIn)
             = StartNextAction([e EXCEPT !.u.mWriteCount = @ + 1], "DoLogin")
      BY <3>2, <3>3 DEF OnLogin
    <3> QED BY <3>1, <3>4
  <2>2. n \in 0..MaxWrites /\ n = x.logins + 1
    BY <1>3, <1>4, <1>5 DEF MaxWrites
  <2>3. /\ w \in UpdaterType /\ w.mTimer = v.mTimer
        /\ w.mWriteCount = n /\ w.logins = x.logins /\ w.modes = x.modes
        /\ w.hasGridCode = x.hasGridCode /\ w.statusCode = x.statusCode
        /\ w.mStatus = x.mStatus /\ w.opCondition = x.opCondition
    <3> HIDE DEF n
    <3> QED BY <1>4, <2>2 DEF UpdaterType, MaxWrites
  <2> HIDE DEF w, n
  <2>4. Ready(w, "DoLogin")
    BY <1>3, <1>4, <1>5, <2>2, <2>3 DEF Ready, MaxWrites
  <2> QED BY <2>1, <2>3, <2>4 DEF Continues, ModbusState, WriteStates
<1>6. CASE ~(~loggedIn /\ v.mWriteCount < MaxWrites) /\ v.mWriteCount >= MaxWrites
  <2> DEFINE w == Showing(x, "STANDBY")
  <2>1. OnLogin(Pair(v, c), loggedIn) = StartNextAction(Pair(w, c), "ReadPowerYield")
    <3>1. SetStatus(Pair(x, c), "STANDBY") = Pair(w, c)
      BY SetStatusPair
    <3> QED BY <1>1, <1>2, <1>6, <3>1 DEF OnLogin
  <2>2. /\ w \in UpdaterType /\ SameButStatus(x, w) /\ w.mStatus = "STANDBY"
        /\ Shown(x.hasGridCode, x.statusCode, x.mStatus)
              => Shown(w.hasGridCode, w.statusCode, w.mStatus)
    BY <1>4, ShowingTyped DEF Status
  <2> HIDE DEF w
  <2>3. Ready(w, "ReadPowerYield") /\ w.mTimer = v.mTimer
    BY <1>3, <1>4, <2>2 DEF Ready, SameButStatus, MaxWrites
  <2> QED BY <2>1, <2>2, <2>3, States DEF Continues
<1>7. CASE ~(~loggedIn /\ v.mWriteCount < MaxWrites) /\ ~(v.mWriteCount >= MaxWrites)
  <2> DEFINE w == [x EXCEPT !.mWriteCount = 0]
  <2>1. OnLogin(Pair(v, c), loggedIn) = StartNextAction(Pair(w, c), "CheckOpMode")
    <3>1. [Pair(x, c) EXCEPT !.u.mWriteCount = 0] = Pair(w, c)
      BY DEF Pair
    <3> QED BY <1>1, <1>2, <1>7, <3>1 DEF OnLogin
  <2>2. /\ w \in UpdaterType /\ w.mTimer = v.mTimer
        /\ w.mWriteCount = 0 /\ w.logins = x.logins /\ w.modes = x.modes
        /\ w.hasGridCode = x.hasGridCode /\ w.statusCode = x.statusCode
        /\ w.mStatus = x.mStatus /\ w.opCondition = x.opCondition
    BY <1>4 DEF UpdaterType, MaxWrites
  <2> HIDE DEF w
  <2>3. Ready(w, "CheckOpMode")
    BY <1>3, <1>4, <2>2 DEF Ready, MaxWrites
  <2> QED BY <2>1, <2>2, <2>3, States DEF Continues
<1> QED BY <1>5, <1>6, <1>7

\* CheckOpMode: another attempt, or the measurements are next.
LEMMA OpModeContinues ==
    ASSUME NEW v \in UpdaterType, Cycle(v), v.mCurrentState = "CheckOpMode", NEW c,
           NEW watt \in BOOLEAN
    PROVE  Continues(v, c, OnOpMode(Pair(v, c), watt))
<1> DEFINE x    == [v EXCEPT !.inWattMode = watt]
           code == IF v.mPowerLimitWatt = MaxPower THEN "MPPT" ELSE "THROTTLED"
<1>1. SetOperatingMode(Pair(v, c), watt) = Pair(x, c)
  BY SetOperatingModePair, Zenon
<1>2. Pair(v, c).u = v
  BY PairUpdate
<1>3. /\ v.opCondition # "FAULT"
      /\ Shown(v.hasGridCode, v.statusCode, v.mStatus)
      /\ v.logins <= MaxWrites
      /\ v.mWriteCount = v.modes /\ v.modes \in 0..MaxWrites
  BY DEF Cycle, UpdaterType, MaxWrites
<1>4. /\ x \in UpdaterType /\ x.mTimer = v.mTimer
      /\ x.mWriteCount = v.mWriteCount /\ x.logins = v.logins /\ x.modes = v.modes
      /\ x.hasGridCode = v.hasGridCode /\ x.statusCode = v.statusCode
      /\ x.mStatus = v.mStatus /\ x.opCondition = v.opCondition
  BY DEF UpdaterType
<1> HIDE DEF x
<1>5. CASE ~watt /\ v.mWriteCount < MaxWrites
  <2> DEFINE n == x.mWriteCount + 1
             w == [x EXCEPT !.mWriteCount = n]
  <2>1. OnOpMode(Pair(v, c), watt) = StartNextAction(Pair(w, c), "SetOpMode")
    <3> DEFINE e == Pair(x, c)
    <3>1. [e EXCEPT !.u.mWriteCount = @ + 1] = Pair(w, c)
      BY DEF Pair
    <3>2. SetOperatingMode(Pair(v, c), watt) = e
      BY <1>1
    <3>3. ~watt /\ Pair(v, c).u.mWriteCount < MaxWrites
      BY <1>2, <1>5
    <3> HIDE DEF e, w
    <3>4. OnOpMode(Pair(v, c), watt)
             = StartNextAction([e EXCEPT !.u.mWriteCount = @ + 1], "SetOpMode")
      BY <3>2, <3>3 DEF OnOpMode
    <3> QED BY <3>1, <3>4
  <2>2. n \in 0..MaxWrites /\ n = x.modes + 1
    BY <1>3, <1>4, <1>5 DEF MaxWrites
  <2>3. /\ w \in UpdaterType /\ w.mTimer = v.mTimer
        /\ w.mWriteCount = n /\ w.logins = x.logins /\ w.modes = x.modes
        /\ w.hasGridCode = x.hasGridCode /\ w.statusCode = x.statusCode
        /\ w.mStatus = x.mStatus /\ w.opCondition = x.opCondition
    <3> HIDE DEF n
    <3> QED BY <1>4, <2>2 DEF UpdaterType, MaxWrites
  <2> HIDE DEF w, n
  <2>4. Ready(w, "SetOpMode")
    BY <1>3, <1>4, <1>5, <2>2, <2>3 DEF Ready, MaxWrites
  <2> QED BY <2>1, <2>3, <2>4 DEF Continues, ModbusState, WriteStates
<1>6. CASE ~(~watt /\ v.mWriteCount < MaxWrites)
  <2> DEFINE w == Showing(x, code)
  <2>1. OnOpMode(Pair(v, c), watt) = StartNextAction(Pair(w, c), "ReadPowerYield")
    <3> DEFINE e == Pair(x, c)
    <3>1. SetStatus(e, code) = Pair(w, c)
      BY SetStatusPair
    <3>2. SetOperatingMode(Pair(v, c), watt) = e
      BY <1>1
    <3> HIDE DEF e, w
    <3>3. OnOpMode(Pair(v, c), watt) = StartNextAction(SetStatus(e, code), "ReadPowerYield")
      BY <1>2, <1>6, <3>2 DEF OnOpMode
    <3> QED BY <3>1, <3>3
  <2>2. code \in Status
    BY DEF Status
  <2> HIDE DEF code
  <2>3. /\ w \in UpdaterType /\ SameButStatus(x, w) /\ w.mStatus = code
        /\ Shown(x.hasGridCode, x.statusCode, x.mStatus)
              => Shown(w.hasGridCode, w.statusCode, w.mStatus)
    BY <1>4, <2>2, ShowingTyped
  <2> HIDE DEF w
  <2>4. Ready(w, "ReadPowerYield") /\ w.mTimer = v.mTimer
    BY <1>3, <1>4, <2>3 DEF Ready, SameButStatus, MaxWrites
  <2> QED BY <2>1, <2>3, <2>4, States DEF Continues
<1> QED BY <1>5, <1>6

\* ReadPowerYield: the measurements, or the end of the cycle.
LEMMA YieldContinues ==
    ASSUME NEW v \in UpdaterType, Cycle(v), v.mCurrentState = "ReadPowerYield", NEW c
    PROVE  Continues(v, c, OnYield(Pair(v, c)))
<1>1. Pair(v, c).u = v
  BY PairUpdate
<1>2. CASE v.tracking
  <2>1. OnYield(Pair(v, c)) = StartNextAction(Pair(v, c), "ReadACFrequency")
    BY <1>1, <1>2 DEF OnYield
  <2>2. Ready(v, "ReadACFrequency")
    BY DEF Cycle, Ready
  <2> QED BY <2>1, <2>2, States DEF Continues
<1>3. CASE ~v.tracking
  <2> DEFINE w == Showing(v, "STANDBY")
  <2>1. OnYield(Pair(v, c)) = StartNextAction(Pair(w, c), "Idle")
    <3>1. SetStatus(Pair(v, c), "STANDBY") = Pair(w, c)
      BY SetStatusPair
    <3> QED BY <1>1, <1>3, <3>1 DEF OnYield
  <2>2. /\ w \in UpdaterType /\ SameButStatus(v, w) /\ w.mStatus = "STANDBY"
        /\ Shown(v.hasGridCode, v.statusCode, v.mStatus)
              => Shown(w.hasGridCode, w.statusCode, w.mStatus)
    BY ShowingTyped DEF Status
  <2> HIDE DEF w
  <2>3. Ready(w, "Idle") /\ w.mTimer = v.mTimer
    BY <2>2 DEF Cycle, Ready, SameButStatus
  <2> QED BY <2>1, <2>2, <2>3, States DEF Continues
<1> QED BY <1>2, <1>3

\* ReadPowerLimit: the limit is written in control of the inverter only.
LEMMA PowerLimitContinues ==
    ASSUME NEW v \in UpdaterType, Cycle(v), v.mCurrentState = "ReadPowerLimit", NEW c
    PROVE  Continues(v, c, OnPowerLimit(Pair(v, c)))
<1> DEFINE state == IF v.isLoggedIn /\ v.inWattMode THEN "WritePowerLimit" ELSE "Idle"
<1>1. OnPowerLimit(Pair(v, c)) = StartNextAction(Pair(v, c), state)
  BY PairUpdate DEF OnPowerLimit
<1>2. Ready(v, state)
  BY DEF Cycle, Ready
<1>3. state \in ModbusState
  BY DEF ModbusState, WriteStates
<1> QED BY <1>1, <1>2, <1>3 DEF Continues

\* The number of registers asked for in the states with a handler of their own.
LEMMA Sizes ==
    /\ \A state \in {"CheckCondition", "CheckState", "CheckLogin", "CheckOpMode",
                     "ReadPowerLimit"} : Size(state) = 2
    /\ Size("ReadPowerYield") = 8
  BY DEF Size

\* A good reply to the question of the current state.
LEMMA ValuesContinue ==
    ASSUME NEW v \in UpdaterType, Cycle(v), v.mCurrentState \in ReadStates, NEW c,
           NEW size, NEW yes \in BOOLEAN
    PROVE  Continues(v, c, OnValues(Pair(v, c), size, yes))
<1> DEFINE w == [v EXCEPT !.mRetryCount = 0]
           s == Pair(w, c)
           state == v.mCurrentState
<1>1. [Pair(v, c) EXCEPT !.u.mRetryCount = 0] = s
  BY DEF Pair
<1>2. /\ w \in UpdaterType /\ w.mTimer = v.mTimer /\ w.mCurrentState = v.mCurrentState
      /\ w.logins = v.logins /\ w.modes = v.modes /\ w.mWriteCount = v.mWriteCount
      /\ w.isLoggedIn = v.isLoggedIn /\ w.inWattMode = v.inWattMode
      /\ w.hasGridCode = v.hasGridCode /\ w.statusCode = v.statusCode
      /\ w.mStatus = v.mStatus /\ w.opCondition = v.opCondition
  BY DEF UpdaterType, MaxRetries
<1> HIDE DEF w
<1>3. Cycle(w)
  BY <1>2 DEF Cycle
<1>4. ASSUME NEW t, Continues(w, c, t) PROVE Continues(v, c, t)
  BY <1>2, <1>4 DEF Continues
<1>5. Pair(v, c).u = v
  BY PairUpdate
<1> HIDE DEF s
<1>6. CASE size # Size(state)
  <2>1. OnValues(Pair(v, c), size, yes) = StartNextAction(s, "Error")
    <3>1. /\ state = "CheckCondition" => size # 2
          /\ state = "CheckState" => size # 2
          /\ state = "CheckLogin" => size # 2
          /\ state = "CheckOpMode" => size # 2
          /\ state = "ReadPowerYield" => size # 8
          /\ state = "ReadPowerLimit" => size # 2
      BY <1>6, Sizes
    <3> QED BY <1>1, <1>5, <1>6, <3>1 DEF OnValues
  <2>2. Ready(w, "Error")
    BY <1>2, <1>3 DEF Cycle, Ready
  <2> QED BY <1>2, <2>1, <2>2, States DEF Continues, s
<1>7. CASE size = Size(state)
  <2>1. CASE state = "CheckCondition"
    <3>1. OnValues(Pair(v, c), size, yes) = OnCondition(s, yes)
      BY <1>1, <1>5, <1>7, <2>1, Sizes DEF OnValues, ReadAfter
    <3> QED BY <1>2, <1>3, <1>4, <2>1, <3>1, ConditionContinues DEF s
  <2>2. CASE state = "CheckState"
    <3>1. OnValues(Pair(v, c), size, yes) = OnState(s, yes)
      BY <1>1, <1>5, <1>7, <2>2, Sizes DEF OnValues, ReadAfter
    <3> QED BY <1>2, <1>3, <1>4, <2>2, <3>1, StateContinues DEF s
  <2>3. CASE state = "CheckLogin"
    <3>1. OnValues(Pair(v, c), size, yes) = OnLogin(s, yes)
      BY <1>1, <1>5, <1>7, <2>3, Sizes DEF OnValues, ReadAfter
    <3> QED BY <1>2, <1>3, <1>4, <2>3, <3>1, LoginContinues DEF s
  <2>4. CASE state = "CheckOpMode"
    <3>1. OnValues(Pair(v, c), size, yes) = OnOpMode(s, yes)
      BY <1>1, <1>5, <1>7, <2>4, Sizes DEF OnValues, ReadAfter
    <3> QED BY <1>2, <1>3, <1>4, <2>4, <3>1, OpModeContinues DEF s
  <2>5. CASE state = "ReadPowerYield"
    <3>1. OnValues(Pair(v, c), size, yes) = OnYield(s)
      BY <1>1, <1>5, <1>7, <2>5, Sizes DEF OnValues, ReadAfter
    <3> QED BY <1>2, <1>3, <1>4, <2>5, <3>1, YieldContinues DEF s
  <2>6. CASE state = "ReadPowerLimit"
    <3>1. OnValues(Pair(v, c), size, yes) = OnPowerLimit(s)
      BY <1>1, <1>5, <1>7, <2>6, Sizes DEF OnValues, ReadAfter
    <3> QED BY <1>2, <1>3, <1>4, <2>6, <3>1, PowerLimitContinues DEF s
  <2>7. CASE state \in DOMAIN ReadAfter
    <3>1. state \notin {"CheckCondition", "CheckState", "CheckLogin", "CheckOpMode",
                        "ReadPowerYield", "ReadPowerLimit"}
      BY <2>7 DEF ReadAfter
    <3>2. OnValues(Pair(v, c), size, yes) = StartNextAction(s, ReadAfter[state])
      BY <1>1, <1>5, <1>7, <2>7, <3>1 DEF OnValues
    <3>3. /\ ReadAfter[state] \in ReadStates
          /\ ReadAfter[state] \notin {"CheckLogin", "CheckOpMode", "CheckCondition", "Idle",
                                      "Error", "DoLogin", "SetOpMode", "WritePowerLimit"}
      BY <2>7 DEF ReadAfter, ReadStates
    <3>4. v.opCondition # "FAULT"
      BY <2>7 DEF Cycle, ReadAfter
    <3>5. Ready(w, ReadAfter[state])
      BY <1>2, <1>3, <3>3, <3>4 DEF Cycle, Ready
    <3> QED BY <1>2, <3>2, <3>3, <3>5, States DEF Continues, s
  <2> QED BY <2>1, <2>2, <2>3, <2>4, <2>5, <2>6, <2>7 DEF ReadStates
<1> QED BY <1>6, <1>7

\* A write has been answered, or has failed: it is looked at, or it was the last
\* action of the cycle.
LEMMA WriteCompletedIs ==
    ASSUME NEW v \in UpdaterType, Cycle(v), v.mCurrentState \in WriteStates, NEW c
    PROVE  \E state \in {"CheckLogin", "CheckOpMode", "Idle"} :
              /\ Ready(v, state)
              /\ OnWriteCompleted(Pair(v, c)) = StartNextAction(Pair(v, c), state)
<1> DEFINE state == CASE v.mCurrentState = "DoLogin" -> "CheckLogin"
                      [] v.mCurrentState = "SetOpMode" -> "CheckOpMode"
                      [] v.mCurrentState = "WritePowerLimit" -> "Idle"
                      [] OTHER -> "CheckCondition"
<1>1. OnWriteCompleted(Pair(v, c)) = StartNextAction(Pair(v, c), state)
  BY PairUpdate DEF OnWriteCompleted
<1>2. Ready(v, state) /\ state \in {"CheckLogin", "CheckOpMode", "Idle"}
  <2>1. CASE v.mCurrentState = "DoLogin"
    BY <2>1 DEF Cycle, Ready
  <2>2. CASE v.mCurrentState = "SetOpMode"
    BY <2>2 DEF Cycle, Ready
  <2>3. CASE v.mCurrentState = "WritePowerLimit"
    BY <2>3 DEF Cycle, Ready
  <2> QED BY <2>1, <2>2, <2>3 DEF WriteStates
<1> HIDE DEF state
<1> QED BY <1>1, <1>2

----------------------------------------------------------------------------
(* From shape to shape.                                                    *)

\* Connected, and nothing under way: the state in which a handler of a reply or
\* of a timer runs.
Free(v, c) ==
    /\ v \in UpdaterType /\ Cycle(v)
    /\ Sound(c, Request)
    /\ c.socket = "Connected"
    /\ ~c.closing
    /\ Len(c.timers) = 0
    /\ v.mTimer = "off"

\* Without a connection: the state in which disconnected() is announced.
Down(v, c) ==
    /\ v \in UpdaterType /\ Cycle(v)
    /\ Sound(c, Request)
    /\ c.socket = "Unconnected"
    /\ ~c.closing
    /\ c.sent = {}
    /\ \A r \in Outstanding(c) : r.kind \in ReadStates
    /\ Len(StopTimer(c, UserTimer).timers) <= 2

\* The attempt to connect is out of time, though the socket does not know yet.
GivenUp(v, c) ==
    /\ v \in UpdaterType /\ Cycle(v)
    /\ Sound(c, Request)
    /\ c.socket = "Connecting"
    /\ c.closing
    /\ Len(c.timers) = 0

\* With nothing under way the next action is one question or write, a pause, or
\* the end of the loop in Error.
LEMMA NextFine ==
    ASSUME NEW v, NEW c, Free(v, c), NEW w, w.mTimer = v.mTimer,
           NEW state \in ModbusState, Ready(w, state)
    PROVE  LET s == StartNextAction(Pair(w, c), state) IN Loop(s.u, s.c)
<1>1. /\ w \in UpdaterType /\ Sound(c, Request)
      /\ c.socket = "Connected" /\ ~c.closing
      /\ Len(c.timers) = 0
      /\ w.mTimer = "off"
  BY DEF Free, Ready
<1>2. Running(c) = {} /\ c.pending = {} /\ c.dropped = {} /\ c.sent = {}
  BY <1>1, EmptyQueue DEF Outstanding
<1>3. CASE state = "Idle"
  <2> DEFINE x == [w EXCEPT !.mCurrentState = "Idle", !.mTimer = "idle"]
             d == StopTimer(c, UserTimer)
  <2>1. StartNextAction(Pair(w, c), state) = Pair(x, d)
    BY <1>1, <1>3, StartIdles
  <2>2. x \in UpdaterType /\ Cycle(x) /\ x.mCurrentState = "Idle" /\ x.mTimer = "idle"
    BY <1>3, IdleCycle
  <2>3. /\ Sound(d, Request) /\ SameButTimers(c, d)
        /\ Running(d) = {} /\ d.timers = c.timers
    BY <1>1, <1>2, StopTimerSound DEF OwnTimers
  <2> HIDE DEF x, d
  <2>4. Online(x, d)
    BY <1>1, <1>2, <2>2, <2>3 DEF Online, SameButTimers
  <2>5. Loop(x, d)
    BY <2>2, <2>3, <2>4 DEF Loop
  <2> QED BY <2>1, <2>5, PairUpdate
<1>4. CASE state = "Error"
  <2> DEFINE x == Failing(w)
  <2>1. StartNextAction(Pair(w, c), state) = Pair(x, c)
    BY <1>4, StartFails
  <2>2. x \in UpdaterType /\ Cycle(x) /\ x.mCurrentState = "Error" /\ x.mTimer = "off"
    BY <1>1, <1>4, FailingCycle
  <2> HIDE DEF x
  <2>3. Online(x, c)
    BY <1>1, <1>2, <2>2 DEF Online
  <2>4. Loop(x, c)
    BY <1>1, <1>2, <2>2, <2>3 DEF Loop
  <2> QED BY <2>1, <2>4, PairUpdate
<1>5. CASE state \notin {"Idle", "Error"}
  <2> DEFINE x == Sending(w, state)
             d == SendFrame(c, state, 0)
             r == NewRequest(c, state, 0)
  <2>0. state \in ModbusState \ {"Idle", "Error"}
    BY <1>5
  <2>1. StartNextAction(Pair(w, c), state) = Pair(x, d)
    BY <1>1, <2>0, StartSends
  <2>2. x \in UpdaterType /\ Cycle(x) /\ x.mCurrentState = state /\ x.mTimer = "off"
    BY <1>1, <2>0, SendingCycle
  <2>3. \A n \in Ids : [id |-> n, kind |-> state, value |-> 0] \in Request
    BY <1>1, <2>0, RequestTyped
  <2>4. Sound(d, Request) /\ HasSent(c, d, r) /\ r.kind = state
    <3>1. Len(c.timers) <= 2
      BY <1>1
    <3> QED BY <1>1, <2>3, <3>1, RepliesAssumption, SendFrameSound
  <2> HIDE DEF x, d, r
  <2>6. /\ d.pending = {r} /\ d.dropped = {} /\ d.sent = {r.id}
        /\ d.socket = "Connected" /\ ~d.closing
        /\ Running(d) = {r.id} /\ Len(d.timers) = 1 /\ r.id \in Ids
    BY <1>1, <1>2, <2>4 DEF HasSent
  <2>7. ConnectTimer \notin Running(d) /\ UserTimer \notin Running(d)
    BY <2>6 DEF Ids, ConnectTimer, UserTimer
  <2>8. Online(x, d)
    BY <1>5, <2>2, <2>4, <2>6, <2>7 DEF Online
  <2>9. Loop(x, d)
    BY <2>2, <2>4, <2>7, <2>8 DEF Loop
  <2> QED BY <2>1, <2>9, PairUpdate
<1> QED BY <1>3, <1>4, <1>5

\* The same for the handlers that continue the cycle.
LEMMA ContinuingFine ==
    ASSUME NEW v, NEW c, Free(v, c), NEW s, Continues(v, c, s)
    PROVE  Loop(s.u, s.c)
<1>1. PICK w \in UpdaterType, state \in ModbusState :
         /\ Ready(w, state)
         /\ w.mTimer = v.mTimer
         /\ s = StartNextAction(Pair(w, c), state)
  BY DEF Continues
<1> QED BY <1>1, NextFine

\* With nothing under way an error leads to the timer of the updater.
LEMMA ErrorFine ==
    ASSUME NEW v, NEW c, Free(v, c), v.mCurrentState \in ReadStates
    PROVE  LET s == HandleError(Pair(v, c)) IN Loop(s.u, s.c)
<1> DEFINE w == Waiting(v)
           d == StartTimer(c, UserTimer)
<1>1. /\ v \in UpdaterType /\ Cycle(v) /\ Sound(c, Request)
      /\ c.socket = "Connected" /\ ~c.closing
      /\ Len(c.timers) = 0
      /\ v.mCurrentState \notin {"Idle", "Error"}
  BY States DEF Free
<1>2. Running(c) = {} /\ c.pending = {} /\ c.dropped = {} /\ c.sent = {}
  BY <1>1, EmptyQueue DEF Outstanding
<1>3. HandleError(Pair(v, c)) = Pair(w, d)
  BY <1>1, ErrorWaits
<1>4. /\ w \in UpdaterType /\ Cycle(w)
      /\ w.mCurrentState = v.mCurrentState /\ w.mTimer = "retry"
  BY <1>1, WaitingCycle
<1>5. /\ Sound(d, Request) /\ SameButTimers(c, d)
      /\ Running(d) = {UserTimer} /\ Len(d.timers) = 1
  <2>1. UserTimer \in OwnTimers /\ UserTimer \notin Running(c)
    BY <1>2 DEF OwnTimers
  <2>2. /\ Sound(d, Request) /\ SameButTimers(c, d)
        /\ Running(d) = Running(c) \cup {UserTimer}
        /\ Len(d.timers) = Len(c.timers) + 1
    BY <1>1, <2>1, StartTimerSound
  <2> QED BY <1>1, <1>2, <2>2
<1> HIDE DEF w, d
<1>6. Online(w, d)
  BY <1>1, <1>2, <1>4, <1>5 DEF Online, SameButTimers, ConnectTimer, UserTimer
<1>7. Loop(w, d)
  BY <1>4, <1>5, <1>6 DEF Loop
<1> QED BY <1>3, <1>7, PairUpdate

\* Without a connection an error at the start of the cycle leads to the timer, too.
LEMMA ErrorDownFine ==
    ASSUME NEW v, NEW c, Down(v, c), v.mCurrentState = "CheckCondition"
    PROVE  LET s == HandleError(Pair(v, c)) IN Loop(s.u, s.c)
<1> DEFINE w == Waiting(v)
           d == StartTimer(c, UserTimer)
           e == StopTimer(c, UserTimer)
<1>1. /\ v \in UpdaterType /\ Cycle(v) /\ Sound(c, Request)
      /\ c.socket = "Unconnected" /\ ~c.closing /\ c.sent = {}
      /\ \A r \in Outstanding(c) : r.kind \in ReadStates
      /\ Len(e.timers) <= 2
  BY DEF Down
<1>2. HandleError(Pair(v, c)) = Pair(w, d)
  BY <1>1, ErrorWaits
<1>3. /\ w \in UpdaterType /\ Cycle(w)
      /\ w.mCurrentState = "CheckCondition" /\ w.mTimer = "retry"
  BY <1>1, WaitingCycle
<1>4. /\ Sound(d, Request) /\ SameButTimers(c, d)
      /\ Running(d) = Running(c) \cup {UserTimer}
      /\ Last(d.timers) = UserTimer
  BY <1>1, StartTimerSound DEF OwnTimers
<1>5. Len(d.timers) \in 1..3
  <2> DEFINE n == Len(c.timers)
             m == Len(e.timers)
             k == Len(d.timers)
  <2>1. n \in Nat /\ m \in 0..n /\ m <= 2
    BY <1>1, QueueLengths DEF OwnTimers
  <2>2. k \in Nat /\ k # 0
    BY <1>4, QueueLengths
  <2>3. k = m + 1
    BY <1>1, RestartedQueue DEF OwnTimers
  <2> HIDE DEF n, m, k
  <2>4. k \in 1..3
    BY <2>1, <2>2, <2>3
  <2> QED BY <2>4 DEF k
<1> HIDE DEF w, d
<1>6. Outstanding(d) = Outstanding(c)
  BY <1>4 DEF SameButTimers, Outstanding
<1>7. Offline(w, d)
  BY <1>1, <1>3, <1>4, <1>5, <1>6 DEF Offline, SameButTimers
<1>8. Loop(w, d)
  BY <1>3, <1>4, <1>7 DEF Loop
<1> QED BY <1>2, <1>8, PairUpdate

\* The signal disconnected() is an error at the start of a new cycle.
LEMMA DisconnectedIs ==
    ASSUME NEW v \in UpdaterType, Cycle(v), NEW c
    PROVE  \E w \in UpdaterType : /\ Cycle(w)
                                  /\ w.mCurrentState = "CheckCondition"
                                  /\ OnDisconnected(Pair(v, c)) = HandleError(Pair(w, c))
<1> DEFINE w == [v EXCEPT !.mCurrentState = "CheckCondition"]
<1>1. OnDisconnected(Pair(v, c)) = HandleError(Pair(w, c))
  <2>1. [Pair(v, c) EXCEPT !.u.mCurrentState = "CheckCondition"] = Pair(w, c)
    BY DEF Pair
  <2> QED BY <2>1 DEF OnDisconnected
<1>2. /\ w \in UpdaterType /\ w.mCurrentState = "CheckCondition"
      /\ w.logins = v.logins /\ w.modes = v.modes
      /\ w.hasGridCode = v.hasGridCode /\ w.statusCode = v.statusCode
      /\ w.mStatus = v.mStatus /\ w.opCondition = v.opCondition
  BY States DEF UpdaterType
<1> HIDE DEF w
<1>3. Cycle(w)
  BY <1>2 DEF Cycle
<1> QED BY <1>1, <1>2, <1>3

\* The signal disconnected() without a connection.
LEMMA DisconnectedFine ==
    ASSUME NEW v, NEW c, Down(v, c)
    PROVE  LET s == OnDisconnected(Pair(v, c)) IN Loop(s.u, s.c)
<1>1. PICK w \in UpdaterType : /\ Cycle(w)
                               /\ w.mCurrentState = "CheckCondition"
                               /\ OnDisconnected(Pair(v, c)) = HandleError(Pair(w, c))
  BY DisconnectedIs DEF Down
<1>2. Down(w, c)
  BY <1>1 DEF Down
<1> QED BY <1>1, <1>2, ErrorDownFine

\* While the socket still connects, with nothing under way, an error leads to
\* the timer, too.
LEMMA ErrorDiallingFine ==
    ASSUME NEW v, NEW c, GivenUp(v, c), v.mCurrentState = "CheckCondition"
    PROVE  LET s == HandleError(Pair(v, c)) IN Loop(s.u, s.c)
<1> DEFINE w == Waiting(v)
           d == StartTimer(c, UserTimer)
<1>0. /\ v \in UpdaterType /\ Cycle(v) /\ Sound(c, Request)
      /\ Len(c.timers) = 0
  BY DEF GivenUp
<1>1. Running(c) = {} /\ Outstanding(c) = {}
  BY <1>0, EmptyQueue
<1>2. HandleError(Pair(v, c)) = Pair(w, d)
  BY <1>0, ErrorWaits
<1>3. w \in UpdaterType /\ Cycle(w) /\ w.mTimer = "retry"
  BY <1>0, WaitingCycle
<1>4. /\ Sound(d, Request) /\ SameButTimers(c, d)
      /\ Running(d) = {UserTimer} /\ Len(d.timers) = 1
  <2>1. UserTimer \in OwnTimers /\ UserTimer \notin Running(c)
    BY <1>1 DEF OwnTimers
  <2>2. Sound(c, Request)
    BY <1>0
  <2>3. /\ Sound(d, Request) /\ SameButTimers(c, d)
        /\ Running(d) = Running(c) \cup {UserTimer}
        /\ Len(d.timers) = Len(c.timers) + 1
    <3>1. /\ Sound(d, Request) /\ SameButTimers(c, d)
          /\ Running(d) = Running(c) \cup {UserTimer}
          /\ UserTimer \notin Running(c) => Len(d.timers) = Len(c.timers) + 1
      BY <2>1, <2>2, StartTimerSound, ZenonT(60)
    <3> QED BY <2>1, <3>1
  <2> QED BY <1>0, <1>1, <2>3
<1> HIDE DEF w, d
<1>5. Dialling(w, d)
  BY <1>1, <1>3, <1>4 DEF Dialling, GivenUp, SameButTimers, Outstanding
<1>6. Loop(w, d)
  BY <1>3, <1>4, <1>5 DEF Loop
<1> QED BY <1>2, <1>6, PairUpdate

----------------------------------------------------------------------------
(* Replies.                                                                *)

\* A failed reply in terms of the above.
LEMMA FailureIs ==
    ASSUME NEW v, NEW c, NEW r
    PROVE  OnFailure(Pair(v, c), r)
              = IF r.kind \in WriteStates THEN OnWriteCompleted(Pair(v, Finished(c, r)))
                ELSE HandleError(Pair(v, Finished(c, r)))
<1>1. [Pair(v, c) EXCEPT !.c = Finished(Pair(v, c).c, r)] = Pair(v, Finished(c, r))
  BY PairUpdate
<1> QED BY <1>1 DEF OnFailure

\* The requests of a sound client are requests.
LEMMA OutstandingTyped ==
    ASSUME NEW c, Sound(c, Request), NEW r \in Outstanding(c)
    PROVE  r \in Request /\ r.id \in Ids /\ r.kind \in ReadStates \cup WriteStates
<1>1. r \in Request
  BY ClientFields DEF Sound, Outstanding
<1> QED BY <1>1 DEF Request

\* Once the one reply of a connected client has finished, nothing is under way.
LEMMA OnlineFinished ==
    ASSUME NEW v, NEW c, Loop(v, c), Online(v, c), NEW r \in Outstanding(c)
    PROVE  /\ Free(v, Finished(c, r))
           /\ v.mCurrentState = r.kind
           /\ r.kind \in ReadStates \cup WriteStates
<1>1. Sound(c, Request) /\ v \in UpdaterType /\ Cycle(v) /\ Len(c.timers) <= 1
  BY DEF Loop, Online
<1>2. r.id \in Ids /\ r.kind \in ReadStates \cup WriteStates
  BY <1>1, OutstandingTyped
<1>3. r \in c.pending
  BY DEF Online, Outstanding
<1>4. v.mCurrentState = r.kind
  BY <1>3 DEF Online
<1>5. r.id \in Running(c)
  BY <1>1, <1>2 DEF Sound, Queue
<1>6. Running(c) = {r.id} /\ Len(c.timers) = 1
  BY <1>1, <1>5, SingleTimer
<1>7. UserTimer \notin Running(c)
  BY <1>2, <1>6 DEF Ids, UserTimer
<1>8. v.mTimer = "off"
  <2>1. v.mTimer \in {"off", "idle", "retry"}
    BY <1>1 DEF UpdaterType
  <2>2. v.mCurrentState # "Idle"
    BY <1>2, <1>4, States
  <2> QED BY <1>7, <2>1, <2>2 DEF Loop, Online
<1>9. Sound(Finished(c, r), Request) /\ HasFinished(c, Finished(c, r), r)
  BY <1>1, <1>2, FinishedSound
<1>10. Len(Finished(c, r).timers) = 0
  BY <1>6, <1>9 DEF HasFinished
<1> QED BY <1>1, <1>2, <1>4, <1>8, <1>9, <1>10 DEF Free, Online, HasFinished

\* A reply without a connection.
LEMMA OfflineFinished ==
    ASSUME NEW v, NEW c, Loop(v, c), Offline(v, c), NEW r \in Outstanding(c)
    PROVE  Down(v, Finished(c, r)) /\ r.kind \in ReadStates
<1> DEFINE d == Finished(c, r)
<1>1. /\ v \in UpdaterType /\ Cycle(v) /\ Sound(c, Request)
      /\ c.socket = "Unconnected" /\ ~c.closing /\ c.sent = {}
      /\ Len(c.timers) \in 1..3
      /\ \A x \in Outstanding(c) : x.kind \in ReadStates
  BY DEF Loop, Offline
<1>2. /\ Sound(d, Request)
      /\ d.socket = c.socket /\ d.closing = c.closing
      /\ d.pending = c.pending \ {r} /\ d.dropped = c.dropped \ {r}
      /\ d.sent = c.sent \ {r.id}
      /\ Len(d.timers) = Len(c.timers) - 1
  BY <1>1, OutstandingTyped, FinishedSound DEF HasFinished
<1> HIDE DEF d
<1>3. Len(StopTimer(d, UserTimer).timers) <= 2
  <2> DEFINE n == Len(c.timers)
             m == Len(d.timers)
             k == Len(StopTimer(d, UserTimer).timers)
  <2>1. n \in 1..3 /\ m = n - 1
    BY <1>1, <1>2
  <2>2. k \in 0..m
    BY <1>2, QueueLengths DEF OwnTimers
  <2> HIDE DEF n, m, k
  <2>3. k <= 2
    BY <2>1, <2>2
  <2> QED BY <2>3 DEF k
<1>4. \A x \in Outstanding(d) : x.kind \in ReadStates
  BY <1>1, <1>2 DEF Outstanding
<1>5. Down(v, d)
  BY <1>1, <1>2, <1>3, <1>4 DEF Down
<1> QED BY <1>1, <1>5 DEF d

\* A reply fails, in any state of the socket.
LEMMA FailureFine ==
    ASSUME NEW v, NEW c, Loop(v, c), NEW r \in Outstanding(c)
    PROVE  LET s == OnFailure(Pair(v, c), r) IN Loop(s.u, s.c)
<1> DEFINE d == Finished(c, r)
<1>1. CASE Online(v, c)
  <2>1. Free(v, d) /\ v.mCurrentState = r.kind /\ r.kind \in ReadStates \cup WriteStates
    BY <1>1, OnlineFinished
  <2>2. CASE r.kind \in WriteStates
    <3>1. OnFailure(Pair(v, c), r) = OnWriteCompleted(Pair(v, d))
      BY <2>2, FailureIs
    <3>2. PICK state \in {"CheckLogin", "CheckOpMode", "Idle"} :
             /\ Ready(v, state)
             /\ OnWriteCompleted(Pair(v, d)) = StartNextAction(Pair(v, d), state)
      BY <2>1, <2>2, WriteCompletedIs DEF Free
    <3> QED BY <2>1, <3>1, <3>2, NextFine, States
  <2>3. CASE r.kind \notin WriteStates
    <3>1. OnFailure(Pair(v, c), r) = HandleError(Pair(v, d))
      BY <2>3, FailureIs
    <3> QED BY <2>1, <2>3, <3>1, ErrorFine
  <2> QED BY <2>2, <2>3
<1>2. CASE Dialling(v, c)
  BY <1>2 DEF Dialling
<1>3. CASE Offline(v, c)
  <2>1. Down(v, d) /\ r.kind \notin WriteStates
    BY <1>3, OfflineFinished, States
  <2>2. OnFailure(Pair(v, c), r) = HandleError(Pair(v, d))
    BY <2>1, FailureIs
  <2>3. v.mCurrentState = "CheckCondition"
    BY <1>3 DEF Offline
  <2> QED BY <2>1, <2>2, <2>3, ErrorDownFine
<1> QED BY <1>1, <1>2, <1>3 DEF Loop

----------------------------------------------------------------------------
(* Errors of the socket.                                                   *)

\* At most one reply is pending, so the error of the socket fails one at most.
LEMMA FoldFailures ==
    ASSUME NEW s, NEW r
    PROVE  /\ FoldSet(LAMBDA x, t : OnFailure(t, x), s, {}) = s
           /\ FoldSet(LAMBDA x, t : OnFailure(t, x), s, {r}) = OnFailure(s, r)
<1> DEFINE H(iter, S) ==
              [x \in SUBSET S |->
                 IF x = {} THEN s
                 ELSE OnFailure(iter[x \ {CHOOSE y \in x : TRUE}], CHOOSE y \in x : TRUE)]
           it(S) == CHOOSE iter : iter = H(iter, S)
<1>1. /\ FoldSet(LAMBDA x, t : OnFailure(t, x), s, {}) = it({})[{}]
      /\ FoldSet(LAMBDA x, t : OnFailure(t, x), s, {r}) = it({r})[{r}]
  BY DEF FoldSet, MapThenFoldSet
<1>2. (CHOOSE y \in {r} : TRUE) = r /\ {r} \ {r} = {} /\ {r} # {}
  OBVIOUS
<1>3. it({})[{}] = s
  <2> DEFINE g == [x \in SUBSET {} |-> s]
  <2>1. g = H(g, {})
    <3>1. SUBSET {} = {{}}
      OBVIOUS
    <3>2. g[{}] = s /\ g = [x \in SUBSET {} |-> g[x]]
      OBVIOUS
    <3> HIDE DEF g
    <3> QED BY <3>1, <3>2
  <2>2. it({}) = H(it({}), {})
    <3> HIDE DEF g, H
    <3> QED BY <2>1
  <2> DEFINE i == it({})
  <2>3. i = H(i, {})
    BY <2>2
  <2> HIDE DEF i, it
  <2>4. H(i, {})[{}] = s
    OBVIOUS
  <2>5. i[{}] = s
    BY <2>3, <2>4
  <2> QED BY <2>5 DEF i
<1>4. it({r})[{r}] = OnFailure(s, r)
  <2> DEFINE g == [x \in SUBSET {r} |-> IF x = {} THEN s ELSE OnFailure(s, r)]
  <2>1. SUBSET {r} = {{}, {r}}
    OBVIOUS
  <2>2. g[{}] = s /\ g[{r}] = OnFailure(s, r) /\ g = [x \in SUBSET {r} |-> g[x]]
    BY <1>2
  <2>3. g = H(g, {r})
    <3> HIDE DEF g
    <3>1. \A x \in SUBSET {r} :
             g[x] = IF x = {} THEN s
                    ELSE OnFailure(g[x \ {CHOOSE y \in x : TRUE}], CHOOSE y \in x : TRUE)
      BY <1>2, <2>1, <2>2
    <3> QED BY <2>2, <3>1
  <2>4. it({r}) = H(it({r}), {r})
    <3> HIDE DEF g, H
    <3> QED BY <2>3
  <2> DEFINE i == it({r})
  <2>5. i = H(i, {r})
    BY <2>4
  <2> HIDE DEF i, it
  <2>6. H(i, {r})[{}] = s
    OBVIOUS
  <2>7. H(i, {r})[{r}] = OnFailure(i[{r} \ {CHOOSE y \in {r} : TRUE}], CHOOSE y \in {r} : TRUE)
    BY <2>1
  <2> HIDE DEF H
  <2>8. i[{}] = s
    BY <2>5, <2>6
  <2>9. i[{r}] = OnFailure(i[{}], r)
    BY <1>2, <2>5, <2>7
  <2> QED BY <2>8, <2>9 DEF i
<1> QED BY <1>1, <1>3, <1>4

\* On the way to Down: as there, but the socket may still be connected.
Falling(v, c) ==
    /\ v \in UpdaterType /\ Cycle(v)
    /\ Sound(c, Request)
    /\ ~c.closing
    /\ c.socket = "Unconnected" => c.sent = {}
    /\ \A r \in Outstanding(c) : r.kind \in ReadStates
    /\ Len(StopTimer(c, UserTimer).timers) <= 2

\* When the socket is closed it is down.
LEMMA FallingCloses ==
    ASSUME NEW v, NEW c, Falling(v, c)
    PROVE  Down(v, SocketClosed(c)) /\ (c.socket = "Unconnected" => Down(v, c))
<1> DEFINE d == SocketClosed(c)
<1>1. Sound(c, Request)
  BY DEF Falling
<1>2. /\ Sound(d, Request)
      /\ d.socket = "Unconnected" /\ d.closing = FALSE /\ d.sent = {}
      /\ d.pending = c.pending /\ d.dropped = c.dropped
      /\ d.timers = c.timers
  BY <1>1, SocketClosedSound
<1> HIDE DEF d
<1>3. StopTimer(d, UserTimer).timers = StopTimer(c, UserTimer).timers
  BY <1>1, <1>2, SameQueue
<1>4. Down(v, d)
  BY <1>2, <1>3 DEF Falling, Down, Outstanding
<1> QED BY <1>4 DEF Falling, Down, d

\* The announcement of the disconnection while the client falls.
LEMMA FallingWaits ==
    ASSUME NEW v, NEW c, Falling(v, c)
    PROVE  \E w, d : /\ OnDisconnected(Pair(v, c)) = Pair(w, d)
                     /\ Falling(w, d)
<1>1. PICK t \in UpdaterType : /\ Cycle(t)
                               /\ t.mCurrentState = "CheckCondition"
                               /\ OnDisconnected(Pair(v, c)) = HandleError(Pair(t, c))
  BY DisconnectedIs DEF Falling
<1> DEFINE w == Waiting(t)
           d == StartTimer(c, UserTimer)
           e == StopTimer(c, UserTimer)
<1>3. HandleError(Pair(t, c)) = Pair(w, d)
  BY <1>1, ErrorWaits
<1>4. w \in UpdaterType /\ Cycle(w)
  BY <1>1, WaitingCycle
<1>5. /\ Sound(c, Request) /\ ~c.closing
      /\ c.socket = "Unconnected" => c.sent = {}
      /\ \A r \in Outstanding(c) : r.kind \in ReadStates
      /\ Len(e.timers) <= 2
  BY DEF Falling
<1>6. /\ Sound(d, Request) /\ SameButTimers(c, d)
      /\ UserTimer \in Running(d)
  BY <1>5, StartTimerSound DEF OwnTimers
<1>7. Len(StopTimer(d, UserTimer).timers) <= 2
  <2> DEFINE m == Len(e.timers)
             k == Len(d.timers)
             l == Len(StopTimer(d, UserTimer).timers)
  <2>1. m \in Nat /\ m <= 2
    BY <1>5, QueueLengths DEF OwnTimers
  <2>2. l = k - 1
    BY <1>6, StopTimerSound DEF OwnTimers
  <2>3. k = m + 1
    BY <1>5, RestartedQueue DEF OwnTimers
  <2> HIDE DEF m, k, l
  <2>4. l <= 2
    BY <2>1, <2>2, <2>3
  <2> QED BY <2>4 DEF l
<1> HIDE DEF w, d
<1>8. Falling(w, d)
  BY <1>4, <1>5, <1>6, <1>7 DEF Falling, SameButTimers, Outstanding
<1> QED BY <1>1, <1>3, <1>8

\* The pending reply fails while the socket has an error. When it was one to a
\* write, a question or nothing at all follows.
LEMMA FailureFalls ==
    ASSUME NEW v, NEW c, NEW r, v \in UpdaterType, Cycle(v), Sound(c, Request), ~c.closing,
           c.socket = "Unconnected" => c.sent = {},
           Outstanding(c) = {r}, Len(c.timers) <= 1, v.mCurrentState = r.kind
    PROVE  \E w, d : /\ OnFailure(Pair(v, c), r) = Pair(w, d)
                     /\ Falling(w, d)
                     /\ d.socket = c.socket
<1> DEFINE f == Finished(c, r)
<1>1. r \in Outstanding(c) /\ r.id \in Ids /\ r.kind \in ReadStates \cup WriteStates
  BY OutstandingTyped
<1>2. Sound(f, Request) /\ HasFinished(c, f, r)
  BY <1>1, FinishedSound
<1>3. Len(f.timers) = 0
  <2>1. r.id \in Running(c)
    BY <1>1 DEF Sound, Queue
  <2>2. Len(c.timers) = 1
    BY <2>1, SingleTimer
  <2> QED BY <1>2, <2>2 DEF HasFinished
<1>4. Running(f) = {} /\ Outstanding(f) = {} /\ f.sent = {}
  BY <1>2, <1>3, EmptyQueue
<1>5. f.socket = c.socket /\ ~f.closing
  BY <1>2 DEF HasFinished
<1> HIDE DEF f
<1>6. CASE r.kind \notin WriteStates
  <2> DEFINE w == Waiting(v)
             d == StartTimer(f, UserTimer)
  <2>0. v.mCurrentState # "Idle"
    BY <1>1, States
  <2>1. OnFailure(Pair(v, c), r) = Pair(w, d)
    <3>1. OnFailure(Pair(v, c), r) = HandleError(Pair(v, f))
      BY <1>6, FailureIs DEF f
    <3> QED BY <2>0, <3>1, ErrorWaits
  <2>2. w \in UpdaterType /\ Cycle(w)
    BY WaitingCycle
  <2>3. /\ Sound(d, Request) /\ SameButTimers(f, d)
        /\ UserTimer \in Running(d) /\ Len(d.timers) = Len(f.timers) + 1
    BY <1>2, <1>4, StartTimerSound DEF OwnTimers
  <2>4. Len(StopTimer(d, UserTimer).timers) <= 2
    <3>1. Len(d.timers) = 1
      BY <1>3, <2>3
    <3>2. Len(StopTimer(d, UserTimer).timers) = Len(d.timers) - 1
      BY <2>3, StopTimerSound DEF OwnTimers
    <3> QED BY <3>1, <3>2
  <2> HIDE DEF w, d
  <2>5. Falling(w, d)
    BY <1>4, <1>5, <2>2, <2>3, <2>4 DEF Falling, SameButTimers, Outstanding
  <2> QED BY <1>5, <2>1, <2>3, <2>5 DEF SameButTimers
<1>7. ASSUME NEW d, Sound(d, Request), Len(d.timers) \in 0..1
      PROVE  Len(StopTimer(d, UserTimer).timers) <= 2
  <2> DEFINE m == Len(StopTimer(d, UserTimer).timers)
             k == Len(d.timers)
  <2>1. m \in 0..k /\ k \in 0..1
    BY <1>7, QueueLengths DEF OwnTimers
  <2> HIDE DEF m, k
  <2>2. m <= 2
    BY <2>1
  <2> QED BY <2>2 DEF m
<1>8. CASE r.kind \in WriteStates
  <2>1. PICK state \in {"CheckLogin", "CheckOpMode", "Idle"} :
           /\ Ready(v, state)
           /\ OnWriteCompleted(Pair(v, f)) = StartNextAction(Pair(v, f), state)
    BY <1>8, WriteCompletedIs
  <2>2. OnFailure(Pair(v, c), r) = StartNextAction(Pair(v, f), state)
    BY <1>8, <2>1, FailureIs DEF f
  <2>3. CASE state = "Idle"
    <3> DEFINE w == [v EXCEPT !.mCurrentState = "Idle", !.mTimer = "idle"]
               d == StopTimer(f, UserTimer)
    <3>1. OnFailure(Pair(v, c), r) = Pair(w, d)
      BY <2>2, <2>3, StartIdles
    <3>2. w \in UpdaterType /\ Cycle(w)
      BY <2>1, <2>3, IdleCycle
    <3>3. Sound(d, Request) /\ SameButTimers(f, d) /\ d.timers = f.timers
      BY <1>2, <1>4, StopTimerSound DEF OwnTimers
    <3> HIDE DEF w, d
    <3>4. Len(d.timers) \in 0..1
      BY <1>3, <3>3
    <3>5. Len(StopTimer(d, UserTimer).timers) <= 2
      BY <1>7, <3>3, <3>4
    <3>6. Falling(w, d)
      BY <1>4, <1>5, <3>2, <3>3, <3>5 DEF Falling, SameButTimers, Outstanding
    <3> QED BY <1>5, <3>1, <3>3, <3>6 DEF SameButTimers
  <2>4. CASE state # "Idle"
    <3> DEFINE w == Sending(v, state)
               d == SendFrame(f, state, 0)
               n == NewRequest(f, state, 0)
    <3>1. state \in ReadStates /\ state \in ModbusState \ {"Idle", "Error"}
      BY <2>1, <2>4, States
    <3>2. OnFailure(Pair(v, c), r) = Pair(w, d)
      BY <2>2, <3>1, StartSends
    <3>3. w \in UpdaterType /\ Cycle(w)
      BY <2>1, <3>1, SendingCycle
    <3>4. Sound(d, Request) /\ HasSent(f, d, n) /\ n.kind = state
      <4>1. Len(f.timers) <= 2
        BY <1>3
      <4>2. \A x \in Ids : [id |-> x, kind |-> state, value |-> 0] \in Request
        BY <3>1, RequestTyped
      <4> QED BY <1>2, <4>1, <4>2, RepliesAssumption, SendFrameSound
    <3> HIDE DEF w, d, n
    <3>5. Outstanding(d) = {n}
      BY <1>4, <3>4 DEF HasSent, Outstanding
    <3>6. Len(d.timers) \in 0..1
      BY <1>3, <3>4 DEF HasSent
    <3>7. Len(StopTimer(d, UserTimer).timers) <= 2
      BY <1>7, <3>4, <3>6
    <3>8. d.socket = "Unconnected" => d.sent = {}
      BY <1>4, <1>5, <3>4 DEF HasSent
    <3>9. Falling(w, d)
      BY <1>5, <3>1, <3>3, <3>4, <3>5, <3>7, <3>8 DEF Falling, HasSent
    <3> QED BY <1>5, <3>2, <3>4, <3>9 DEF HasSent
  <2> QED BY <2>3, <2>4
<1> QED BY <1>6, <1>8

\* OneReply replies are forgotten while the client falls.
LEMMA FallingForgets ==
    ASSUME NEW v, NEW c, Falling(v, c)
    PROVE  Falling(v, PendingCleared(c)) /\ PendingCleared(c).socket = c.socket
<1> DEFINE d == PendingCleared(c)
<1>1. Sound(c, Request)
  BY DEF Falling
<1>2. /\ Sound(d, Request)
      /\ d.socket = c.socket /\ d.closing = c.closing /\ d.sent = c.sent
      /\ d.pending = {} /\ d.dropped = c.dropped \cup c.pending
      /\ d.timers = c.timers
  BY <1>1, PendingClearedSound
<1> HIDE DEF d
<1>3. StopTimer(d, UserTimer).timers = StopTimer(c, UserTimer).timers
  BY <1>1, <1>2, SameQueue
<1>4. Falling(v, d)
  BY <1>2, <1>3 DEF Falling, Outstanding
<1> QED BY <1>2, <1>4 DEF d

\* The state in which a socket has an error: one reply is pending at most.
OneReply(v, c) ==
    /\ v \in UpdaterType /\ Cycle(v)
    /\ Sound(c, Request)
    /\ ~c.closing
    /\ c.socket = "Unconnected" => c.sent = {}
    /\ c.dropped = {}
    /\ Len(c.timers) <= 1
    /\ \A r \in c.pending : r.kind = v.mCurrentState

\* The whole of the slot for errors of the socket, up to disconnected().
LEMMA SocketErrorFalls ==
    ASSUME NEW v, NEW c, OneReply(v, c)
    PROVE  \E w, d : /\ OnSocketError(Pair(v, c)) = OnDisconnected(Pair(w, d))
                     /\ Falling(w, d)
                     /\ d.socket = c.socket
<1> DEFINE F(s) == OnDisconnected([s EXCEPT !.c = PendingCleared(@)])
<1>1. \A w, d : F(Pair(w, d)) = OnDisconnected(Pair(w, PendingCleared(d)))
  BY PairUpdate
<1>2. OnSocketError(Pair(v, c))
         = F(FoldSet(LAMBDA x, t : OnFailure(t, x), Pair(v, c), c.pending))
  BY PairUpdate DEF OnSocketError
<1>0. /\ v \in UpdaterType /\ Cycle(v) /\ Sound(c, Request)
      /\ c.dropped = {} /\ Len(c.timers) <= 1
  BY DEF OneReply
<1>3. CASE c.pending = {}
  <2>1. OnSocketError(Pair(v, c)) = F(Pair(v, c))
    <3> HIDE DEF F
    <3>1. FoldSet(LAMBDA x, t : OnFailure(t, x), Pair(v, c), {}) = Pair(v, c)
      BY FoldFailures
    <3> QED BY <1>2, <1>3, <3>1
  <2>2. Len(StopTimer(c, UserTimer).timers) <= 2
    <3> DEFINE m == Len(StopTimer(c, UserTimer).timers)
               k == Len(c.timers)
    <3>1. m \in 0..k /\ k <= 1 /\ k \in Nat
      BY <1>0, QueueLengths DEF OwnTimers, OneReply
    <3> HIDE DEF m, k
    <3>2. m <= 2
      BY <3>1
    <3> QED BY <3>2 DEF m
  <2>3. Falling(v, c)
    BY <1>0, <1>3, <2>2 DEF Falling, OneReply, Outstanding
  <2>4. Falling(v, PendingCleared(c)) /\ PendingCleared(c).socket = c.socket
    BY <2>3, FallingForgets
  <2> QED BY <1>1, <2>1, <2>4
<1>4. CASE c.pending # {}
  <2>1. PICK r \in c.pending : TRUE
    BY <1>4
  <2>2. r \in Outstanding(c) /\ Outstanding(c) = c.pending
    BY <1>0, <2>1 DEF Outstanding
  <2>3. r.id \in Running(c)
    BY <1>0, <2>2, OutstandingTyped DEF Sound, Queue
  <2>4. c.pending = {r} /\ Outstanding(c) = {r}
    BY <1>0, <2>2, <2>3, SingleTimer
  <2>5. PICK w, d : /\ OnFailure(Pair(v, c), r) = Pair(w, d)
                    /\ Falling(w, d)
                    /\ d.socket = c.socket
    <3>1. /\ ~c.closing /\ v.mCurrentState = r.kind
          /\ c.socket = "Unconnected" => c.sent = {}
      BY <2>1 DEF OneReply
    <3> QED BY <1>0, <2>4, <3>1, FailureFalls
  <2>6. OnSocketError(Pair(v, c)) = F(Pair(w, d))
    <3> HIDE DEF F
    <3>1. FoldSet(LAMBDA x, t : OnFailure(t, x), Pair(v, c), {r}) = Pair(w, d)
      BY <2>5, FoldFailures
    <3> QED BY <1>2, <2>4, <3>1
  <2>7. Falling(w, PendingCleared(d)) /\ PendingCleared(d).socket = c.socket
    BY <2>5, FallingForgets
  <2> QED BY <1>1, <2>6, <2>7
<1> QED BY <1>3, <1>4

----------------------------------------------------------------------------
(* One lemma per action.                                                   *)

\* An answer to a read request.
LEMMA ReadAnsweredFine ==
    ASSUME NEW v, NEW c, Loop(v, c), NEW r \in Answerable(c), r.kind \in ReadStates,
           NEW size, NEW yes \in BOOLEAN
    PROVE  LET s == OnValues(Pair(v, Finished(c, r)), size, yes) IN Loop(s.u, s.c)
<1>1. Online(v, c) /\ r \in Outstanding(c)
  BY DEF Loop, Dialling, Offline, Answerable, Outstanding
<1>2. Free(v, Finished(c, r)) /\ v.mCurrentState \in ReadStates
  BY <1>1, OnlineFinished
<1>3. Continues(v, Finished(c, r), OnValues(Pair(v, Finished(c, r)), size, yes))
  BY <1>2, ValuesContinue DEF Free
<1> QED BY <1>2, <1>3, ContinuingFine

\* An answer to a write request.
LEMMA WriteAnsweredFine ==
    ASSUME NEW v, NEW c, Loop(v, c), NEW r \in Answerable(c), r.kind \in WriteStates
    PROVE  LET s == OnWriteCompleted(Pair(v, Finished(c, r))) IN Loop(s.u, s.c)
<1>1. Online(v, c) /\ r \in Outstanding(c)
  BY DEF Loop, Dialling, Offline, Answerable, Outstanding
<1>2. Free(v, Finished(c, r)) /\ v.mCurrentState \in WriteStates
  BY <1>1, OnlineFinished
<1>3. PICK state \in {"CheckLogin", "CheckOpMode", "Idle"} :
         /\ Ready(v, state)
         /\ OnWriteCompleted(Pair(v, Finished(c, r)))
               = StartNextAction(Pair(v, Finished(c, r)), state)
  BY <1>2, WriteCompletedIs DEF Free
<1> QED BY <1>2, <1>3, NextFine, States

\* The client after the announcement of the connection, and the closing of the
\* socket that was told so while it connected.
LEMMA ConnectedFine ==
    ASSUME NEW v, NEW c, Loop(v, c), c.socket = "Connecting"
    PROVE  LET s == StartNextAction(Pair(v, SocketConnected(c)), "CheckCondition")
               t == IF c.closing THEN OnDisconnected([s EXCEPT !.c = SocketClosed(@)]) ELSE s
           IN  Loop(t.u, t.c)
<1> DEFINE e == StopTimer(c, ConnectTimer)
           f == SocketConnected(c)
           s == StartNextAction(Pair(v, f), "CheckCondition")
<1>1. Dialling(v, c) /\ v \in UpdaterType /\ Cycle(v) /\ Sound(c, Request)
  BY DEF Loop, Online, Offline
<1>2. Len(c.timers) = 1 /\ c.dropped = {} /\ c.pending = {} /\ v.mTimer # "idle"
  BY <1>1 DEF Dialling, Outstanding
<1>3. /\ Sound(f, Request)
      /\ f.socket = "Connected"
      /\ f.closing = c.closing
      /\ f.pending = c.pending /\ f.dropped = c.dropped
      /\ f.timers = e.timers
  BY <1>1, SocketConnectedSound
<1>ready. /\ Ready(v, "CheckCondition")
          /\ "CheckCondition" \in ModbusState \ {"Idle", "Error"}
          /\ "CheckCondition" \in ReadStates
  BY <1>1, CheckConditionReady, States
<1>4. CASE ~c.closing
  <2>1. ConnectTimer \in Running(c)
    BY <1>1, <1>4 DEF Dialling
  <2>2. Len(e.timers) = 0
    <3>1. Len(e.timers) = Len(c.timers) - 1
      BY <1>1, <2>1, StopTimerSound DEF OwnTimers
    <3> QED BY <1>2, <3>1
  <2>3. Len(c.timers) <= 1
    BY <1>2
  <2>4. UserTimer \notin Running(c)
    <3>1. Running(c) = {ConnectTimer}
      BY <1>1, <2>1, <2>3, SingleTimer
    <3> QED BY <3>1 DEF ConnectTimer, UserTimer
  <2>5. v.mTimer = "off"
    BY <1>1, <1>2, <2>4 DEF Loop, UpdaterType
  <2> HIDE DEF f
  <2>6. Free(v, f)
    BY <1>1, <1>3, <1>4, <2>2, <2>5 DEF Free
  <2>7. Loop(s.u, s.c)
    BY <1>ready, <2>6, NextFine
  <2> QED BY <1>4, <2>7 DEF f
<1>5. CASE c.closing
  <2> DEFINE w == Sending(v, "CheckCondition")
             d == SendFrame(f, "CheckCondition", 0)
             n == NewRequest(f, "CheckCondition", 0)
             g == SocketClosed(d)
  <2>1. Len(f.timers) \in 0..1
    <3>1. Len(e.timers) \in 0..Len(c.timers)
      BY <1>1, QueueLengths DEF OwnTimers
    <3> QED BY <1>2, <1>3, <3>1
  <2> HIDE DEF f, e
  <2>2. s = Pair(w, d)
    BY <1>1, <1>ready, StartSends
  <2>3. w \in UpdaterType /\ Cycle(w)
    BY <1>ready, SendingCycle
  <2>4. Sound(d, Request) /\ HasSent(f, d, n) /\ n.kind = "CheckCondition"
    <3>1. Len(f.timers) <= 2
      <4> DEFINE k == Len(f.timers)
      <4>1. k \in 0..1
        BY <2>1
      <4> HIDE DEF k
      <4>2. k <= 2
        BY <4>1
      <4> QED BY <4>2 DEF k
    <3>2. \A x \in Ids : [id |-> x, kind |-> "CheckCondition", value |-> 0] \in Request
      BY <1>1, <1>ready, RequestTyped
    <3> QED BY <1>3, <3>1, <3>2, RepliesAssumption, SendFrameSound
  <2> HIDE DEF w, d, n, s
  <2>5. /\ Sound(g, Request)
        /\ g.socket = "Unconnected" /\ g.closing = FALSE /\ g.sent = {}
        /\ g.pending = d.pending /\ g.dropped = d.dropped
        /\ g.timers = d.timers
    BY <2>4, SocketClosedSound
  <2> HIDE DEF g
  <2>6. \A r \in Outstanding(g) : r.kind \in ReadStates
    BY <1>2, <1>3, <1>ready, <2>4, <2>5 DEF HasSent, Outstanding
  <2>7. Len(StopTimer(g, UserTimer).timers) <= 2
    <3> DEFINE m == Len(StopTimer(g, UserTimer).timers)
               k == Len(g.timers)
               l == Len(f.timers)
    <3>1. m \in 0..k
      BY <2>5, QueueLengths DEF OwnTimers
    <3>2. k = l + 1 /\ l \in 0..1
      BY <2>1, <2>4, <2>5 DEF HasSent
    <3> HIDE DEF m, k, l
    <3>3. m <= 2
      BY <3>1, <3>2
    <3> QED BY <3>3 DEF m
  <2>8. Down(w, g)
    BY <2>3, <2>5, <2>6, <2>7 DEF Down
  <2>9. [s EXCEPT !.c = SocketClosed(@)] = Pair(w, g)
    BY <2>2, PairUpdate DEF g
  <2>10. LET t == OnDisconnected(Pair(w, g)) IN Loop(t.u, t.c)
    BY <2>8, DisconnectedFine
  <2>11. LET t == OnDisconnected([s EXCEPT !.c = SocketClosed(@)]) IN Loop(t.u, t.c)
    BY <2>9, <2>10
  <2> QED BY <1>5, <2>11 DEF s, f
<1> QED BY <1>4, <1>5

\* The connection could not be made.
LEMMA RefusedFine ==
    ASSUME NEW v, NEW c, Loop(v, c), c.socket = "Connecting"
    PROVE  LET s == OnSocketError(Pair(v, SocketClosed(c))) IN Loop(s.u, s.c)
<1> DEFINE d == SocketClosed(c)
<1>1. Dialling(v, c) /\ v \in UpdaterType /\ Cycle(v) /\ Sound(c, Request)
  BY DEF Loop, Online, Offline
<1>2. /\ Sound(d, Request)
      /\ d.socket = "Unconnected" /\ d.closing = FALSE /\ d.sent = {}
      /\ d.pending = c.pending /\ d.dropped = c.dropped
      /\ d.timers = c.timers
  BY <1>1, SocketClosedSound
<1>3. c.dropped = {} /\ c.pending = {} /\ Len(c.timers) = 1
  BY <1>1 DEF Dialling, Outstanding
<1> HIDE DEF d
<1>4. Len(d.timers) <= 1
  BY <1>2, <1>3
<1>5. OneReply(v, d)
  BY <1>1, <1>2, <1>3, <1>4 DEF OneReply
<1>6. PICK w, f : /\ OnSocketError(Pair(v, d)) = OnDisconnected(Pair(w, f))
                  /\ Falling(w, f)
                  /\ f.socket = d.socket
  BY <1>5, SocketErrorFalls
<1>7. Down(w, f)
  BY <1>2, <1>6, FallingCloses
<1>8. LET s == OnSocketError(Pair(v, d)) IN Loop(s.u, s.c)
  BY <1>6, <1>7, DisconnectedFine
<1> QED BY <1>8 DEF d

\* The connection broke: disconnected() is announced twice.
LEMMA BrokenFine ==
    ASSUME NEW v, NEW c, Loop(v, c), c.socket = "Connected"
    PROVE  LET s == OnSocketError(Pair(v, c))
               t == OnDisconnected([s EXCEPT !.c = SocketClosed(@)])
           IN  Loop(t.u, t.c)
<1> DEFINE s == OnSocketError(Pair(v, c))
<1>1. OneReply(v, c)
  BY DEF Loop, Online, Dialling, Offline, OneReply
<1>2. PICK w, f : s = OnDisconnected(Pair(w, f)) /\ Falling(w, f)
  BY <1>1, SocketErrorFalls
<1>3. PICK x, g : OnDisconnected(Pair(w, f)) = Pair(x, g) /\ Falling(x, g)
  BY <1>2, FallingWaits
<1> HIDE DEF s
<1>4. [s EXCEPT !.c = SocketClosed(@)] = Pair(x, SocketClosed(g))
  BY <1>2, <1>3, PairUpdate
<1>5. Down(x, SocketClosed(g))
  BY <1>3, FallingCloses
<1>6. LET t == OnDisconnected(Pair(x, SocketClosed(g))) IN Loop(t.u, t.c)
  BY <1>5, DisconnectedFine
<1>7. LET t == OnDisconnected([s EXCEPT !.c = SocketClosed(@)]) IN Loop(t.u, t.c)
  BY <1>4, <1>6
<1> QED BY <1>7 DEF s

\* The connect timer expires, which a connected client does not have.
LEMMA ConnectTimerFine ==
    ASSUME NEW v, NEW c, Loop(v, c), Expires(c, ConnectTimer)
    PROVE  LET s == OnDisconnected(Pair(v, ConnectTimeout(c)))
               t == IF c.socket = "Connected" THEN OnDisconnected(s) ELSE s
           IN  Loop(t.u, t.c)
<1> DEFINE d == ConnectTimeout(c)
           e == StopTimer(c, ConnectTimer)
<1>1. v \in UpdaterType /\ Cycle(v) /\ Sound(c, Request)
  BY DEF Loop
<1>2. ConnectTimer \in Running(c)
  BY <1>1, HeadTimer
<1>3. Len(e.timers) = Len(c.timers) - 1
  BY <1>1, <1>2, StopTimerSound DEF OwnTimers
<1>4. /\ Sound(d, Request)
      /\ d.socket = IF c.socket = "Connecting" THEN "Connecting" ELSE "Unconnected"
      /\ d.closing = (c.socket = "Connecting")
      /\ d.sent = IF c.socket = "Connecting" THEN c.sent ELSE {}
      /\ d.pending = c.pending /\ d.dropped = c.dropped
      /\ d.timers = e.timers
  BY <1>1, ConnectTimeoutSound
<1> HIDE DEF d, e
<1>5. c.socket # "Connected"
  BY <1>2 DEF Loop, Online, Dialling, Offline
<1>6. LET s == OnDisconnected(Pair(v, d)) IN Loop(s.u, s.c)
  <2>1. CASE Dialling(v, c)
    <3>1. d.socket = "Connecting" /\ d.closing
      BY <1>4, <2>1 DEF Dialling
    <3>2. Len(d.timers) = 0
      <4>1. Len(c.timers) = 1
        BY <2>1 DEF Dialling
      <4> QED BY <1>3, <1>4, <4>1
    <3>3. PICK w \in UpdaterType : /\ Cycle(w)
                                   /\ w.mCurrentState = "CheckCondition"
                                   /\ OnDisconnected(Pair(v, d)) = HandleError(Pair(w, d))
      BY <1>1, DisconnectedIs
    <3>4. GivenUp(w, d)
      BY <1>4, <3>1, <3>2, <3>3 DEF GivenUp
    <3> QED BY <3>3, <3>4, ErrorDiallingFine
  <2>2. CASE Offline(v, c)
    <3>1. d.socket = "Unconnected" /\ ~d.closing /\ d.sent = {}
      BY <1>4, <2>2 DEF Offline
    <3>2. \A r \in Outstanding(d) : r.kind \in ReadStates
      BY <1>4, <2>2 DEF Offline, Outstanding
    <3>3. Len(StopTimer(d, UserTimer).timers) <= 2
      <4> DEFINE m == Len(StopTimer(d, UserTimer).timers)
                 k == Len(d.timers)
                 n == Len(c.timers)
      <4>1. m \in 0..k
        BY <1>4, QueueLengths DEF OwnTimers
      <4>2. n \in 1..3 /\ k = n - 1
        BY <1>3, <1>4, <2>2 DEF Offline
      <4> HIDE DEF m, k, n
      <4>3. m <= 2
        BY <4>1, <4>2
      <4> QED BY <4>3 DEF m
    <3>4. Down(v, d)
      BY <1>1, <1>4, <3>1, <3>2, <3>3 DEF Down
    <3> QED BY <3>4, DisconnectedFine
  <2> QED BY <1>5, <2>1, <2>2 DEF Loop, Online
<1> QED BY <1>5, <1>6 DEF d

\* No timer runs, and there is no connection.
Unheard(v, c) ==
    /\ v \in UpdaterType /\ Cycle(v)
    /\ Sound(c, Request)
    /\ Len(c.timers) = 0
    /\ c.socket # "Connected"
    /\ v.mTimer = "off"

\* An attempt to connect with no timer running.
LEMMA RedialFine ==
    ASSUME NEW v, NEW c, Unheard(v, c)
    PROVE  Loop(v, ConnectToServer(c))
<1> DEFINE d == ConnectToServer(c)
<1>1. /\ v \in UpdaterType /\ Cycle(v) /\ Sound(c, Request)
      /\ Len(c.timers) = 0 /\ c.socket # "Connected" /\ v.mTimer = "off"
  BY DEF Unheard
<1>2. Running(c) = {} /\ c.pending = {} /\ c.dropped = {}
  BY <1>1, EmptyQueue DEF Outstanding
<1>3. c.socket \in {"Unconnected", "Connecting"}
  BY <1>1 DEF Sound, ClientType, SocketState
<1>4. /\ Sound(d, Request)
      /\ d.socket = "Connecting"
      /\ d.pending = {} /\ d.dropped = {}
      /\ Running(d) = {ConnectTimer}
      /\ Len(d.timers) = Len(c.timers) + 1
  <2>1. ConnectTimer \notin Running(c)
    BY <1>2
  <2> QED BY <1>1, <1>2, <1>3, <2>1, ConnectToServerSound
<1>5. Len(d.timers) = 1
  BY <1>1, <1>4
<1> HIDE DEF d
<1>6. Dialling(v, d)
  BY <1>1, <1>4, <1>5 DEF Dialling, Outstanding
<1>7. Loop(v, d)
  BY <1>1, <1>4, <1>6 DEF Loop, ConnectTimer, UserTimer
<1> QED BY <1>7 DEF d

\* The timer of the updater expires: a new cycle, or the failed question again.
LEMMA OnTimerFine ==
    ASSUME NEW v, NEW c, Loop(v, c), v.mTimer = "idle" \/ Expires(c, UserTimer)
    PROVE  LET s == StopUserTimer(Pair(v, c))
               t == IF c.socket = "Connected"
                    THEN StartNextAction(s, IF v.mCurrentState = "Idle"
                                            THEN "CheckCondition" ELSE v.mCurrentState)
                    ELSE [s EXCEPT !.c = ConnectToServer(@)]
           IN  Loop(t.u, t.c)
<1> DEFINE w == [v EXCEPT !.mTimer = "off"]
           d == StopTimer(c, UserTimer)
           s == StopUserTimer(Pair(v, c))
<1>1. v \in UpdaterType /\ Cycle(v) /\ Sound(c, Request) /\ Len(c.timers) \in Nat
  BY QueueLengths DEF Loop
<1>2. w \in UpdaterType /\ Cycle(w) /\ w.mTimer = "off" /\ w.mCurrentState = v.mCurrentState
  <2>1. /\ w \in UpdaterType /\ w.mTimer = "off" /\ w.mCurrentState = v.mCurrentState
        /\ w.logins = v.logins /\ w.modes = v.modes /\ w.mWriteCount = v.mWriteCount
        /\ w.isLoggedIn = v.isLoggedIn /\ w.inWattMode = v.inWattMode
        /\ w.hasGridCode = v.hasGridCode /\ w.statusCode = v.statusCode
        /\ w.mStatus = v.mStatus /\ w.opCondition = v.opCondition
    BY <1>1 DEF UpdaterType
  <2> HIDE DEF w
  <2> QED BY <1>1, <2>1 DEF Cycle
<1>3. Sound(d, Request) /\ SameButTimers(c, d)
  BY <1>1, StopTimerSound DEF OwnTimers
<1>4. Len(d.timers) = 0
  <2>1. CASE v.mTimer = "idle"
    <3>1. Online(v, c) /\ UserTimer \notin Running(c)
      BY <2>1 DEF Loop, Dialling, Offline
    <3>2. Len(c.timers) = 0
      BY <2>1, <3>1 DEF Online
    <3> QED BY <1>1, <3>1, <3>2, StopTimerSound DEF OwnTimers
  <2>2. CASE Expires(c, UserTimer)
    <3>1. UserTimer \in Running(c) /\ (Last(c.timers) = UserTimer => Len(c.timers) = 1)
      BY <1>1, <2>2, HeadTimer
    <3>2. Len(c.timers) = 1
      <4>1. CASE Online(v, c)
        <5>1. Len(c.timers) <= 1
          BY <4>1 DEF Online
        <5> QED BY <1>1, <3>1, <5>1, SingleTimer
      <4>2. CASE Dialling(v, c)
        BY <4>2 DEF Dialling
      <4>3. CASE Offline(v, c)
        BY <3>1, <4>3 DEF Offline
      <4> QED BY <4>1, <4>2, <4>3 DEF Loop
    <3>3. Len(d.timers) = Len(c.timers) - 1
      BY <1>1, <3>1, StopTimerSound DEF OwnTimers
    <3> QED BY <3>2, <3>3
  <2> QED BY <2>1, <2>2
<1>5. s = Pair(w, d)
  BY StopUserTimerPair
<1> HIDE DEF w, d, s
<1>6. CASE c.socket = "Connected"
  <2> DEFINE state == IF v.mCurrentState = "Idle" THEN "CheckCondition" ELSE v.mCurrentState
  <2>1. Online(v, c) /\ ~d.closing /\ d.socket = "Connected"
    BY <1>3, <1>6 DEF Loop, Online, Dialling, Offline, SameButTimers
  <2>2. Free(w, d)
    BY <1>2, <1>3, <1>4, <2>1 DEF Free
  <2>3. state \in ModbusState /\ Ready(w, state)
    <3>1. CASE v.mCurrentState = "Idle"
      BY <1>2, <3>1, CheckConditionReady, States
    <3>2. CASE v.mCurrentState # "Idle"
      <4>1. UserTimer \in Running(c)
        BY <1>1, <2>1, <3>2, HeadTimer DEF Online
      <4>2. v.mCurrentState \in ReadStates
        BY <2>1, <4>1 DEF Loop, Online
      <4> QED BY <1>2, <3>2, <4>2, ReadAgainReady, States
    <3> QED BY <3>1, <3>2
  <2> HIDE DEF state
  <2>4. LET t == StartNextAction(s, state) IN Loop(t.u, t.c)
    BY <1>5, <2>2, <2>3, NextFine
  <2> QED BY <1>6, <2>4 DEF s, state
<1>7. CASE c.socket # "Connected"
  <2>1. Loop(w, ConnectToServer(d))
    BY <1>2, <1>3, <1>4, <1>7, RedialFine DEF Unheard, SameButTimers
  <2>2. [s EXCEPT !.c = ConnectToServer(@)] = Pair(w, ConnectToServer(d))
    BY <1>5, PairUpdate
  <2>3. LET t == [s EXCEPT !.c = ConnectToServer(@)] IN Loop(t.u, t.c)
    BY <2>1, <2>2, PairUpdate
  <2> QED BY <1>7, <2>3 DEF s
<1> QED BY <1>6, <1>7

\* A limit is requested, which only the next cycle looks at.
LEMMA LimitRequestedFine ==
    ASSUME NEW v, NEW c, Loop(v, c), NEW limit \in Limits
    PROVE  Loop([v EXCEPT !.mPowerLimitWatt = IF limit > MaxPower THEN MaxPower ELSE limit], c)
<1> DEFINE l == IF limit > MaxPower THEN MaxPower ELSE limit
           w == [v EXCEPT !.mPowerLimitWatt = l]
<1>1. l \in Int
  BY PowerAssumption, LimitsAssumption
<1> HIDE DEF l
<1>2. /\ w \in UpdaterType /\ w.mTimer = v.mTimer /\ w.mCurrentState = v.mCurrentState
      /\ w.logins = v.logins /\ w.modes = v.modes /\ w.mWriteCount = v.mWriteCount
      /\ w.isLoggedIn = v.isLoggedIn /\ w.inWattMode = v.inWattMode
      /\ w.hasGridCode = v.hasGridCode /\ w.statusCode = v.statusCode
      /\ w.mStatus = v.mStatus /\ w.opCondition = v.opCondition
  BY <1>1 DEF Loop, UpdaterType
<1> HIDE DEF w
<1>3. Cycle(w)
  BY <1>2 DEF Loop, Cycle
<1>4. Loop(w, c)
  BY <1>2, <1>3 DEF Loop, Online, Dialling, Offline
<1> QED BY <1>4 DEF w, l

----------------------------------------------------------------------------
(* The invariant.                                                          *)

\* The invariant holds initially, and when the updater is created anew, whatever
\* the value of mWriteCount.
LEMMA NewFine ==
    ASSUME NEW v \in NewUpdaters
    PROVE  Loop(v, ConnectToServer(NewClient))
<1>1. /\ v \in UpdaterType /\ v.mTimer = "off" /\ v.mCurrentState = "Idle"
      /\ v.logins = 0 /\ v.modes = 0
      /\ v.statusCode = NotPublished /\ v.mStatus = "START0"
      /\ v.opCondition = "INVALID"
  <2>1. /\ -1 \in -1..MaxWrites /\ MaxWrites \in -1..MaxWrites
        /\ 0 \in 0..MaxRetries /\ 0 \in 0..MaxWrites + 1 /\ PowerLimitScale \in Int
    BY PowerAssumption DEF MaxWrites, MaxRetries
  <2>2. "Idle" \in ModbusState /\ "INVALID" \in Condition /\ "START0" \in Status
    BY DEF ModbusState, Condition, Status
  <2>3. PICK n \in {-1, MaxWrites}, grid \in BOOLEAN :
           v = [mCurrentState |-> "Idle", mRetryCount |-> 0, mWriteCount |-> n,
                mPowerLimitWatt |-> PowerLimitScale, mTimer |-> "off", hasGridCode |-> grid,
                opCondition |-> "INVALID", tracking |-> FALSE, isLoggedIn |-> FALSE,
                inWattMode |-> FALSE, mStatus |-> "START0", statusCode |-> NotPublished,
                logins |-> 0, modes |-> 0, gone |-> FALSE]
    BY DEF NewUpdaters
  <2>4. n \in -1..MaxWrites
    BY <2>1
  <2> QED BY <2>1, <2>2, <2>3, <2>4 DEF UpdaterType
<1>2. Cycle(v)
  BY <1>1 DEF Cycle, MaxWrites, Shown
<1>3. NewClient \in ClientType(Request)
  BY DEF NewClient, ClientType, SocketState
<1>4. /\ NewClient.timers = <<>> /\ NewClient.sent = {} /\ NewClient.socket = "Unconnected"
      /\ NewClient.pending = {} /\ NewClient.dropped = {}
  BY DEF NewClient
<1>5. Queue(NewClient)
  BY <1>4 DEF Queue, Outstanding, Running, IsInjective, ToSet
<1>6. Len(NewClient.timers) = 0
  BY <1>4
<1>7. Unheard(v, NewClient)
  BY <1>1, <1>2, <1>3, <1>4, <1>5, <1>6 DEF Unheard, Sound
<1> QED BY <1>7, RedialFine

\* The state as a pair.
LEMMA NowIs ==
    /\ Now = Pair(u, client)
    /\ \A d : [Now EXCEPT !.c = d] = Pair(u, d)
  BY DEF Now, Pair

\* Every step keeps the invariant.
LEMMA StepKeepsLoop == IInv /\ [Next]_vars => IInv'
<1> SUFFICES ASSUME Loop(u, client), [Next]_vars PROVE Loop(u', client')
  BY DEF IInv
<1>1. CASE Recreated
  BY <1>1, NewFine DEF Recreated
<1>2. ASSUME NEW r \in client.pending, ReadAnswered(r) PROVE Loop(u', client')
  <2>1. r \in Answerable(client) /\ r.kind \in ReadStates
    BY <1>2 DEF ReadAnswered
  <2>2. PICK size \in {Size(r.kind), 1}, yes \in BOOLEAN :
           Becomes(OnValues(Pair(u, Finished(client, r)), size, yes))
    BY <1>2, NowIs DEF ReadAnswered
  <2> QED BY <2>1, <2>2, ReadAnsweredFine DEF Becomes
<1>3. ASSUME NEW r \in client.pending, WriteAnswered(r) PROVE Loop(u', client')
  <2>1. r \in Answerable(client) /\ r.kind \in WriteStates
    BY <1>3 DEF WriteAnswered
  <2>2. Becomes(OnWriteCompleted(Pair(u, Finished(client, r))))
    BY <1>3, NowIs DEF WriteAnswered
  <2> QED BY <2>1, <2>2, WriteAnsweredFine DEF Becomes
<1>4. ASSUME NEW r \in client.pending, ReplyFailed(r) PROVE Loop(u', client')
  <2>1. Becomes(OnFailure(Pair(u, client), r)) /\ r \in Outstanding(client)
    BY <1>4, NowIs DEF ReplyFailed, Outstanding
  <2> QED BY <2>1, FailureFine DEF Becomes
<1>5. ASSUME NEW r \in Outstanding(client), ReplyTimedOut(r) PROVE Loop(u', client')
  <2>1. Becomes(OnFailure(Pair(u, client), r))
    BY <1>5, NowIs DEF ReplyTimedOut
  <2> QED BY <2>1, FailureFine DEF Becomes
<1>6. CASE Connected
  <2>1. client.socket = "Connecting"
    BY <1>6 DEF Connected
  <2>2. LET s == StartNextAction(Pair(u, SocketConnected(client)), "CheckCondition")
        IN  Becomes(IF client.closing
                    THEN OnDisconnected([s EXCEPT !.c = SocketClosed(@)])
                    ELSE s)
    BY <1>6, NowIs DEF Connected
  <2> QED BY <2>1, <2>2, ConnectedFine DEF Becomes
<1>7. CASE ConnectionRefused
  <2>1. client.socket = "Connecting"
    BY <1>7 DEF ConnectionRefused
  <2>2. Becomes(OnSocketError(Pair(u, SocketClosed(client))))
    BY <1>7, NowIs DEF ConnectionRefused
  <2> QED BY <2>1, <2>2, RefusedFine DEF Becomes
<1>8. CASE ConnectionBroken
  <2>1. client.socket = "Connected"
    BY <1>8 DEF ConnectionBroken
  <2>2. LET s == OnSocketError(Pair(u, client))
        IN  Becomes(OnDisconnected([s EXCEPT !.c = SocketClosed(@)]))
    BY <1>8, NowIs DEF ConnectionBroken
  <2> QED BY <2>1, <2>2, BrokenFine DEF Becomes
<1>9. CASE ConnectTimerExpired
  <2>1. Expires(client, ConnectTimer)
    BY <1>9 DEF ConnectTimerExpired
  <2>2. LET s == OnDisconnected(Pair(u, ConnectTimeout(client)))
        IN  Becomes(IF client.socket = "Connected" THEN OnDisconnected(s) ELSE s)
    BY <1>9, NowIs DEF ConnectTimerExpired
  <2> QED BY <2>1, <2>2, ConnectTimerFine DEF Becomes
<1>10. CASE OnTimer
  <2>1. u.mTimer = "idle" \/ Expires(client, UserTimer)
    BY <1>10 DEF OnTimer
  <2>2. LET s == StopUserTimer(Pair(u, client))
        IN  Becomes(IF client.socket = "Connected"
                    THEN StartNextAction(s, IF u.mCurrentState = "Idle"
                                            THEN "CheckCondition" ELSE u.mCurrentState)
                    ELSE [s EXCEPT !.c = ConnectToServer(@)])
    BY <1>10, NowIs DEF OnTimer
  <2> QED BY <2>1, <2>2, OnTimerFine DEF Becomes
<1>11. ASSUME NEW limit \in Limits, PowerLimitRequested(limit) PROVE Loop(u', client')
  <2>1. /\ u' = [u EXCEPT !.mPowerLimitWatt = IF limit > MaxPower THEN MaxPower ELSE limit]
        /\ client' = client
    BY <1>11 DEF PowerLimitRequested
  <2>2. Loop([u EXCEPT !.mPowerLimitWatt = IF limit > MaxPower THEN MaxPower ELSE limit],
             client)
    BY LimitRequestedFine
  <2> QED BY <2>1, <2>2, Zenon
<1>12. CASE UNCHANGED vars
  BY <1>12 DEF vars
<1> QED BY <1>1, <1>2, <1>3, <1>4, <1>5, <1>6, <1>7, <1>8, <1>9, <1>10, <1>11, <1>12
        DEF Next, Step

\* What is under way and what the members are hold in every state.
THEOREM Invariance == Spec => []IInv
<1>1. Init => IInv
  BY NewFine DEF Init, IInv
<1> QED BY <1>1, StepKeepsLoop, PTL DEF Spec

\* The members and the client keep their types; in particular no more than
\* three replies are ever outstanding, so an identifier is always free.
THEOREM TypeCorrect == Spec => []TypeOK
<1>1. IInv => TypeOK
  BY DEF IInv, Loop, Sound, TypeOK
<1> QED BY <1>1, Invariance, PTL

\* The polling loop stops in the state Error of a connected inverter only: in
\* any other a timer runs, a request is under way, or the socket connects.
THEOREM PollingStopsInErrorOnly == Spec => []StuckOnlyInError
<1>1. ASSUME Loop(u, client), u.mTimer = "off", Outstanding(client) = {},
             client.socket # "Connecting"
      PROVE  u.mCurrentState = "Error" /\ client.socket = "Connected"
  <2>1. /\ Sound(client, Request) /\ UserTimer \notin Running(client)
        /\ Online(u, client)
    BY <1>1 DEF Loop, Dialling, Offline
  <2>2. Running(client) \cap Ids = {}
    BY <1>1, <2>1 DEF Sound, Queue
  <2>3. Running(client) \subseteq Timers /\ ConnectTimer \notin Running(client)
    BY <2>1, ClientFields DEF Sound, Online
  <2>4. Running(client) = {}
    BY <2>1, <2>2, <2>3 DEF Timers
  <2>5. Len(client.timers) = 0
    BY <2>1, <2>4, QueueLengths
  <2> QED BY <1>1, <2>1, <2>5 DEF Online
<1>2. IInv => StuckOnlyInError
  BY <1>1 DEF IInv, Loop, UpdaterType, StuckOnlyInError
<1> QED BY <1>2, Invariance, PTL

\* In one cycle an inverter is written to three times at most for the login, and
\* three times for the mode.
THEOREM WritesAreBounded == Spec => []WritesBounded
<1>1. IInv => WritesBounded
  BY DEF IInv, Loop, Cycle, WritesBounded
<1> QED BY <1>1, Invariance, PTL

\* A power limit is written to an inverter that is logged in to, in its mode for
\* a limit.
THEOREM LimitsInControl == Spec => []LimitOnlyInControl
<1>1. ASSUME Loop(u, client), NEW r \in Answerable(client), r.kind = "WritePowerLimit"
      PROVE  u.isLoggedIn /\ u.inWattMode
  <2>1. Online(u, client) /\ r \in client.pending
    BY <1>1 DEF Loop, Dialling, Offline, Answerable
  <2>2. u.mCurrentState = "WritePowerLimit"
    BY <1>1, <2>1 DEF Online
  <2> QED BY <1>1, <2>2 DEF Loop, Cycle
<1>2. IInv => LimitOnlyInControl
  BY <1>1 DEF IInv, LimitOnlyInControl
<1> QED BY <1>2, Invariance, PTL

\* The status shown is the one that was set last, or nothing while none was set,
\* or, without a grid code only, STANDBY; and while the condition is a fault that
\* of an error was set, and with a grid code is shown.
THEOREM StatusShown == Spec => []StatusIsShown
<1>1. IInv => StatusIsShown
  BY DEF IInv, Loop, Cycle, Shown, NotPublished, StatusIsShown
<1> QED BY <1>1, Invariance, PTL
=============================================================================
