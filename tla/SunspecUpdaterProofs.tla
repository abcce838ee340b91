------------------------ MODULE SunspecUpdaterProofs ------------------------
(***************************************************************************)
(* Theorems about SunspecUpdater: its type, that the polling loop is never *)
(* stuck, that an answer is always one to the question of the current      *)
(* state.                                                                  *)
(*                                                                         *)
(* They rest on the shape of the queue of timers in each state of          *)
(* the socket: connected, one timer runs at most; connecting, exactly one; *)
(* and while there is no connection the timer of the updater, when it      *)
(* runs, is the last to expire, so that no reply is left when it connects. *)
(***************************************************************************)
EXTENDS SunspecUpdater, ModbusTcpClientProofs, FiniteSetTheorems

\* Nothing but the one question of the current state is under way, or the
\* updater waits for its timer.
Online(v, c) ==
    /\ c.socket = "Connected"
    /\ ~c.closing
    /\ c.dropped = {}
    /\ c.sent = {r.id : r \in c.pending}
    /\ ConnectTimer \notin Running(c)
    /\ Len(c.timers) <= 1
    /\ \A r \in c.pending : r.kind = v.mCurrentState
    /\ v.mTimer = "idle" <=> Len(c.timers) = 0
    /\ v.mTimer = "idle" <=> v.mCurrentState = "Idle"

\* One timer runs: that of the attempt, unless it has expired.
Dialling(v, c) ==
    /\ c.socket = "Connecting"
    /\ c.dropped = {}
    /\ Len(c.timers) = 1
    /\ ~c.closing => ConnectTimer \in Running(c)
    /\ \A r \in c.pending : r.kind = InitState
    /\ ConnectTimer \notin Running(c) => v.mCurrentState = InitState
    /\ v.mTimer # "idle"

\* Replies run out of time one by one, before the updater connects again.
Offline(v, c) ==
    /\ c.socket = "Unconnected"
    /\ ~c.closing
    /\ c.sent = {}
    /\ Len(c.timers) \in 1..3
    /\ UserTimer \in Running(c) => Last(c.timers) = UserTimer
    /\ Last(c.timers) # ConnectTimer
    /\ \A r \in Outstanding(c) : r.kind = InitState
    /\ v.mCurrentState = InitState
    /\ v.mTimer # "idle"

Loop(v, c) ==
    /\ v \in UpdaterType
    /\ Sound(c, Request)
    /\ v.mTimer = "retry" <=> UserTimer \in Running(c)
    /\ Online(v, c) \/ Dialling(v, c) \/ Offline(v, c)

IInv == Loop(u, client)

----------------------------------------------------------------------------
(* The handlers as functions of the members and the client.                *)

\* The timer of the updater stops.
LEMMA StopUserTimerPair ==
    ASSUME NEW v, NEW c
    PROVE  StopUserTimer(Pair(v, c)) = Pair([v EXCEPT !.mTimer = "off"], StopTimer(c, UserTimer))
<1> DEFINE m == [Pair(v, c) EXCEPT !.u.mTimer = "off"]
<1>1. StopUserTimer(Pair(v, c)) = [m EXCEPT !.c = StopTimer(c, UserTimer)]
  BY PairUpdate DEF StopUserTimer
<1>2. m = Pair([v EXCEPT !.mTimer = "off"], c)
  BY DEF Pair
<1> HIDE DEF m
<1> QED BY <1>1, <1>2, PairUpdate

\* The members after a request, and after a timer of the updater was started.
Sending(v, state) ==
    [v EXCEPT !.mCurrentState = state,
              !.told = IF state = "WritePowerLimit" THEN v.mPowerLimitPct ELSE @]

Value(v, state) == IF state = "WritePowerLimit" THEN v.mPowerLimitPct ELSE 0

Waiting(v) ==
    LET lost == v.mRetryCount = MaxRetries
    IN  [v EXCEPT !.mRetryCount = IF lost THEN 0 ELSE @ + 1, !.gone = @ \/ lost,
                  !.mTimer = "retry"]

\* The initial state is one that reads.
LEMMA InitStateReads ==
    /\ InitState \in ModbusState
    /\ InitState # "Idle" /\ InitState # "WritePowerLimit"
  BY DEF InitState, ModbusState

\* A request in a state other than Idle.
LEMMA StartSends ==
    ASSUME NEW v \in UpdaterType, NEW c, NEW state \in ModbusState, state # "Idle"
    PROVE  StartNextAction(Pair(v, c), state)
              = Pair(Sending(v, state), SendFrame(c, state, Value(v, state)))
<1> DEFINE t == [v EXCEPT !.mCurrentState = state]
<1>1. [Pair(v, c) EXCEPT !.u.mCurrentState = state] = Pair(t, c)
  BY DEF Pair
<1>2. CASE state = "WritePowerLimit"
  <2>1. StartNextAction(Pair(v, c), state) = WriteRegisters(Pair(t, c), state, v.mPowerLimitPct)
    BY <1>1, <1>2 DEF StartNextAction, Pair
  <2>2. [t EXCEPT !.told = v.mPowerLimitPct] = Sending(v, state)
    BY <1>2 DEF Sending, UpdaterType
  <2>3. WriteRegisters(Pair(t, c), state, v.mPowerLimitPct)
           = Pair([t EXCEPT !.told = v.mPowerLimitPct], SendFrame(c, state, v.mPowerLimitPct))
    <3> HIDE DEF t
    <3> DEFINE m == [Pair(t, c) EXCEPT !.u.told = v.mPowerLimitPct]
    <3>1. WriteRegisters(Pair(t, c), state, v.mPowerLimitPct)
             = [m EXCEPT !.c = SendFrame(c, state, v.mPowerLimitPct)]
      BY PairUpdate DEF WriteRegisters
    <3>2. m = Pair([t EXCEPT !.told = v.mPowerLimitPct], c)
      BY DEF Pair
    <3> HIDE DEF m
    <3> QED BY <3>1, <3>2, PairUpdate
  <2> QED BY <1>2, <2>1, <2>2, <2>3 DEF Value
<1>3. CASE state # "WritePowerLimit"
  <2>1. StartNextAction(Pair(v, c), state) = ReadRegisters(Pair(t, c), state)
    BY <1>1, <1>3 DEF StartNextAction
  <2>2. t = Sending(v, state)
    BY <1>3 DEF Sending, UpdaterType
  <2>3. ReadRegisters(Pair(t, c), state) = Pair(t, SendFrame(c, state, 0))
    BY DEF ReadRegisters, Pair
  <2> QED BY <1>3, <2>1, <2>2, <2>3 DEF Value
<1> QED BY <1>2, <1>3

\* In Idle the timer of 1000 ms is started, which is not one of the client.
LEMMA StartIdles ==
    ASSUME NEW v \in UpdaterType, NEW c
    PROVE  StartNextAction(Pair(v, c), "Idle")
              = Pair([v EXCEPT !.mCurrentState = "Idle", !.mTimer = "idle"],
                     StopTimer(c, UserTimer))
<1> DEFINE t == [v EXCEPT !.mCurrentState = "Idle"]
<1>1. [Pair(v, c) EXCEPT !.u.mCurrentState = "Idle"] = Pair(t, c)
  BY DEF Pair
<1>2. StartNextAction(Pair(v, c), "Idle") = StartIdleTimer(Pair(t, c))
  BY <1>1 DEF StartNextAction
<1>3. t.mCurrentState = "Idle"
  BY DEF UpdaterType
<1>4. StartIdleTimer(Pair(t, c)) = [StopUserTimer(Pair(t, c)) EXCEPT !.u.mTimer = "idle"]
  BY <1>3 DEF StartIdleTimer, Pair
<1> HIDE DEF t
<1>5. StopUserTimer(Pair(t, c)) = Pair([t EXCEPT !.mTimer = "off"], StopTimer(c, UserTimer))
  BY StopUserTimerPair
<1>6. ASSUME NEW x, NEW d
      PROVE  [Pair(x, d) EXCEPT !.u.mTimer = "idle"] = Pair([x EXCEPT !.mTimer = "idle"], d)
  BY DEF Pair
<1> DEFINE off == [t EXCEPT !.mTimer = "off"]
<1>7. [off EXCEPT !.mTimer = "idle"] = [v EXCEPT !.mCurrentState = "Idle", !.mTimer = "idle"]
  BY DEF t, UpdaterType
<1>8. StopUserTimer(Pair(t, c)) = Pair(off, StopTimer(c, UserTimer))
  BY <1>5
<1> HIDE DEF off
<1> QED BY <1>2, <1>4, <1>6, <1>7, <1>8

\* After an error the updater waits for its timer of 5000 ms.
LEMMA ErrorWaits ==
    ASSUME NEW v \in UpdaterType, NEW c, v.mCurrentState # "Idle"
    PROVE  HandleError(Pair(v, c)) = Pair(Waiting(v), StartTimer(c, UserTimer))
<1> DEFINE lost == v.mRetryCount = MaxRetries
           t    == [v EXCEPT !.mRetryCount = IF lost THEN 0 ELSE @ + 1, !.gone = @ \/ lost]
           n    == IF lost THEN 0 ELSE v.mRetryCount + 1
           g    == v.gone \/ lost
<1>1. HandleError(Pair(v, c)) = StartIdleTimer(Pair(t, c))
  <2> HIDE DEF n, g
  <2>1. HandleError(Pair(v, c))
           = StartIdleTimer([Pair(v, c) EXCEPT !.u = [[v EXCEPT !.mRetryCount = n]
                                                          EXCEPT !.gone = g]])
    BY DEF HandleError, Pair, n, g
  <2>2. t = [[v EXCEPT !.mRetryCount = n] EXCEPT !.gone = g]
    BY DEF n, g
  <2> QED BY <2>1, <2>2, PairUpdate
<1>2. t.mCurrentState = v.mCurrentState
  BY DEF UpdaterType
<1>3. [t EXCEPT !.mTimer = "retry"] = Waiting(v)
  BY DEF Waiting, UpdaterType
<1> HIDE DEF t
<1>4. StartIdleTimer(Pair(t, c)) = Pair([t EXCEPT !.mTimer = "retry"], StartTimer(c, UserTimer))
  BY <1>2 DEF StartIdleTimer, Pair
<1> QED BY <1>1, <1>3, <1>4

\* The members keep their type when a request is sent.
LEMMA SendingTyped ==
    ASSUME NEW v \in UpdaterType, NEW state \in ModbusState
    PROVE  /\ Sending(v, state) \in UpdaterType
           /\ Sending(v, state).mCurrentState = state
           /\ Sending(v, state).mTimer = v.mTimer
           /\ Value(v, state) \in Percent
  BY DEF Sending, Value, UpdaterType, Percent

\* The members keep their type when the timer is started.
LEMMA WaitingTyped ==
    ASSUME NEW v \in UpdaterType
    PROVE  /\ Waiting(v) \in UpdaterType
           /\ Waiting(v).mCurrentState = v.mCurrentState
           /\ Waiting(v).mTimer = "retry"
<1>1. /\ Waiting(v).mCurrentState = v.mCurrentState
      /\ Waiting(v).mTimer = "retry"
  BY DEF Waiting, UpdaterType
<1>2. Waiting(v) \in UpdaterType
  <2> DEFINE lost == v.mRetryCount = MaxRetries
             n    == IF lost THEN 0 ELSE v.mRetryCount + 1
             g    == v.gone \/ lost
  <2>1. n \in 0..MaxRetries /\ g \in BOOLEAN
    BY DEF UpdaterType, MaxRetries
  <2>2. Waiting(v) = [v EXCEPT !.mRetryCount = n, !.gone = g, !.mTimer = "retry"]
    BY DEF Waiting, UpdaterType
  <2> HIDE DEF n, g
  <2> QED BY <2>1, <2>2 DEF UpdaterType
<1> QED BY <1>1, <1>2

----------------------------------------------------------------------------
(* From shape to shape.                                                    *)

\* Connected, and nothing under way: the state in which a handler of a reply or
\* of a timer runs.
Free(v, c) ==
    /\ v \in UpdaterType
    /\ Sound(c, Request)
    /\ c.socket = "Connected"
    /\ ~c.closing
    /\ Len(c.timers) = 0
    /\ v.mTimer = "off"

\* Without a connection: the state in which disconnected() is announced.
Down(v, c) ==
    /\ v \in UpdaterType
    /\ Sound(c, Request)
    /\ c.socket = "Unconnected"
    /\ ~c.closing
    /\ c.sent = {}
    /\ \A r \in Outstanding(c) : r.kind = InitState
    /\ Len(StopTimer(c, UserTimer).timers) <= 2

\* What is sent is a request.
LEMMA RequestTyped ==
    ASSUME NEW v \in UpdaterType, NEW state \in ModbusState, state # "Idle"
    PROVE  \A n \in Ids : [id |-> n, kind |-> state, value |-> Value(v, state)] \in Request
<1>1. Value(v, state) \in Percent
  BY SendingTyped
<1> QED BY <1>1 DEF Request, Ids

\* The members the shapes do not mention may change.
LEMMA LoopOtherMembers ==
    ASSUME NEW v, NEW c, NEW w \in UpdaterType, Loop(v, c),
           w.mTimer = v.mTimer, w.mCurrentState = v.mCurrentState
    PROVE  Loop(w, c)
  BY DEF Loop, Online, Dialling, Offline

\* With nothing under way the next action is one question, or a pause.
LEMMA NextFine ==
    ASSUME NEW v, NEW c, Free(v, c), NEW state \in ModbusState
    PROVE  LET s == StartNextAction(Pair(v, c), state) IN Loop(s.u, s.c)
<1>1. /\ v \in UpdaterType /\ Sound(c, Request)
      /\ c.socket = "Connected" /\ ~c.closing
      /\ Len(c.timers) = 0
      /\ v.mTimer = "off"
  BY DEF Free
<1>2. Running(c) = {} /\ c.pending = {} /\ c.dropped = {} /\ c.sent = {}
  BY <1>1, EmptyQueue DEF Outstanding
<1>3. CASE state = "Idle"
  <2> DEFINE w == [v EXCEPT !.mCurrentState = "Idle", !.mTimer = "idle"]
             d == StopTimer(c, UserTimer)
  <2>1. StartNextAction(Pair(v, c), state) = Pair(w, d)
    BY <1>1, <1>3, StartIdles
  <2>2. w \in UpdaterType /\ w.mCurrentState = "Idle" /\ w.mTimer = "idle"
    BY <1>1 DEF UpdaterType, ModbusState
  <2>3. /\ Sound(d, Request) /\ SameButTimers(c, d)
        /\ Running(d) = {} /\ d.timers = c.timers
    BY <1>1, <1>2, StopTimerSound DEF OwnTimers
  <2> HIDE DEF w, d
  <2>4. Online(w, d)
    BY <1>1, <1>2, <2>2, <2>3 DEF Online, SameButTimers
  <2>5. Loop(w, d)
    BY <2>2, <2>3, <2>4 DEF Loop
  <2> QED BY <2>1, <2>5, PairUpdate
<1>4. CASE state # "Idle"
  <2> DEFINE w == Sending(v, state)
             d == SendFrame(c, state, Value(v, state))
             r == NewRequest(c, state, Value(v, state))
  <2>1. StartNextAction(Pair(v, c), state) = Pair(w, d)
    BY <1>1, <1>4, StartSends
  <2>2. w \in UpdaterType /\ w.mCurrentState = state /\ w.mTimer = "off"
    BY <1>1, SendingTyped
  <2>3. \A n \in Ids : [id |-> n, kind |-> state, value |-> Value(v, state)] \in Request
    BY <1>1, <1>4, RequestTyped
  <2>4. Sound(d, Request) /\ HasSent(c, d, r) /\ r.kind = state
    <3>1. Len(c.timers) <= 2
      BY <1>1
    <3> QED BY <1>1, <2>3, <3>1, RepliesAssumption, SendFrameSound
  <2> HIDE DEF w, d, r
  <2>6. /\ d.pending = {r} /\ d.dropped = {} /\ d.sent = {r.id}
        /\ d.socket = "Connected" /\ ~d.closing
        /\ Running(d) = {r.id} /\ Len(d.timers) = 1 /\ r.id \in Ids
    BY <1>1, <1>2, <2>4 DEF HasSent
  <2>7. ConnectTimer \notin Running(d) /\ UserTimer \notin Running(d)
    BY <2>6 DEF Ids, ConnectTimer, UserTimer
  <2>8. Online(w, d)
    BY <1>4, <2>2, <2>4, <2>6, <2>7 DEF Online
  <2>9. Loop(w, d)
    BY <2>2, <2>4, <2>7, <2>8 DEF Loop
  <2> QED BY <2>1, <2>9, PairUpdate
<1> QED BY <1>3, <1>4

\* With nothing under way an error leads to the timer of the updater.
LEMMA ErrorFine ==
    ASSUME NEW v, NEW c, Free(v, c), v.mCurrentState # "Idle"
    PROVE  LET s == HandleError(Pair(v, c)) IN Loop(s.u, s.c)
<1> DEFINE w == Waiting(v)
           d == StartTimer(c, UserTimer)
<1>1. /\ v \in UpdaterType /\ Sound(c, Request)
      /\ c.socket = "Connected" /\ ~c.closing
      /\ Len(c.timers) = 0
  BY DEF Free
<1>2. Running(c) = {} /\ c.pending = {} /\ c.dropped = {} /\ c.sent = {}
  BY <1>1, EmptyQueue DEF Outstanding
<1>3. HandleError(Pair(v, c)) = Pair(w, d)
  BY <1>1, ErrorWaits
<1>4. w \in UpdaterType /\ w.mCurrentState = v.mCurrentState /\ w.mTimer = "retry"
  BY <1>1, WaitingTyped
<1>5. /\ Sound(d, Request) /\ SameButTimers(c, d)
      /\ Running(d) = {UserTimer} /\ Len(d.timers) = 1
  <2>1. UserTimer \in OwnTimers /\ UserTimer \notin Running(c)
    BY <1>2 DEF OwnTimers
  <2>2. /\ Sound(d, Request) /\ SameButTimers(c, d)
        /\ Running(d) = Running(c) \cup {UserTimer}
        /\ Len(d.timers) = Len(c.timers) + 1
    BY <1>1, <2>1, StartTimerSound
  <2> QED BY <1>1, <1>2, <2>2
<1> HIDE DEF w, d
<1>6. Online(w, d)
  BY <1>1, <1>2, <1>4, <1>5 DEF Online, SameButTimers, ConnectTimer, UserTimer
<1>7. Loop(w, d)
  BY <1>4, <1>5, <1>6 DEF Loop
<1> QED BY <1>3, <1>7, PairUpdate

\* Without a connection an error in the initial state leads to the timer, too.
LEMMA ErrorDownFine ==
    ASSUME NEW v, NEW c, Down(v, c), v.mCurrentState = InitState
    PROVE  LET s == HandleError(Pair(v, c)) IN Loop(s.u, s.c)
<1> DEFINE w == Waiting(v)
           d == StartTimer(c, UserTimer)
           e == StopTimer(c, UserTimer)
<1>1. /\ v \in UpdaterType /\ Sound(c, Request)
      /\ c.socket = "Unconnected" /\ ~c.closing /\ c.sent = {}
      /\ \A r \in Outstanding(c) : r.kind = InitState
      /\ Len(e.timers) <= 2
  BY DEF Down
<1>2. HandleError(Pair(v, c)) = Pair(w, d)
  BY <1>1, ErrorWaits, InitStateReads
<1>3. w \in UpdaterType /\ w.mCurrentState = InitState /\ w.mTimer = "retry"
  BY <1>1, WaitingTyped
<1>4. /\ Sound(d, Request) /\ SameButTimers(c, d)
      /\ Running(d) = Running(c) \cup {UserTimer}
      /\ Last(d.timers) = UserTimer
  BY <1>1, StartTimerSound DEF OwnTimers
<1>5. Len(d.timers) \in 1..3
  <2> DEFINE n == Len(c.timers)
             m == Len(e.timers)
             k == Len(d.timers)
  <2>1. n \in Nat /\ m \in 0..n /\ m <= 2
    BY <1>1, QueueLengths DEF OwnTimers
  <2>2. k \in Nat /\ k # 0
    BY <1>4, QueueLengths
  <2>3. k = m + 1
    BY <1>1, RestartedQueue DEF OwnTimers
  <2> HIDE DEF n, m, k
  <2>4. k \in 1..3
    BY <2>1, <2>2, <2>3
  <2> QED BY <2>4 DEF k
<1> HIDE DEF w, d
<1>6. Outstanding(d) = Outstanding(c)
  BY <1>4 DEF SameButTimers, Outstanding
<1>7. Offline(w, d)
  BY <1>1, <1>3, <1>4, <1>5, <1>6 DEF Offline, SameButTimers, ConnectTimer, UserTimer
<1>8. Loop(w, d)
  BY <1>3, <1>4, <1>7 DEF Loop
<1> QED BY <1>2, <1>8, PairUpdate

\* The signal disconnected() is an error in the initial state.
LEMMA DisconnectedIs ==
    ASSUME NEW v \in UpdaterType, NEW c
    PROVE  \E w \in UpdaterType : /\ w.mCurrentState = InitState
                                  /\ OnDisconnected(Pair(v, c)) = HandleError(Pair(w, c))
<1> DEFINE w == [v EXCEPT !.mCurrentState = InitState]
<1>1. OnDisconnected(Pair(v, c)) = HandleError(Pair(w, c))
  <2>1. [Pair(v, c) EXCEPT !.u.mCurrentState = InitState] = Pair(w, c)
    BY DEF Pair
  <2> QED BY <2>1 DEF OnDisconnected
<1>2. w \in UpdaterType /\ w.mCurrentState = InitState
  BY InitStateReads DEF UpdaterType
<1> HIDE DEF w
<1> QED BY <1>1, <1>2

\* The signal disconnected() without a connection.
LEMMA DisconnectedFine ==
    ASSUME NEW v, NEW c, Down(v, c)
    PROVE  LET s == OnDisconnected(Pair(v, c)) IN Loop(s.u, s.c)
<1>1. PICK w \in UpdaterType : /\ w.mCurrentState = InitState
                               /\ OnDisconnected(Pair(v, c)) = HandleError(Pair(w, c))
  BY DisconnectedIs DEF Down
<1>2. Down(w, c)
  BY DEF Down
<1> QED BY <1>1, <1>2, ErrorDownFine

\* While the socket still connects, with nothing under way, an error leads to
\* the timer, too.
LEMMA ErrorDiallingFine ==
    ASSUME NEW v, NEW c, v \in UpdaterType, Sound(c, Request), c.socket = "Connecting",
           c.closing, Len(c.timers) = 0, v.mCurrentState = InitState
    PROVE  LET s == HandleError(Pair(v, c)) IN Loop(s.u, s.c)
<1> DEFINE w == Waiting(v)
           d == StartTimer(c, UserTimer)
<1>1. Running(c) = {} /\ c.pending = {} /\ c.dropped = {}
  BY EmptyQueue DEF Outstanding
<1>2. HandleError(Pair(v, c)) = Pair(w, d)
  BY ErrorWaits, InitStateReads
<1>3. w \in UpdaterType /\ w.mCurrentState = InitState /\ w.mTimer = "retry"
  BY WaitingTyped
<1>4. /\ Sound(d, Request) /\ SameButTimers(c, d)
      /\ Running(d) = {UserTimer} /\ Len(d.timers) = 1
  <2>1. UserTimer \in OwnTimers /\ UserTimer \notin Running(c)
    BY <1>1 DEF OwnTimers
  <2>2. /\ Sound(d, Request) /\ SameButTimers(c, d)
        /\ Running(d) = Running(c) \cup {UserTimer}
        /\ Len(d.timers) = Len(c.timers) + 1
    BY <2>1, StartTimerSound
  <2> QED BY <1>1, <2>2
<1> HIDE DEF w, d
<1>5. Dialling(w, d)
  BY <1>1, <1>3, <1>4 DEF Dialling, SameButTimers
<1>6. Loop(w, d)
  BY <1>3, <1>4, <1>5 DEF Loop
<1> QED BY <1>2, <1>6, PairUpdate

----------------------------------------------------------------------------
(* Replies.                                                                *)

\* A failed reply, and a write that is completed, in terms of the above.
LEMMA FailureIs ==
    ASSUME NEW v, NEW c, NEW r
    PROVE  /\ OnFailure(Pair(v, c), r)
                 = IF r.kind = "WritePowerLimit" THEN OnWriteCompleted(Pair(v, Finished(c, r)))
                   ELSE HandleError(Pair(v, Finished(c, r)))
           /\ OnWriteCompleted(Pair(v, c))
                 = StartNextAction(Pair([v EXCEPT !.mWritePowerLimitRequested = FALSE], c),
                                   InitState)
<1>1. [Pair(v, c) EXCEPT !.c = Finished(Pair(v, c).c, r)] = Pair(v, Finished(c, r))
  BY PairUpdate
<1>2. ASSUME NEW b
      PROVE  [Pair(v, c) EXCEPT !.u.mWritePowerLimitRequested = b]
                = Pair([v EXCEPT !.mWritePowerLimitRequested = b], c)
  BY DEF Pair
<1>3. OnFailure(Pair(v, c), r)
         = IF r.kind = "WritePowerLimit" THEN OnWriteCompleted(Pair(v, Finished(c, r)))
           ELSE HandleError(Pair(v, Finished(c, r)))
  BY <1>1 DEF OnFailure
<1>4. OnWriteCompleted(Pair(v, c))
         = StartNextAction(Pair([v EXCEPT !.mWritePowerLimitRequested = FALSE], c), InitState)
  BY <1>2, Zenon DEF OnWriteCompleted
<1> QED BY <1>3, <1>4

\* The requests of a sound client are requests.
LEMMA OutstandingTyped ==
    ASSUME NEW c, Sound(c, Request), NEW r \in Outstanding(c)
    PROVE  r \in Request /\ r.id \in Ids /\ r.kind \in ModbusState \ {"Idle"}
<1>1. r \in Request
  BY ClientFields DEF Sound, Outstanding
<1> QED BY <1>1 DEF Request, Ids

\* Once the one reply of a connected client has finished, nothing is under way.
LEMMA OnlineFinished ==
    ASSUME NEW v, NEW c, Loop(v, c), Online(v, c), NEW r \in Outstanding(c)
    PROVE  Free(v, Finished(c, r)) /\ v.mCurrentState = r.kind /\ r.kind # "Idle"
<1>1. Sound(c, Request) /\ v \in UpdaterType /\ Len(c.timers) <= 1
  BY DEF Loop, Online
<1>2. r.id \in Ids /\ r.kind \in ModbusState \ {"Idle"}
  BY <1>1, OutstandingTyped
<1>3. r \in c.pending
  BY DEF Online, Outstanding
<1>4. v.mCurrentState = r.kind
  BY <1>3 DEF Online
<1>5. r.id \in Running(c)
  BY <1>1, <1>2 DEF Sound, Queue
<1>6. Running(c) = {r.id} /\ Len(c.timers) = 1
  BY <1>1, <1>5, SingleTimer
<1>7. UserTimer \notin Running(c)
  BY <1>2, <1>6 DEF Ids, UserTimer
<1>8. v.mTimer = "off"
  <2>1. v.mTimer \in {"off", "idle", "retry"}
    BY <1>1 DEF UpdaterType
  <2> QED BY <1>6, <1>7, <2>1 DEF Loop, Online
<1>9. Sound(Finished(c, r), Request) /\ HasFinished(c, Finished(c, r), r)
  BY <1>1, <1>2, FinishedSound
<1>10. Len(Finished(c, r).timers) = 0
  BY <1>6, <1>9 DEF HasFinished
<1> QED BY <1>1, <1>2, <1>4, <1>8, <1>9, <1>10 DEF Free, Online, HasFinished

\* The only reply of a client that still connects.
LEMMA DiallingFinished ==
    ASSUME NEW v, NEW c, Loop(v, c), Dialling(v, c), NEW r \in Outstanding(c)
    PROVE  LET d == Finished(c, r)
           IN  /\ Sound(d, Request)
               /\ d.socket = "Connecting" /\ d.closing
               /\ Len(d.timers) = 0
               /\ v.mCurrentState = InitState
               /\ r.kind = InitState
<1>1. Sound(c, Request) /\ Len(c.timers) = 1 /\ c.socket = "Connecting" /\ c.dropped = {}
  BY DEF Loop, Dialling
<1>2. r.id \in Ids
  BY <1>1, OutstandingTyped
<1>3. r.id \in Running(c)
  BY <1>1, <1>2 DEF Sound, Queue
<1>4. Running(c) = {r.id}
  <2>1. Len(c.timers) <= 1
    BY <1>1
  <2> QED BY <1>1, <1>3, <2>1, SingleTimer
<1>5. ConnectTimer \notin Running(c)
  BY <1>2, <1>4 DEF Ids, ConnectTimer
<1>6. c.closing /\ v.mCurrentState = InitState
  BY <1>5 DEF Dialling
<1>7. r.kind = InitState
  BY <1>1 DEF Dialling, Outstanding
<1>8. Sound(Finished(c, r), Request) /\ HasFinished(c, Finished(c, r), r)
  BY <1>1, <1>2, FinishedSound
<1>9. Len(Finished(c, r).timers) = 0
  BY <1>1, <1>8 DEF HasFinished
<1> QED BY <1>1, <1>6, <1>7, <1>8, <1>9 DEF HasFinished

\* A reply without a connection.
LEMMA OfflineFinished ==
    ASSUME NEW v, NEW c, Loop(v, c), Offline(v, c), NEW r \in Outstanding(c)
    PROVE  Down(v, Finished(c, r)) /\ r.kind = InitState
<1> DEFINE d == Finished(c, r)
<1>1. /\ v \in UpdaterType /\ Sound(c, Request)
      /\ c.socket = "Unconnected" /\ ~c.closing /\ c.sent = {}
      /\ Len(c.timers) \in 1..3
      /\ \A x \in Outstanding(c) : x.kind = InitState
  BY DEF Loop, Offline
<1>2. /\ Sound(d, Request)
      /\ d.socket = c.socket /\ d.closing = c.closing
      /\ d.pending = c.pending \ {r} /\ d.dropped = c.dropped \ {r}
      /\ d.sent = c.sent \ {r.id}
      /\ Len(d.timers) = Len(c.timers) - 1
  BY <1>1, OutstandingTyped, FinishedSound DEF HasFinished
<1> HIDE DEF d
<1>3. Len(StopTimer(d, UserTimer).timers) <= 2
  <2> DEFINE n == Len(c.timers)
             m == Len(d.timers)
             k == Len(StopTimer(d, UserTimer).timers)
  <2>1. n \in 1..3 /\ m = n - 1
    BY <1>1, <1>2
  <2>2. k \in 0..m
    BY <1>2, QueueLengths DEF OwnTimers
  <2> HIDE DEF n, m, k
  <2>3. k <= 2
    BY <2>1, <2>2
  <2> QED BY <2>3 DEF k
<1>4. \A x \in Outstanding(d) : x.kind = InitState
  BY <1>1, <1>2 DEF Outstanding
<1>5. Down(v, d)
  BY <1>1, <1>2, <1>3, <1>4 DEF Down
<1> QED BY <1>1, <1>5 DEF d

\* A reply fails, in any state of the socket.
LEMMA FailureFine ==
    ASSUME NEW v, NEW c, Loop(v, c), NEW r \in Outstanding(c)
    PROVE  LET s == OnFailure(Pair(v, c), r) IN Loop(s.u, s.c)
<1> DEFINE d == Finished(c, r)
<1>1. InitState # "WritePowerLimit" /\ InitState \in ModbusState
  BY InitStateReads
<1>2. CASE Online(v, c)
  <2>1. Free(v, d) /\ v.mCurrentState # "Idle"
    BY <1>2, OnlineFinished
  <2>2. CASE r.kind = "WritePowerLimit"
    <3> DEFINE w == [v EXCEPT !.mWritePowerLimitRequested = FALSE]
    <3>1. w \in UpdaterType /\ w.mTimer = v.mTimer
      BY <2>1 DEF Free, UpdaterType
    <3>2. OnFailure(Pair(v, c), r) = StartNextAction(Pair(w, d), InitState)
      BY <2>2, FailureIs
    <3> HIDE DEF w
    <3>3. Free(w, d)
      BY <2>1, <3>1 DEF Free
    <3> QED BY <1>1, <3>2, <3>3, NextFine
  <2>3. CASE r.kind # "WritePowerLimit"
    <3>1. OnFailure(Pair(v, c), r) = HandleError(Pair(v, d))
      BY <2>3, FailureIs
    <3> QED BY <2>1, <3>1, ErrorFine
  <2> QED BY <2>2, <2>3
<1>3. CASE Dialling(v, c)
  <2>1. /\ Sound(d, Request)
        /\ d.socket = "Connecting" /\ d.closing
        /\ Len(d.timers) = 0
        /\ v.mCurrentState = InitState /\ r.kind = InitState
    BY <1>3, DiallingFinished
  <2>2. OnFailure(Pair(v, c), r) = HandleError(Pair(v, d))
    BY <1>1, <2>1, FailureIs
  <2>3. v \in UpdaterType
    BY DEF Loop
  <2> QED BY <2>1, <2>2, <2>3, ErrorDiallingFine
<1>4. CASE Offline(v, c)
  <2>1. Down(v, d) /\ r.kind = InitState
    BY <1>4, OfflineFinished
  <2>2. OnFailure(Pair(v, c), r) = HandleError(Pair(v, d))
    BY <1>1, <2>1, FailureIs
  <2>3. v.mCurrentState = InitState
    BY <1>4 DEF Offline
  <2> QED BY <2>1, <2>2, <2>3, ErrorDownFine
<1> QED BY <1>2, <1>3, <1>4 DEF Loop

----------------------------------------------------------------------------
(* Errors of the socket.                                                   *)

\* At most one reply is pending, so the error of the socket fails one at most.
LEMMA FoldFailures ==
    ASSUME NEW s, NEW r
    PROVE  /\ FoldSet(LAMBDA x, t : OnFailure(t, x), s, {}) = s
           /\ FoldSet(LAMBDA x, t : OnFailure(t, x), s, {r}) = OnFailure(s, r)
<1> DEFINE H(iter, S) ==
              [x \in SUBSET S |->
                 IF x = {} THEN s
                 ELSE OnFailure(iter[x \ {CHOOSE y \in x : TRUE}], CHOOSE y \in x : TRUE)]
           it(S) == CHOOSE iter : iter = H(iter, S)
<1>1. /\ FoldSet(LAMBDA x, t : OnFailure(t, x), s, {}) = it({})[{}]
      /\ FoldSet(LAMBDA x, t : OnFailure(t, x), s, {r}) = it({r})[{r}]
  BY DEF FoldSet, MapThenFoldSet
<1>2. (CHOOSE y \in {r} : TRUE) = r /\ {r} \ {r} = {} /\ {r} # {}
  OBVIOUS
<1>3. it({})[{}] = s
  <2> DEFINE g == [x \in SUBSET {} |-> s]
  <2>1. g = H(g, {})
    <3>1. SUBSET {} = {{}}
      OBVIOUS
    <3>2. g[{}] = s /\ g = [x \in SUBSET {} |-> g[x]]
      OBVIOUS
    <3> HIDE DEF g
    <3> QED BY <3>1, <3>2
  <2>2. it({}) = H(it({}), {})
    <3> HIDE DEF g, H
    <3> QED BY <2>1
  <2> DEFINE i == it({})
  <2>3. i = H(i, {})
    BY <2>2
  <2> HIDE DEF i, it
  <2>4. H(i, {})[{}] = s
    OBVIOUS
  <2>5. i[{}] = s
    BY <2>3, <2>4
  <2> QED BY <2>5 DEF i
<1>4. it({r})[{r}] = OnFailure(s, r)
  <2> DEFINE g == [x \in SUBSET {r} |-> IF x = {} THEN s ELSE OnFailure(s, r)]
  <2>1. SUBSET {r} = {{}, {r}}
    OBVIOUS
  <2>2. g[{}] = s /\ g[{r}] = OnFailure(s, r) /\ g = [x \in SUBSET {r} |-> g[x]]
    BY <1>2
  <2>3. g = H(g, {r})
    <3> HIDE DEF g
    <3>1. \A x \in SUBSET {r} :
             g[x] = IF x = {} THEN s
                    ELSE OnFailure(g[x \ {CHOOSE y \in x : TRUE}], CHOOSE y \in x : TRUE)
      BY <1>2, <2>1, <2>2
    <3> QED BY <2>2, <3>1
  <2>4. it({r}) = H(it({r}), {r})
    <3> HIDE DEF g, H
    <3> QED BY <2>3
  <2> DEFINE i == it({r})
  <2>5. i = H(i, {r})
    BY <2>4
  <2> HIDE DEF i, it
  <2>6. H(i, {r})[{}] = s
    OBVIOUS
  <2>7. H(i, {r})[{r}] = OnFailure(i[{r} \ {CHOOSE y \in {r} : TRUE}], CHOOSE y \in {r} : TRUE)
    BY <2>1
  <2> HIDE DEF H
  <2>8. i[{}] = s
    BY <2>5, <2>6
  <2>9. i[{r}] = OnFailure(i[{}], r)
    BY <1>2, <2>5, <2>7
  <2> QED BY <2>8, <2>9 DEF i
<1> QED BY <1>1, <1>3, <1>4

\* On the way to Down: as there, but the socket may still be connected.
Falling(v, c) ==
    /\ v \in UpdaterType
    /\ Sound(c, Request)
    /\ ~c.closing
    /\ c.socket = "Unconnected" => c.sent = {}
    /\ \A r \in Outstanding(c) : r.kind = InitState
    /\ Len(StopTimer(c, UserTimer).timers) <= 2

\* When the socket is closed it is down.
LEMMA FallingCloses ==
    ASSUME NEW v, NEW c, Falling(v, c)
    PROVE  Down(v, SocketClosed(c)) /\ (c.socket = "Unconnected" => Down(v, c))
<1> DEFINE d == SocketClosed(c)
<1>1. Sound(c, Request)
  BY DEF Falling
<1>2. /\ Sound(d, Request)
      /\ d.socket = "Unconnected" /\ d.closing = FALSE /\ d.sent = {}
      /\ d.pending = c.pending /\ d.dropped = c.dropped
      /\ d.timers = c.timers
  BY <1>1, SocketClosedSound
<1> HIDE DEF d
<1>3. StopTimer(d, UserTimer).timers = StopTimer(c, UserTimer).timers
  BY <1>1, <1>2, SameQueue
<1>4. Down(v, d)
  BY <1>2, <1>3 DEF Falling, Down, Outstanding
<1> QED BY <1>4 DEF Falling, Down, d

\* The announcement of the disconnection while the client falls.
LEMMA FallingWaits ==
    ASSUME NEW v, NEW c, Falling(v, c)
    PROVE  \E w, d : /\ OnDisconnected(Pair(v, c)) = Pair(w, d)
                     /\ Falling(w, d)
<1>1. PICK t \in UpdaterType : /\ t.mCurrentState = InitState
                               /\ OnDisconnected(Pair(v, c)) = HandleError(Pair(t, c))
  BY DisconnectedIs DEF Falling
<1> DEFINE w == Waiting(t)
           d == StartTimer(c, UserTimer)
           e == StopTimer(c, UserTimer)
<1>3. HandleError(Pair(t, c)) = Pair(w, d)
  BY <1>1, ErrorWaits, InitStateReads
<1>4. w \in UpdaterType
  BY <1>1, WaitingTyped
<1>5. /\ Sound(c, Request) /\ ~c.closing
      /\ c.socket = "Unconnected" => c.sent = {}
      /\ \A r \in Outstanding(c) : r.kind = InitState
      /\ Len(e.timers) <= 2
  BY DEF Falling
<1>6. /\ Sound(d, Request) /\ SameButTimers(c, d)
      /\ UserTimer \in Running(d)
  BY <1>5, StartTimerSound DEF OwnTimers
<1>7. Len(StopTimer(d, UserTimer).timers) <= 2
  <2> DEFINE m == Len(e.timers)
             k == Len(d.timers)
             l == Len(StopTimer(d, UserTimer).timers)
  <2>1. m \in Nat /\ m <= 2
    BY <1>5, QueueLengths DEF OwnTimers
  <2>2. l = k - 1
    BY <1>6, StopTimerSound DEF OwnTimers
  <2>3. k = m + 1
    BY <1>5, RestartedQueue DEF OwnTimers
  <2> HIDE DEF m, k, l
  <2>4. l <= 2
    BY <2>1, <2>2, <2>3
  <2> QED BY <2>4 DEF l
<1> HIDE DEF w, d
<1>8. Falling(w, d)
  BY <1>4, <1>5, <1>6, <1>7 DEF Falling, SameButTimers, Outstanding
<1> QED BY <1>1, <1>3, <1>8

\* The pending reply fails while the socket has an error.
LEMMA FailureFalls ==
    ASSUME NEW v, NEW c, NEW r, v \in UpdaterType, Sound(c, Request), ~c.closing,
           c.socket = "Unconnected" => c.sent = {},
           Outstanding(c) = {r}, Len(c.timers) <= 1, v.mCurrentState # "Idle"
    PROVE  \E w, d : /\ OnFailure(Pair(v, c), r) = Pair(w, d)
                     /\ Falling(w, d)
                     /\ d.socket = c.socket
<1> DEFINE f == Finished(c, r)
<1>1. r \in Outstanding(c) /\ r.id \in Ids
  BY OutstandingTyped
<1>2. Sound(f, Request) /\ HasFinished(c, f, r)
  BY <1>1, FinishedSound
<1>3. Len(f.timers) = 0
  <2>1. r.id \in Running(c)
    BY <1>1 DEF Sound, Queue
  <2>2. Len(c.timers) = 1
    BY <2>1, SingleTimer
  <2> QED BY <1>2, <2>2 DEF HasFinished
<1>4. Running(f) = {} /\ Outstanding(f) = {} /\ f.sent = {}
  BY <1>2, <1>3, EmptyQueue
<1>5. f.socket = c.socket /\ ~f.closing
  BY <1>2 DEF HasFinished
<1> HIDE DEF f
<1>6. CASE r.kind # "WritePowerLimit"
  <2> DEFINE w == Waiting(v)
             d == StartTimer(f, UserTimer)
  <2>1. OnFailure(Pair(v, c), r) = Pair(w, d)
    <3>1. OnFailure(Pair(v, c), r) = HandleError(Pair(v, f))
      BY <1>6, FailureIs DEF f
    <3> QED BY <3>1, ErrorWaits
  <2>2. w \in UpdaterType
    BY WaitingTyped
  <2>3. /\ Sound(d, Request) /\ SameButTimers(f, d)
        /\ UserTimer \in Running(d) /\ Len(d.timers) = Len(f.timers) + 1
    BY <1>2, <1>4, StartTimerSound DEF OwnTimers
  <2>4. Len(StopTimer(d, UserTimer).timers) <= 2
    <3>1. Len(d.timers) = 1
      BY <1>3, <2>3
    <3>2. Len(StopTimer(d, UserTimer).timers) = Len(d.timers) - 1
      BY <2>3, StopTimerSound DEF OwnTimers
    <3> QED BY <3>1, <3>2
  <2> HIDE DEF w, d
  <2>5. Falling(w, d)
    BY <1>4, <1>5, <2>2, <2>3, <2>4 DEF Falling, SameButTimers, Outstanding
  <2> QED BY <1>5, <2>1, <2>3, <2>5 DEF SameButTimers
<1>7. CASE r.kind = "WritePowerLimit"
  <2> DEFINE t == [v EXCEPT !.mWritePowerLimitRequested = FALSE]
             w == Sending(t, InitState)
             d == SendFrame(f, InitState, Value(t, InitState))
             n == NewRequest(f, InitState, Value(t, InitState))
  <2>1. OnFailure(Pair(v, c), r) = StartNextAction(Pair(t, f), InitState)
    BY <1>7, FailureIs DEF f
  <2>2. t \in UpdaterType
    BY DEF UpdaterType
  <2> HIDE DEF t
  <2>3. StartNextAction(Pair(t, f), InitState) = Pair(w, d)
    BY <2>2, InitStateReads, StartSends
  <2>4. w \in UpdaterType
    BY <2>2, InitStateReads, SendingTyped
  <2>5. Sound(d, Request) /\ HasSent(f, d, n) /\ n.kind = InitState
    <3>1. Len(f.timers) <= 2
      BY <1>3
    <3>2. \A x \in Ids : [id |-> x, kind |-> InitState, value |-> Value(t, InitState)] \in Request
      BY <2>2, InitStateReads, RequestTyped
    <3> QED BY <1>2, <3>1, <3>2, RepliesAssumption, SendFrameSound
  <2> HIDE DEF w, d, n
  <2>6. Outstanding(d) = {n}
    BY <1>4, <2>5 DEF HasSent, Outstanding
  <2>7. Len(StopTimer(d, UserTimer).timers) <= 2
    <3> DEFINE m == Len(StopTimer(d, UserTimer).timers)
               k == Len(d.timers)
    <3>1. k = 1
      BY <1>3, <2>5 DEF HasSent
    <3>2. m \in 0..k
      BY <2>5, QueueLengths DEF OwnTimers
    <3> HIDE DEF m, k
    <3>3. m <= 2
      BY <3>1, <3>2
    <3> QED BY <3>3 DEF m
  <2>8. d.socket = "Unconnected" => d.sent = {}
    BY <1>4, <1>5, <2>5 DEF HasSent
  <2>9. Falling(w, d)
    BY <1>5, <2>4, <2>5, <2>6, <2>7, <2>8 DEF Falling, HasSent
  <2> QED BY <1>5, <2>1, <2>3, <2>5, <2>9 DEF HasSent
<1> QED BY <1>6, <1>7

\* Pending replies are forgotten while the client falls.
LEMMA FallingForgets ==
    ASSUME NEW v, NEW c, Falling(v, c)
    PROVE  Falling(v, PendingCleared(c)) /\ PendingCleared(c).socket = c.socket
<1> DEFINE d == PendingCleared(c)
<1>1. Sound(c, Request)
  BY DEF Falling
<1>2. /\ Sound(d, Request)
      /\ d.socket = c.socket /\ d.closing = c.closing /\ d.sent = c.sent
      /\ d.pending = {} /\ d.dropped = c.dropped \cup c.pending
      /\ d.timers = c.timers
  BY <1>1, PendingClearedSound
<1> HIDE DEF d
<1>3. StopTimer(d, UserTimer).timers = StopTimer(c, UserTimer).timers
  BY <1>1, <1>2, SameQueue
<1>4. Falling(v, d)
  BY <1>2, <1>3 DEF Falling, Outstanding
<1> QED BY <1>2, <1>4 DEF d

\* The whole of the slot for errors of the socket, up to disconnected().
LEMMA SocketErrorFalls ==
    ASSUME NEW v, NEW c, v \in UpdaterType, Sound(c, Request), ~c.closing,
           c.socket = "Unconnected" => c.sent = {},
           c.dropped = {}, Len(c.timers) <= 1, c.pending # {} => v.mCurrentState # "Idle"
    PROVE  \E w, d : /\ OnSocketError(Pair(v, c)) = OnDisconnected(Pair(w, d))
                     /\ Falling(w, d)
                     /\ d.socket = c.socket
<1> DEFINE F(s) == OnDisconnected([s EXCEPT !.c = PendingCleared(@)])
<1>1. \A w, d : F(Pair(w, d)) = OnDisconnected(Pair(w, PendingCleared(d)))
  BY PairUpdate
<1>2. OnSocketError(Pair(v, c))
         = F(FoldSet(LAMBDA x, t : OnFailure(t, x), Pair(v, c), c.pending))
  BY PairUpdate DEF OnSocketError
<1>3. CASE c.pending = {}
  <2>1. OnSocketError(Pair(v, c)) = F(Pair(v, c))
    <3> HIDE DEF F
    <3>1. FoldSet(LAMBDA x, t : OnFailure(t, x), Pair(v, c), {}) = Pair(v, c)
      BY FoldFailures
    <3> QED BY <1>2, <1>3, <3>1
  <2>2. Len(StopTimer(c, UserTimer).timers) <= 2
    <3> DEFINE m == Len(StopTimer(c, UserTimer).timers)
               k == Len(c.timers)
    <3>1. m \in 0..k /\ k <= 1 /\ k \in Nat
      BY QueueLengths DEF OwnTimers
    <3> HIDE DEF m, k
    <3>2. m <= 2
      BY <3>1
    <3> QED BY <3>2 DEF m
  <2>3. Falling(v, c)
    BY <1>3, <2>2 DEF Falling, Outstanding
  <2>4. Falling(v, PendingCleared(c)) /\ PendingCleared(c).socket = c.socket
    BY <2>3, FallingForgets
  <2> QED BY <1>1, <2>1, <2>4
<1>4. CASE c.pending # {}
  <2>1. PICK r \in c.pending : TRUE
    BY <1>4
  <2>2. r \in Outstanding(c) /\ Outstanding(c) = c.pending
    BY <2>1 DEF Outstanding
  <2>3. r.id \in Running(c)
    BY <2>2, OutstandingTyped DEF Sound, Queue
  <2>4. c.pending = {r} /\ Outstanding(c) = {r}
    BY <2>2, <2>3, SingleTimer
  <2>5. PICK w, d : /\ OnFailure(Pair(v, c), r) = Pair(w, d)
                    /\ Falling(w, d)
                    /\ d.socket = c.socket
    BY <1>4, <2>4, FailureFalls
  <2>6. OnSocketError(Pair(v, c)) = F(Pair(w, d))
    <3> HIDE DEF F
    <3>1. FoldSet(LAMBDA x, t : OnFailure(t, x), Pair(v, c), {r}) = Pair(w, d)
      BY <2>5, FoldFailures
    <3> QED BY <1>2, <2>4, <3>1
  <2>7. Falling(w, PendingCleared(d)) /\ PendingCleared(d).socket = c.socket
    BY <2>5, FallingForgets
  <2> QED BY <1>1, <2>6, <2>7
<1> QED BY <1>3, <1>4

----------------------------------------------------------------------------
(* One lemma per action.                                                   *)

\* A good reply resets the retries, may change what is known of the inverter,
\* and leads to the next action.
LEMMA ValuesStart ==
    ASSUME NEW v \in UpdaterType, NEW c, NEW seen
    PROVE  \E w \in UpdaterType, state \in ModbusState :
              /\ w.mTimer = v.mTimer
              /\ OnValues(Pair(v, c), seen) = StartNextAction(Pair(w, c), state)
<1> DEFINE t == [v EXCEPT !.mRetryCount = 0]
<1>1. [Pair(v, c) EXCEPT !.u.mRetryCount = 0] = Pair(t, c)
  BY DEF Pair
<1>2. t \in UpdaterType /\ t.mTimer = v.mTimer
  BY DEF UpdaterType, MaxRetries
<1>3. v.mCurrentState \in ModbusState
  BY DEF UpdaterType
<1> DEFINE next(w, state) ==
              /\ w \in UpdaterType /\ state \in ModbusState
              /\ w.mTimer = v.mTimer
              /\ OnValues(Pair(v, c), seen) = StartNextAction(Pair(w, c), state)
<1> HIDE DEF t
<1>4. CASE seen = "otherModel"
  <2> DEFINE w == [t EXCEPT !.gone = TRUE]
  <2>0. \A b : [Pair(t, c) EXCEPT !.u.gone = b] = Pair([t EXCEPT !.gone = b], c)
    BY DEF Pair
  <2>1. [Pair(t, c) EXCEPT !.u.gone = TRUE] = Pair(w, c)
    BY <2>0, Zenon
  <2>2. w \in UpdaterType /\ w.mTimer = v.mTimer
    BY <1>2 DEF UpdaterType
  <2> HIDE DEF w
  <2>3. OnValues(Pair(v, c), seen) = StartNextAction(Pair(w, c), "Idle")
    BY <1>1, <1>4, <2>1 DEF OnValues
  <2> QED BY <2>2, <2>3 DEF ModbusState
<1>5. CASE seen = "data"
  <2> DEFINE state == IF v.mWritePowerLimitRequested THEN "WritePowerLimit" ELSE "Idle"
  <2>1. OnValues(Pair(v, c), seen) = StartNextAction(Pair(t, c), state)
    BY <1>1, <1>5, PairUpdate DEF OnValues
  <2>2. state \in ModbusState
    BY DEF ModbusState
  <2> HIDE DEF state
  <2> QED BY <1>2, <2>1, <2>2
<1>6. CASE seen \in {"limit", "noLimit"}
  <2> DEFINE w(b) == [t EXCEPT !.powerLimit = b]
             l    == seen = "limit"
  <2>1. ASSUME NEW b PROVE [Pair(t, c) EXCEPT !.u.powerLimit = b] = Pair(w(b), c)
    BY DEF Pair
  <2>2. w(l) \in UpdaterType /\ w(l).mTimer = v.mTimer
    BY <1>2 DEF UpdaterType
  <2>3. OnValues(Pair(v, c), seen)
           = StartNextAction([Pair(t, c) EXCEPT !.u.powerLimit = l], "ReadPowerAndVoltage")
    BY <1>1, <1>6 DEF OnValues
  <2> HIDE DEF w, l
  <2>4. OnValues(Pair(v, c), seen) = StartNextAction(Pair(w(l), c), "ReadPowerAndVoltage")
    BY <2>1, <2>3, Zenon
  <2> QED BY <2>2, <2>4 DEF ModbusState
<1>7. CASE seen = "unusable" /\ v.mCurrentState \in {"ReadPowerLimit", "ReadPowerAndVoltage"}
  <2>1. OnValues(Pair(v, c), seen) = StartNextAction(Pair(t, c), v.mCurrentState)
    BY <1>1, <1>7, PairUpdate DEF OnValues
  <2> QED BY <1>2, <1>3, <2>1
<1>8. CASE /\ seen \notin {"otherModel", "data", "limit", "noLimit"}
           /\ ~(/\ seen = "unusable"
                /\ v.mCurrentState \in {"ReadPowerLimit", "ReadPowerAndVoltage"})
  <2>1. OnValues(Pair(v, c), seen) = StartNextAction(Pair(t, c), InitState)
    BY <1>1, <1>8, PairUpdate DEF OnValues
  <2> QED BY <1>2, <2>1, InitStateReads
<1> QED BY <1>4, <1>5, <1>6, <1>7, <1>8

\* An answer to a read request.
LEMMA ReadAnsweredFine ==
    ASSUME NEW v, NEW c, Loop(v, c), NEW r \in Answerable(c), NEW seen
    PROVE  LET s == OnValues(Pair(v, Finished(c, r)), seen) IN Loop(s.u, s.c)
<1>1. Online(v, c) /\ r \in Outstanding(c)
  BY DEF Loop, Dialling, Offline, Answerable, Outstanding
<1>2. Free(v, Finished(c, r))
  BY <1>1, OnlineFinished
<1>3. PICK w \in UpdaterType, state \in ModbusState :
         /\ w.mTimer = v.mTimer
         /\ OnValues(Pair(v, Finished(c, r)), seen)
               = StartNextAction(Pair(w, Finished(c, r)), state)
  BY <1>2, ValuesStart DEF Free
<1>4. Free(w, Finished(c, r))
  BY <1>2, <1>3 DEF Free
<1> QED BY <1>3, <1>4, NextFine

\* An answer to a write request.
LEMMA WriteAnsweredFine ==
    ASSUME NEW v, NEW c, Loop(v, c), NEW r \in Answerable(c)
    PROVE  LET s == OnWriteCompleted(Pair(v, Finished(c, r))) IN Loop(s.u, s.c)
<1> DEFINE w == [v EXCEPT !.mWritePowerLimitRequested = FALSE]
           d == Finished(c, r)
<1>1. Online(v, c) /\ r \in Outstanding(c)
  BY DEF Loop, Dialling, Offline, Answerable, Outstanding
<1>2. Free(v, d)
  BY <1>1, OnlineFinished
<1>3. w \in UpdaterType /\ w.mTimer = v.mTimer
  BY <1>2 DEF Free, UpdaterType
<1>4. OnWriteCompleted(Pair(v, d)) = StartNextAction(Pair(w, d), InitState)
  BY FailureIs
<1> HIDE DEF w, d
<1>5. Free(w, d)
  BY <1>2, <1>3 DEF Free
<1>6. LET s == OnWriteCompleted(Pair(v, d)) IN Loop(s.u, s.c)
  BY <1>4, <1>5, NextFine, InitStateReads
<1> QED BY <1>6 DEF d

\* The client after the announcement of the connection, and the closing of the
\* socket that was told so while it connected.
LEMMA ConnectedFine ==
    ASSUME NEW v, NEW c, Loop(v, c), c.socket = "Connecting"
    PROVE  LET s == StartNextAction(Pair(v, SocketConnected(c)), InitState)
               t == IF c.closing THEN OnDisconnected([s EXCEPT !.c = SocketClosed(@)]) ELSE s
           IN  Loop(t.u, t.c)
<1> DEFINE e == StopTimer(c, ConnectTimer)
           f == SocketConnected(c)
           s == StartNextAction(Pair(v, f), InitState)
<1>1. Dialling(v, c) /\ v \in UpdaterType /\ Sound(c, Request)
  BY DEF Loop, Online, Offline
<1>2. /\ Len(c.timers) = 1 /\ c.dropped = {}
      /\ \A r \in c.pending : r.kind = InitState
      /\ v.mTimer # "idle"
  BY <1>1 DEF Dialling
<1>3. /\ Sound(f, Request)
      /\ f.socket = "Connected"
      /\ f.closing = c.closing
      /\ f.pending = c.pending /\ f.dropped = c.dropped
      /\ f.timers = e.timers
  BY <1>1, SocketConnectedSound
<1>4. CASE ~c.closing
  <2>1. ConnectTimer \in Running(c)
    BY <1>1, <1>4 DEF Dialling
  <2>2. Len(e.timers) = 0
    <3>1. Len(e.timers) = Len(c.timers) - 1
      BY <1>1, <2>1, StopTimerSound DEF OwnTimers
    <3> QED BY <1>2, <3>1
  <2>3. Len(c.timers) <= 1
    BY <1>2
  <2>4. UserTimer \notin Running(c)
    <3>1. Running(c) = {ConnectTimer}
      BY <1>1, <2>1, <2>3, SingleTimer
    <3> QED BY <3>1 DEF ConnectTimer, UserTimer
  <2>5. v.mTimer = "off"
    BY <1>1, <1>2, <2>4 DEF Loop, UpdaterType
  <2> HIDE DEF f
  <2>6. Free(v, f)
    BY <1>1, <1>3, <1>4, <2>2, <2>5 DEF Free
  <2>7. Loop(s.u, s.c)
    BY <2>6, NextFine, InitStateReads
  <2> QED BY <1>4, <2>7 DEF f
<1>5. CASE c.closing
  <2> DEFINE w == Sending(v, InitState)
             d == SendFrame(f, InitState, Value(v, InitState))
             n == NewRequest(f, InitState, Value(v, InitState))
             g == SocketClosed(d)
  <2>1. Len(f.timers) \in 0..1
    <3>1. Len(e.timers) \in 0..Len(c.timers)
      BY <1>1, QueueLengths DEF OwnTimers
    <3> QED BY <1>2, <1>3, <3>1
  <2> HIDE DEF f, e
  <2>2. s = Pair(w, d)
    BY <1>1, StartSends, InitStateReads
  <2>3. w \in UpdaterType
    BY <1>1, SendingTyped, InitStateReads
  <2>4. Sound(d, Request) /\ HasSent(f, d, n) /\ n.kind = InitState
    <3>1. Len(f.timers) <= 2
      <4> DEFINE k == Len(f.timers)
      <4>1. k \in 0..1
        BY <2>1
      <4> HIDE DEF k
      <4>2. k <= 2
        BY <4>1
      <4> QED BY <4>2 DEF k
    <3>2. \A x \in Ids : [id |-> x, kind |-> InitState, value |-> Value(v, InitState)] \in Request
      BY <1>1, InitStateReads, RequestTyped
    <3> QED BY <1>3, <3>1, <3>2, RepliesAssumption, SendFrameSound
  <2> HIDE DEF w, d, n, s
  <2>5. /\ Sound(g, Request)
        /\ g.socket = "Unconnected" /\ g.closing = FALSE /\ g.sent = {}
        /\ g.pending = d.pending /\ g.dropped = d.dropped
        /\ g.timers = d.timers
    BY <2>4, SocketClosedSound
  <2> HIDE DEF g
  <2>6. \A r \in Outstanding(g) : r.kind = InitState
    BY <1>2, <1>3, <2>4, <2>5 DEF HasSent, Outstanding
  <2>7. Len(StopTimer(g, UserTimer).timers) <= 2
    <3> DEFINE m == Len(StopTimer(g, UserTimer).timers)
               k == Len(g.timers)
               l == Len(f.timers)
    <3>1. m \in 0..k
      BY <2>5, QueueLengths DEF OwnTimers
    <3>2. k = l + 1 /\ l \in 0..1
      BY <2>1, <2>4, <2>5 DEF HasSent
    <3> HIDE DEF m, k, l
    <3>3. m <= 2
      BY <3>1, <3>2
    <3> QED BY <3>3 DEF m
  <2>8. Down(w, g)
    BY <2>3, <2>5, <2>6, <2>7 DEF Down
  <2>9. [s EXCEPT !.c = SocketClosed(@)] = Pair(w, g)
    BY <2>2, PairUpdate DEF g
  <2>10. LET t == OnDisconnected(Pair(w, g)) IN Loop(t.u, t.c)
    BY <2>8, DisconnectedFine
  <2>11. LET t == OnDisconnected([s EXCEPT !.c = SocketClosed(@)]) IN Loop(t.u, t.c)
    BY <2>9, <2>10
  <2> QED BY <1>5, <2>11 DEF s, f
<1> QED BY <1>4, <1>5

\* The connection could not be made.
LEMMA RefusedFine ==
    ASSUME NEW v, NEW c, Loop(v, c), c.socket = "Connecting"
    PROVE  LET s == OnSocketError(Pair(v, SocketClosed(c))) IN Loop(s.u, s.c)
<1> DEFINE d == SocketClosed(c)
<1>1. Dialling(v, c) /\ v \in UpdaterType /\ Sound(c, Request)
  BY DEF Loop, Online, Offline
<1>2. /\ Sound(d, Request)
      /\ d.socket = "Unconnected" /\ d.closing = FALSE /\ d.sent = {}
      /\ d.pending = c.pending /\ d.dropped = c.dropped
      /\ d.timers = c.timers
  BY <1>1, SocketClosedSound
<1>3. Len(c.timers) = 1 /\ c.dropped = {}
  BY <1>1 DEF Dialling
<1>4. ASSUME c.pending # {} PROVE v.mCurrentState # "Idle"
  <2>1. PICK r \in c.pending : TRUE
    BY <1>4
  <2>2. r \in Outstanding(c) /\ r.id \in Ids
    BY <1>1, OutstandingTyped DEF Outstanding
  <2>3. r.id \in Running(c)
    BY <1>1, <2>2 DEF Sound, Queue
  <2>4. Len(c.timers) <= 1
    BY <1>3
  <2>5. Running(c) = {r.id}
    BY <1>1, <2>3, <2>4, SingleTimer
  <2>6. ConnectTimer \notin Running(c)
    BY <2>2, <2>5 DEF Ids, ConnectTimer
  <2> QED BY <1>1, <2>6, InitStateReads DEF Dialling
<1> HIDE DEF d
<1>5. /\ Len(d.timers) <= 1 /\ d.dropped = {} /\ ~d.closing
      /\ d.socket = "Unconnected" => d.sent = {}
      /\ d.pending # {} => v.mCurrentState # "Idle"
  BY <1>2, <1>3, <1>4
<1>6. PICK w, f : /\ OnSocketError(Pair(v, d)) = OnDisconnected(Pair(w, f))
                  /\ Falling(w, f)
                  /\ f.socket = d.socket
  BY <1>1, <1>2, <1>5, SocketErrorFalls
<1>7. Down(w, f)
  BY <1>2, <1>6, FallingCloses
<1>8. LET s == OnSocketError(Pair(v, d)) IN Loop(s.u, s.c)
  BY <1>6, <1>7, DisconnectedFine
<1> QED BY <1>8 DEF d

\* The connection broke: disconnected() is announced twice.
LEMMA BrokenFine ==
    ASSUME NEW v, NEW c, Loop(v, c), c.socket = "Connected"
    PROVE  LET s == OnSocketError(Pair(v, c))
               t == OnDisconnected([s EXCEPT !.c = SocketClosed(@)])
           IN  Loop(t.u, t.c)
<1> DEFINE s == OnSocketError(Pair(v, c))
<1>1. Online(v, c) /\ v \in UpdaterType /\ Sound(c, Request)
  BY DEF Loop, Dialling, Offline
<1>2. c.pending # {} => v.mCurrentState # "Idle"
  <2>1. \A r \in c.pending : r.kind # "Idle" /\ v.mCurrentState = r.kind
    BY <1>1, OutstandingTyped DEF Online, Outstanding
  <2> QED BY <2>1
<1>3. PICK w, f : s = OnDisconnected(Pair(w, f)) /\ Falling(w, f)
  BY <1>1, <1>2, SocketErrorFalls DEF Online
<1>4. PICK x, g : OnDisconnected(Pair(w, f)) = Pair(x, g) /\ Falling(x, g)
  BY <1>3, FallingWaits
<1> HIDE DEF s
<1>5. [s EXCEPT !.c = SocketClosed(@)] = Pair(x, SocketClosed(g))
  BY <1>3, <1>4, PairUpdate
<1>6. Down(x, SocketClosed(g))
  BY <1>4, FallingCloses
<1>7. LET t == OnDisconnected(Pair(x, SocketClosed(g))) IN Loop(t.u, t.c)
  BY <1>6, DisconnectedFine
<1>8. LET t == OnDisconnected([s EXCEPT !.c = SocketClosed(@)]) IN Loop(t.u, t.c)
  BY <1>5, <1>7
<1> QED BY <1>8 DEF s

\* The connect timer expires, which a connected client does not have.
LEMMA ConnectTimerFine ==
    ASSUME NEW v, NEW c, Loop(v, c), Expires(c, ConnectTimer)
    PROVE  LET s == OnDisconnected(Pair(v, ConnectTimeout(c)))
               t == IF c.socket = "Connected" THEN OnDisconnected(s) ELSE s
           IN  Loop(t.u, t.c)
<1> DEFINE d == ConnectTimeout(c)
           e == StopTimer(c, ConnectTimer)
<1>1. v \in UpdaterType /\ Sound(c, Request)
  BY DEF Loop
<1>2. ConnectTimer \in Running(c)
  BY <1>1, HeadTimer
<1>3. Len(e.timers) = Len(c.timers) - 1
  BY <1>1, <1>2, StopTimerSound DEF OwnTimers
<1>4. /\ Sound(d, Request)
      /\ d.socket = IF c.socket = "Connecting" THEN "Connecting" ELSE "Unconnected"
      /\ d.closing = (c.socket = "Connecting")
      /\ d.sent = IF c.socket = "Connecting" THEN c.sent ELSE {}
      /\ d.pending = c.pending /\ d.dropped = c.dropped
      /\ d.timers = e.timers
  BY <1>1, ConnectTimeoutSound
<1> HIDE DEF d, e
<1>5. c.socket # "Connected"
  BY <1>2 DEF Loop, Online, Dialling, Offline
<1>6. LET s == OnDisconnected(Pair(v, d)) IN Loop(s.u, s.c)
  <2>1. CASE Dialling(v, c)
    <3>1. d.socket = "Connecting" /\ d.closing
      BY <1>4, <2>1 DEF Dialling
    <3>2. Len(d.timers) = 0
      <4>1. Len(c.timers) = 1
        BY <2>1 DEF Dialling
      <4> QED BY <1>3, <1>4, <4>1
    <3>3. PICK w \in UpdaterType : /\ w.mCurrentState = InitState
                                   /\ OnDisconnected(Pair(v, d)) = HandleError(Pair(w, d))
      BY <1>1, DisconnectedIs
    <3> QED BY <1>4, <3>1, <3>2, <3>3, ErrorDiallingFine
  <2>2. CASE Offline(v, c)
    <3>1. d.socket = "Unconnected" /\ ~d.closing /\ d.sent = {}
      BY <1>4, <2>2 DEF Offline
    <3>2. \A r \in Outstanding(d) : r.kind = InitState
      BY <1>4, <2>2 DEF Offline, Outstanding
    <3>3. Len(StopTimer(d, UserTimer).timers) <= 2
      <4> DEFINE m == Len(StopTimer(d, UserTimer).timers)
                 k == Len(d.timers)
                 n == Len(c.timers)
      <4>1. m \in 0..k
        BY <1>4, QueueLengths DEF OwnTimers
      <4>2. n \in 1..3 /\ k = n - 1
        BY <1>3, <1>4, <2>2 DEF Offline
      <4> HIDE DEF m, k, n
      <4>3. m <= 2
        BY <4>1, <4>2
      <4> QED BY <4>3 DEF m
    <3>4. Down(v, d)
      BY <1>1, <1>4, <3>1, <3>2, <3>3 DEF Down
    <3> QED BY <3>4, DisconnectedFine
  <2> QED BY <1>5, <2>1, <2>2 DEF Loop, Online
<1> QED BY <1>5, <1>6 DEF d

\* An attempt to connect with no timer running.
LEMMA RedialFine ==
    ASSUME NEW v \in UpdaterType, NEW c, Sound(c, Request), Len(c.timers) = 0,
           c.socket # "Connected", v.mTimer = "off"
    PROVE  Loop(v, ConnectToServer(c))
<1> DEFINE d == ConnectToServer(c)
<1>1. Running(c) = {} /\ c.pending = {} /\ c.dropped = {}
  BY EmptyQueue DEF Outstanding
<1>2. c.socket \in {"Unconnected", "Connecting"}
  BY DEF Sound, ClientType, SocketState
<1>3. /\ Sound(d, Request)
      /\ d.socket = "Connecting"
      /\ d.pending = {} /\ d.dropped = {}
      /\ Running(d) = {ConnectTimer}
      /\ Len(d.timers) = Len(c.timers) + 1
  <2>1. ConnectTimer \notin Running(c)
    BY <1>1
  <2> QED BY <1>1, <1>2, <2>1, ConnectToServerSound
<1>4. Len(d.timers) = 1
  BY <1>3
<1> HIDE DEF d
<1>5. Dialling(v, d)
  BY <1>3, <1>4 DEF Dialling
<1>6. Loop(v, d)
  BY <1>3, <1>5 DEF Loop, ConnectTimer, UserTimer
<1> QED BY <1>6 DEF d

\* The timer of the updater expires.
LEMMA OnTimerFine ==
    ASSUME NEW v, NEW c, Loop(v, c), v.mTimer = "idle" \/ Expires(c, UserTimer)
    PROVE  LET s == StopUserTimer(Pair(v, c))
               t == IF c.socket = "Connected"
                    THEN StartNextAction(s, IF v.mCurrentState = "Idle"
                                            THEN InitState ELSE v.mCurrentState)
                    ELSE [s EXCEPT !.c = ConnectToServer(@)]
           IN  Loop(t.u, t.c)
<1> DEFINE w == [v EXCEPT !.mTimer = "off"]
           d == StopTimer(c, UserTimer)
           s == StopUserTimer(Pair(v, c))
<1>1. v \in UpdaterType /\ Sound(c, Request) /\ Len(c.timers) \in Nat
  BY QueueLengths DEF Loop
<1>2. w \in UpdaterType /\ w.mTimer = "off"
  BY <1>1 DEF UpdaterType
<1>3. Sound(d, Request) /\ SameButTimers(c, d)
  BY <1>1, StopTimerSound DEF OwnTimers
<1>4. Len(d.timers) = 0
  <2>1. CASE v.mTimer = "idle"
    <3>1. Online(v, c) /\ UserTimer \notin Running(c)
      BY <2>1 DEF Loop, Dialling, Offline
    <3>2. Len(c.timers) = 0
      BY <2>1, <3>1 DEF Online
    <3> QED BY <1>1, <3>1, <3>2, StopTimerSound DEF OwnTimers
  <2>2. CASE Expires(c, UserTimer)
    <3>1. UserTimer \in Running(c) /\ (Last(c.timers) = UserTimer => Len(c.timers) = 1)
      BY <1>1, <2>2, HeadTimer
    <3>2. Len(c.timers) = 1
      <4>1. CASE Online(v, c)
        <5>1. Len(c.timers) <= 1
          BY <4>1 DEF Online
        <5> QED BY <1>1, <3>1, <5>1, SingleTimer
      <4>2. CASE Dialling(v, c)
        BY <4>2 DEF Dialling
      <4>3. CASE Offline(v, c)
        BY <3>1, <4>3 DEF Offline
      <4> QED BY <4>1, <4>2, <4>3 DEF Loop
    <3>3. Len(d.timers) = Len(c.timers) - 1
      BY <1>1, <3>1, StopTimerSound DEF OwnTimers
    <3> QED BY <3>2, <3>3
  <2> QED BY <2>1, <2>2
<1>5. s = Pair(w, d)
  BY StopUserTimerPair
<1> HIDE DEF w, d, s
<1>6. CASE c.socket = "Connected"
  <2> DEFINE state == IF v.mCurrentState = "Idle" THEN InitState ELSE v.mCurrentState
  <2>1. ~d.closing /\ d.socket = "Connected"
    BY <1>3, <1>6 DEF Loop, Online, Dialling, Offline, SameButTimers
  <2>2. Free(w, d)
    BY <1>2, <1>3, <1>4, <2>1 DEF Free
  <2>3. state \in ModbusState
    BY <1>1, InitStateReads DEF UpdaterType
  <2> HIDE DEF state
  <2>4. LET t == StartNextAction(s, state) IN Loop(t.u, t.c)
    BY <1>5, <2>2, <2>3, NextFine
  <2> QED BY <1>6, <2>4 DEF s, state
<1>7. CASE c.socket # "Connected"
  <2>1. Loop(w, ConnectToServer(d))
    BY <1>2, <1>3, <1>4, <1>7, RedialFine DEF SameButTimers
  <2>2. [s EXCEPT !.c = ConnectToServer(@)] = Pair(w, ConnectToServer(d))
    BY <1>5, PairUpdate
  <2>3. LET t == [s EXCEPT !.c = ConnectToServer(@)] IN Loop(t.u, t.c)
    BY <2>1, <2>2, PairUpdate
  <2> QED BY <1>7, <2>3 DEF s
<1> QED BY <1>6, <1>7

\* A limit is requested while the updater waits: the timer of 1000 ms or of
\* 5000 ms stops, and the next request is sent at once, connected or not.
LEMMA LimitRequestedFine ==
    ASSUME NEW v, NEW c, Loop(v, c), NEW limit \in Limits
    PROVE  LET s == [StopUserTimer(Pair(v, c)) EXCEPT !.u.mPowerLimitPct = limit]
               t == CASE v.mTimer = "off" -> [s EXCEPT !.u.mWritePowerLimitRequested = TRUE]
                      [] v.mTimer # "off" /\ v.mCurrentState = "Idle" ->
                            StartNextAction(s, "WritePowerLimit")
                      [] OTHER ->
                            [StartNextAction(s, v.mCurrentState)
                                EXCEPT !.u.mWritePowerLimitRequested = TRUE]
           IN  Loop(t.u, t.c)
<1> DEFINE w == [v EXCEPT !.mTimer = "off", !.mPowerLimitPct = limit]
           d == StopTimer(c, UserTimer)
           s == [StopUserTimer(Pair(v, c)) EXCEPT !.u.mPowerLimitPct = limit]
           asked(x) == [x EXCEPT !.mWritePowerLimitRequested = TRUE]
<1>1. v \in UpdaterType /\ Sound(c, Request) /\ Len(c.timers) \in Nat
  BY QueueLengths DEF Loop
<1>2. w \in UpdaterType /\ w.mTimer = "off" /\ w.mCurrentState = v.mCurrentState
  BY <1>1 DEF UpdaterType, Percent
<1>3. Sound(d, Request) /\ SameButTimers(c, d)
  BY <1>1, StopTimerSound DEF OwnTimers
<1>4. s = Pair(w, d)
  <2> DEFINE x == [v EXCEPT !.mTimer = "off"]
  <2>1. StopUserTimer(Pair(v, c)) = Pair(x, d)
    BY StopUserTimerPair
  <2>2. [x EXCEPT !.mPowerLimitPct = limit] = w
    BY DEF x
  <2> HIDE DEF x, d, w
  <2>3. [Pair(x, d) EXCEPT !.u.mPowerLimitPct = limit] = Pair([x EXCEPT !.mPowerLimitPct = limit], d)
    BY DEF Pair
  <2> QED BY <2>1, <2>2, <2>3
<1>5. ASSUME NEW x \in UpdaterType, NEW e, Loop(x, e)
      PROVE  LET t == [Pair(x, e) EXCEPT !.u.mWritePowerLimitRequested = TRUE] IN Loop(t.u, t.c)
  <2>0. \A b : [Pair(x, e) EXCEPT !.u.mWritePowerLimitRequested = b]
                  = Pair([x EXCEPT !.mWritePowerLimitRequested = b], e)
    BY DEF Pair
  <2>1. [Pair(x, e) EXCEPT !.u.mWritePowerLimitRequested = TRUE] = Pair(asked(x), e)
    BY <2>0, Zenon
  <2>2. /\ asked(x) \in UpdaterType
        /\ asked(x).mTimer = x.mTimer /\ asked(x).mCurrentState = x.mCurrentState
    BY <1>5 DEF UpdaterType
  <2> HIDE DEF asked
  <2>3. Loop(asked(x), e)
    BY <1>5, <2>2, LoopOtherMembers
  <2> QED BY <2>1, <2>3, PairUpdate
<1>6. ASSUME v.mTimer = "retry" PROVE UserTimer \in Running(c) /\ Len(d.timers) = Len(c.timers) - 1
  <2>1. UserTimer \in Running(c)
    BY <1>6 DEF Loop
  <2> QED BY <1>1, <2>1, StopTimerSound DEF OwnTimers
<1> HIDE DEF asked
<1>7. CASE v.mTimer = "off"
  <2>1. d = c
    <3>1. UserTimer \notin Running(c)
      BY <1>7 DEF Loop
    <3>2. d.timers = c.timers
      BY <1>1, <3>1, StopTimerSound DEF OwnTimers
    <3>3. c \in ClientType(Request) /\ d \in ClientType(Request)
      BY <1>1, <1>3 DEF Sound
    <3> HIDE DEF d
    <3> QED BY <1>3, <3>2, <3>3 DEF SameButTimers, ClientType
  <2> HIDE DEF w, d, s
  <2>2. Loop(w, d)
    BY <1>2, <1>7, <2>1, LoopOtherMembers
  <2>3. LET t == [s EXCEPT !.u.mWritePowerLimitRequested = TRUE] IN Loop(t.u, t.c)
    BY <1>2, <1>4, <1>5, <2>2
  <2> QED BY <1>7, <2>3 DEF s
<1>8. CASE v.mTimer # "off" /\ v.mCurrentState = "Idle"
  <2>1. Online(v, c) /\ Len(c.timers) = 0 /\ UserTimer \notin Running(c)
    <3>1. ~Offline(v, c)
      BY <1>8, InitStateReads DEF Offline
    <3>2. ASSUME Dialling(v, c) PROVE FALSE
      <4>1. v.mTimer = "retry" /\ UserTimer \in Running(c)
        BY <1>1, <1>8, <3>2 DEF Loop, Dialling, UpdaterType
      <4>2. ConnectTimer \in Running(c)
        BY <1>8, <3>2, InitStateReads DEF Dialling
      <4>3. Len(c.timers) <= 1
        BY <3>2 DEF Dialling
      <4>4. Running(c) = {ConnectTimer}
        BY <1>1, <4>2, <4>3, SingleTimer
      <4> QED BY <4>1, <4>4 DEF ConnectTimer, UserTimer
    <3>3. Online(v, c)
      BY <3>1, <3>2 DEF Loop
    <3>4. v.mTimer = "idle" /\ Len(c.timers) = 0
      BY <1>8, <3>3 DEF Online
    <3>5. UserTimer \notin Running(c)
      BY <3>4 DEF Loop
    <3> QED BY <3>3, <3>4, <3>5
  <2>2. Len(d.timers) = 0
    BY <1>1, <2>1, StopTimerSound DEF OwnTimers
  <2> HIDE DEF w, d, s
  <2>3. Free(w, d)
    BY <1>2, <1>3, <2>1, <2>2 DEF Free, Online, SameButTimers
  <2>4. LET t == StartNextAction(s, "WritePowerLimit") IN Loop(t.u, t.c)
    BY <1>4, <2>3, NextFine DEF ModbusState
  <2> QED BY <1>8, <2>4 DEF s
<1>9. CASE v.mTimer # "off" /\ v.mCurrentState # "Idle"
  <2> DEFINE state == v.mCurrentState
  <2>1. state \in ModbusState /\ state # "Idle"
    BY <1>1, <1>9 DEF UpdaterType
  <2>2. v.mTimer = "retry"
    BY <1>1, <1>9 DEF Loop, Online, Dialling, Offline, UpdaterType
  <2>3. UserTimer \in Running(c) /\ Len(d.timers) = Len(c.timers) - 1
    BY <1>6, <2>2
  <2>4. Len(c.timers) <= 1 => Len(d.timers) = 0 /\ Running(c) = {UserTimer}
    <3>1. Len(c.timers) <= 1 => Len(c.timers) = 1 /\ Running(c) = {UserTimer}
      BY <1>1, <2>3, SingleTimer
    <3> QED BY <2>3, <3>1
  <2> HIDE DEF w, d, s
  <2>5. LET t == StartNextAction(s, state) IN Loop(t.u, t.c) /\ t = Pair(t.u, t.c)
                                             /\ t.u \in UpdaterType
    <3> DEFINE x == Sending(w, state)
               e == SendFrame(d, state, Value(w, state))
               n == NewRequest(d, state, Value(w, state))
    <3>1. StartNextAction(s, state) = Pair(x, e)
      BY <1>2, <1>4, <2>1, StartSends
    <3>2. x \in UpdaterType /\ x.mCurrentState = state /\ x.mTimer = "off"
      BY <1>2, <2>1, SendingTyped
    <3>3. \A y \in Ids : [id |-> y, kind |-> state, value |-> Value(w, state)] \in Request
      BY <1>2, <2>1, RequestTyped
    <3>4. CASE Online(v, c)
      <4>1. Len(d.timers) = 0
        BY <2>4, <3>4 DEF Online
      <4>2. Free(w, d)
        BY <1>2, <1>3, <3>4, <4>1 DEF Free, Online, SameButTimers
      <4>3. LET t == StartNextAction(s, state) IN Loop(t.u, t.c)
        BY <1>4, <2>1, <4>2, NextFine
      <4> HIDE DEF x, e
      <4> QED BY <3>1, <3>2, <4>3, PairUpdate
    <3>5. CASE Dialling(v, c)
      <4>1. Len(d.timers) = 0 /\ Running(c) = {UserTimer}
        <5>1. Len(c.timers) <= 1
          BY <3>5 DEF Dialling
        <5> QED BY <2>4, <5>1
      <4>2. state = InitState /\ c.closing
        BY <3>5, <4>1 DEF Dialling, ConnectTimer, UserTimer
      <4>3. Running(d) = {} /\ d.pending = {} /\ d.dropped = {}
        BY <1>3, <4>1, EmptyQueue DEF Outstanding
      <4>4. Sound(e, Request) /\ HasSent(d, e, n) /\ n.kind = state
        <5>1. Len(d.timers) <= 2
          BY <4>1
        <5> QED BY <1>3, <3>3, <5>1, RepliesAssumption, SendFrameSound
      <4> HIDE DEF x, e, n, state
      <4>5. /\ Len(e.timers) = 1 /\ e.pending = {n} /\ e.dropped = {}
            /\ e.socket = "Connecting" /\ e.closing
            /\ Running(e) = {n.id} /\ n.id \in Ids
        BY <1>3, <3>5, <4>1, <4>2, <4>3, <4>4 DEF HasSent, SameButTimers, Dialling
      <4>6. Dialling(x, e)
        BY <3>2, <4>2, <4>4, <4>5 DEF Dialling
      <4>7. Loop(x, e)
        BY <3>2, <4>4, <4>5, <4>6 DEF Loop, Ids, UserTimer
      <4> QED BY <3>1, <3>2, <4>7, PairUpdate
    <3>6. CASE Offline(v, c)
      <4>1. /\ Len(c.timers) \in 1..3 /\ state = InitState
            /\ c.socket = "Unconnected" /\ ~c.closing /\ c.sent = {}
            /\ \A r \in Outstanding(c) : r.kind = InitState
        BY <3>6 DEF Offline
      <4>2. Len(d.timers) \in 0..2 /\ Len(d.timers) <= 2
        <5> DEFINE m == Len(d.timers)
                   k == Len(c.timers)
        <5>1. m = k - 1 /\ k \in 1..3
          BY <2>3, <4>1
        <5> HIDE DEF m, k
        <5>2. m \in 0..2 /\ m <= 2
          BY <5>1
        <5> QED BY <5>2 DEF m
      <4>3. Sound(e, Request) /\ HasSent(d, e, n) /\ n.kind = state
        BY <1>3, <3>3, <4>2, RepliesAssumption, SendFrameSound
      <4> HIDE DEF x, e, n, state
      <4>4. Len(e.timers) \in 1..3
        <5> DEFINE m == Len(d.timers)
                   k == Len(e.timers)
        <5>1. k = m + 1 /\ m \in 0..2
          BY <4>2, <4>3 DEF HasSent
        <5> HIDE DEF m, k
        <5>2. k \in 1..3
          BY <5>1
        <5> QED BY <5>2 DEF k
      <4>5. /\ e.socket = "Unconnected" /\ ~e.closing /\ e.sent = {}
            /\ Running(e) = Running(d) \cup {n.id} /\ n.id \in Ids
            /\ Last(e.timers) = n.id
            /\ \A r \in Outstanding(e) : r.kind = InitState
        BY <1>3, <4>1, <4>3 DEF HasSent, SameButTimers, Outstanding
      <4>6. UserTimer \notin Running(e)
        <5>1. UserTimer \notin Running(d)
          BY <1>1, StopTimerSound DEF OwnTimers, d
        <5> QED BY <4>5, <5>1 DEF Ids, UserTimer
      <4>7. Offline(x, e)
        BY <3>2, <4>1, <4>4, <4>5, <4>6 DEF Offline, Ids, ConnectTimer
      <4>8. Loop(x, e)
        BY <3>2, <4>3, <4>6, <4>7 DEF Loop
      <4> QED BY <3>1, <3>2, <4>8, PairUpdate
    <3> QED BY <3>4, <3>5, <3>6 DEF Loop
  <2> DEFINE y == StartNextAction(s, state)
  <2> HIDE DEF state
  <2>6. Loop(y.u, y.c) /\ y = Pair(y.u, y.c) /\ y.u \in UpdaterType
    BY <2>5
  <2> HIDE DEF y
  <2>7. LET t == [y EXCEPT !.u.mWritePowerLimitRequested = TRUE] IN Loop(t.u, t.c)
    BY <1>5, <2>6
  <2> QED BY <1>9, <2>7 DEF s, y, state
<1> QED BY <1>7, <1>8, <1>9

----------------------------------------------------------------------------
(* The invariant.                                                          *)

\* The invariant holds initially, and when the updater is created anew.
LEMMA NewFine == Loop(NewUpdater, ConnectToServer(NewClient))
<1>1. NewUpdater \in UpdaterType /\ NewUpdater.mTimer = "off"
  BY DEF NewUpdater, UpdaterType, ModbusState, Percent, MaxRetries
<1>2. NewClient \in ClientType(Request)
  BY DEF NewClient, ClientType, SocketState
<1>3. /\ NewClient.timers = <<>> /\ NewClient.sent = {} /\ NewClient.socket = "Unconnected"
      /\ NewClient.pending = {} /\ NewClient.dropped = {}
  BY DEF NewClient
<1>4. Queue(NewClient)
  BY <1>3 DEF Queue, Outstanding, Running, IsInjective, ToSet
<1>5. Len(NewClient.timers) = 0
  BY <1>3
<1> QED BY <1>1, <1>2, <1>3, <1>4, <1>5, RedialFine DEF Sound

\* The state as a pair.
LEMMA NowIs ==
    /\ Now = Pair(u, client)
    /\ \A d : [Now EXCEPT !.c = d] = Pair(u, d)
  BY DEF Now, Pair

\* Every step keeps the invariant.
LEMMA StepKeepsLoop == IInv /\ [Next]_vars => IInv'
<1> SUFFICES ASSUME Loop(u, client), [Next]_vars PROVE Loop(u', client')
  BY DEF IInv
<1>1. CASE Recreated
  BY <1>1, NewFine DEF Recreated
<1>2. ASSUME NEW r \in client.pending, ReadAnswered(r) PROVE Loop(u', client')
  <2>1. r \in Answerable(client)
    BY <1>2 DEF ReadAnswered
  <2>2. PICK seen : Becomes(OnValues(Pair(u, Finished(client, r)), seen))
    BY <1>2, NowIs DEF ReadAnswered
  <2> QED BY <2>1, <2>2, ReadAnsweredFine DEF Becomes
<1>3. ASSUME NEW r \in client.pending, WriteAnswered(r) PROVE Loop(u', client')
  <2>1. r \in Answerable(client)
    BY <1>3 DEF WriteAnswered
  <2>2. Becomes(OnWriteCompleted(Pair(u, Finished(client, r))))
    BY <1>3, NowIs DEF WriteAnswered
  <2> QED BY <2>1, <2>2, WriteAnsweredFine DEF Becomes
<1>4. ASSUME NEW r \in client.pending, ReplyFailed(r) PROVE Loop(u', client')
  <2>1. Becomes(OnFailure(Pair(u, client), r)) /\ r \in Outstanding(client)
    BY <1>4, NowIs DEF ReplyFailed, Outstanding
  <2> QED BY <2>1, FailureFine DEF Becomes
<1>5. ASSUME NEW r \in Outstanding(client), ReplyTimedOut(r) PROVE Loop(u', client')
  <2>1. Becomes(OnFailure(Pair(u, client), r))
    BY <1>5, NowIs DEF ReplyTimedOut
  <2> QED BY <2>1, FailureFine DEF Becomes
<1>6. CASE Connected
  <2>1. client.socket = "Connecting"
    BY <1>6 DEF Connected
  <2>2. LET s == StartNextAction(Pair(u, SocketConnected(client)), InitState)
        IN  Becomes(IF client.closing
                    THEN OnDisconnected([s EXCEPT !.c = SocketClosed(@)])
                    ELSE s)
    BY <1>6, NowIs DEF Connected
  <2> QED BY <2>1, <2>2, ConnectedFine DEF Becomes
<1>7. CASE ConnectionRefused
  <2>1. client.socket = "Connecting"
    BY <1>7 DEF ConnectionRefused
  <2>2. Becomes(OnSocketError(Pair(u, SocketClosed(client))))
    BY <1>7, NowIs DEF ConnectionRefused
  <2> QED BY <2>1, <2>2, RefusedFine DEF Becomes
<1>8. CASE ConnectionBroken
  <2>1. client.socket = "Connected"
    BY <1>8 DEF ConnectionBroken
  <2>2. LET s == OnSocketError(Pair(u, client))
        IN  Becomes(OnDisconnected([s EXCEPT !.c = SocketClosed(@)]))
    BY <1>8, NowIs DEF ConnectionBroken
  <2> QED BY <2>1, <2>2, BrokenFine DEF Becomes
<1>9. CASE ConnectTimerExpired
  <2>1. Expires(client, ConnectTimer)
    BY <1>9 DEF ConnectTimerExpired
  <2>2. LET s == OnDisconnected(Pair(u, ConnectTimeout(client)))
        IN  Becomes(IF client.socket = "Connected" THEN OnDisconnected(s) ELSE s)
    BY <1>9, NowIs DEF ConnectTimerExpired
  <2> QED BY <2>1, <2>2, ConnectTimerFine DEF Becomes
<1>10. CASE OnTimer
  <2>1. u.mTimer = "idle" \/ Expires(client, UserTimer)
    BY <1>10 DEF OnTimer
  <2>2. LET s == StopUserTimer(Pair(u, client))
        IN  Becomes(IF client.socket = "Connected"
                    THEN StartNextAction(s, IF u.mCurrentState = "Idle"
                                            THEN InitState ELSE u.mCurrentState)
                    ELSE [s EXCEPT !.c = ConnectToServer(@)])
    BY <1>10, NowIs DEF OnTimer
  <2> QED BY <2>1, <2>2, OnTimerFine DEF Becomes
<1>11. ASSUME NEW limit \in Limits, PowerLimitRequested(limit) PROVE Loop(u', client')
  <2> DEFINE s == [StopUserTimer(Pair(u, client)) EXCEPT !.u.mPowerLimitPct = limit]
             t == CASE u.mTimer = "off" -> [s EXCEPT !.u.mWritePowerLimitRequested = TRUE]
                    [] u.mTimer # "off" /\ u.mCurrentState = "Idle" ->
                          StartNextAction(s, "WritePowerLimit")
                    [] OTHER ->
                          [StartNextAction(s, u.mCurrentState)
                              EXCEPT !.u.mWritePowerLimitRequested = TRUE]
  <2>1. Becomes(t)
    BY <1>11, NowIs, Zenon DEF PowerLimitRequested
  <2>2. Loop(t.u, t.c)
    BY LimitRequestedFine
  <2> HIDE DEF t
  <2> QED BY <2>1, <2>2 DEF Becomes
<1>12. CASE UNCHANGED vars
  BY <1>12 DEF vars
<1> QED BY <1>1, <1>2, <1>3, <1>4, <1>5, <1>6, <1>7, <1>8, <1>9, <1>10, <1>11, <1>12
        DEF Next, Step

\* The shape of the queue of timers holds in every state.
THEOREM Invariance == Spec => []IInv
<1>1. Init => IInv
  BY NewFine DEF Init, IInv
<1> QED BY <1>1, StepKeepsLoop, PTL DEF Spec

\* The members and the client keep their types; in particular no more than
\* three replies are ever outstanding, so an identifier is always free.
THEOREM TypeCorrect == Spec => []TypeOK
<1>1. IInv => TypeOK
  BY DEF IInv, Loop, Sound, TypeOK
<1> QED BY <1>1, Invariance, PTL

\* The polling loop is never stuck: a timer runs, a request is under way, or the
\* socket connects.
THEOREM PollingNeverStuck == Spec => []NeverStuck
<1>1. ASSUME Loop(u, client), u.mTimer = "off", client.socket # "Connecting"
      PROVE  Outstanding(client) # {}
  <2>1. /\ Sound(client, Request) /\ UserTimer \notin Running(client)
        /\ Online(u, client) \/ Offline(u, client)
    BY <1>1 DEF Loop, Dialling
  <2>2. Running(client) \subseteq Timers /\ client.timers \in Seq(Timers)
    BY <2>1, ClientFields DEF Sound
  <2>3. PICK t \in Running(client) : t # ConnectTimer
    <3>1. CASE Online(u, client)
      <4>1. ConnectTimer \notin Running(client) /\ Len(client.timers) # 0
        BY <1>1, <3>1 DEF Online
      <4>2. Running(client) # {}
        BY <2>1, <4>1, QueueLengths
      <4> QED BY <4>1, <4>2
    <3>2. CASE Offline(u, client)
      <4>1. Len(client.timers) \in 1..3 /\ Last(client.timers) # ConnectTimer
        BY <3>2 DEF Offline
      <4>2. client.timers[Len(client.timers)] \in Running(client)
        BY <2>2, <4>1, InToSet DEF Running
      <4> QED BY <4>1, <4>2 DEF Last
    <3> QED BY <2>1, <3>1, <3>2
  <2>4. t \in Ids
    BY <2>1, <2>2, <2>3 DEF Timers
  <2> QED BY <2>1, <2>3, <2>4 DEF Sound, Queue
<1>2. IInv => NeverStuck
  BY <1>1 DEF IInv, NeverStuck
<1> QED BY <1>2, Invariance, PTL

\* An answer that comes in is the answer to the question of the current state,
\* and there is no other.
THEOREM AnswersMatch == Spec => []AnswerMatchesState
<1>1. ASSUME Loop(u, client), NEW r \in Answerable(client)
      PROVE  Answerable(client) = {r} /\ r.kind = u.mCurrentState
  <2>1. Online(u, client) /\ r \in client.pending /\ r \in Outstanding(client)
    BY <1>1 DEF Loop, Dialling, Offline, Answerable, Outstanding
  <2>2. Sound(client, Request) /\ Len(client.timers) <= 1
    BY <1>1, <2>1 DEF Loop, Online
  <2>3. r.id \in Running(client)
    BY <2>1, <2>2, OutstandingTyped DEF Sound, Queue
  <2>4. Outstanding(client) = {r}
    BY <2>1, <2>2, <2>3, SingleTimer
  <2> QED BY <1>1, <2>1, <2>4 DEF Answerable, Online, Outstanding
<1>2. IInv => AnswerMatchesState
  <2> SUFFICES ASSUME Loop(u, client) PROVE AnswerMatchesState
    BY DEF IInv
  <2>1. CASE Answerable(client) = {}
    BY <2>1, FS_EmptySet DEF AnswerMatchesState
  <2>2. CASE Answerable(client) # {}
    <3>1. PICK r \in Answerable(client) : Answerable(client) = {r}
      BY <1>1, <2>2
    <3>2. Cardinality({r}) = 1
      BY FS_Singleton
    <3> QED BY <1>1, <3>1, <3>2 DEF AnswerMatchesState
  <2> QED BY <2>1, <2>2
<1> QED BY <1>2, Invariance, PTL
=============================================================================
