--------------------------- MODULE SolarApiUpdater ---------------------------
(***************************************************************************)
(* The polling loop of a Fronius inverter over the Solar API: the          *)
(* SolarApiUpdater (solar_api_updater.cpp), its FroniusSolarApi            *)
(* (froniussolar_api.cpp) and the QHttp of that, which is replaced by a    *)
(* new one when the inverter has moved. As in SunspecUpdater the handlers  *)
(* are operators on the pair of both, and a step is one event: a slot that *)
(* was posted, news of the socket or of a timer, or a change of settings.  *)
(* Timers are served when nothing is posted, as their intervals are of     *)
(* seconds. Of the data received only the outcome is kept.                 *)
(***************************************************************************)
EXTENDS QHttp

VARIABLES
    u,    \* members of the SolarApiUpdater and of its FroniusSolarApi
    http  \* its mHttp

vars == <<u, http>>

MaxRetries == 5

Kinds == {"getCommonData", "getThreePhases"}

UpdaterType ==
    [mRequestType : Kinds \cup {None},
     mTimeoutTimer : BOOLEAN,      \* it runs
     scheduled : 0..1,             \* single shots to onStartRetrieval
     mRetryCount : 0..MaxRetries - 1,
     mInitialized : BOOLEAN,
     multiPhase : BOOLEAN,         \* phaseCount of the device is not 1
     mixed : BOOLEAN,              \* history: an answer was taken for another
     gone : BOOLEAN]               \* connectionLost

TypeOK ==
    /\ u \in UpdaterType
    /\ http \in HttpType(Kinds)
    /\ http.done = None

----------------------------------------------------------------------------
(* Handlers, on records s with the updater s.u and the client s.h.         *)

\* FroniusSolarApi::sendGetRequest.
SendGetRequest(s, kind) ==
    [s EXCEPT !.h = AddGet(@, kind), !.u.mRequestType = kind,
              !.u.mTimeoutTimer = TRUE]

\* FroniusSolarApi::getCommonDataAsync and getThreePhasesInverterDataAsync.
GetCommonDataAsync(s)  == SendGetRequest(s, "getCommonData")
GetThreePhasesAsync(s) == SendGetRequest(s, "getThreePhases")

ScheduleRetrieval(s) == [s EXCEPT !.u.scheduled = @ + 1]

HandleError(s) ==
    LET lost == s.u.mRetryCount + 1 = MaxRetries
    IN  [s EXCEPT !.u.mRetryCount = IF lost THEN 0 ELSE @ + 1, !.u.gone = @ \/ lost]

\* Seeded fault: three phases are asked for besides the next retrieval.
OnCommonDataFoundBoth(s, result) ==
    IF result # "NoError" THEN ScheduleRetrieval(HandleError(s))
    ELSE LET t == ScheduleRetrieval([s EXCEPT !.u.mRetryCount = 0])
         IN  IF s.u.multiPhase THEN GetThreePhasesAsync(t) ELSE t

\* Seeded fault: a failed retrieval is not followed by another.
OnCommonDataFoundGivesUp(s, result) ==
    IF result # "NoError" THEN HandleError(s)
    ELSE LET t == [s EXCEPT !.u.mRetryCount = 0]
         IN  IF s.u.multiPhase THEN GetThreePhasesAsync(t)
             ELSE ScheduleRetrieval([t EXCEPT !.u.mInitialized = TRUE])

OnCommonDataFound(s, result) ==
    IF result # "NoError" THEN ScheduleRetrieval(HandleError(s))
    ELSE LET t == [s EXCEPT !.u.mRetryCount = 0]
         IN  IF s.u.multiPhase THEN GetThreePhasesAsync(t)
             ELSE ScheduleRetrieval([t EXCEPT !.u.mInitialized = TRUE])

OnThreePhasesDataFound(s, result) ==
    ScheduleRetrieval(
        IF result # "NoError" THEN HandleError(s)
        ELSE [s EXCEPT !.u.mRetryCount = 0, !.u.mInitialized = TRUE])

\* Seeded fault: the timer goes on after a network error.
ProcessReplyKeepsTimer(s, error) ==
    LET t == [s EXCEPT !.u.mRequestType = None, !.u.mTimeoutTimer = error]
    IN  IF error THEN t
        ELSE [t EXCEPT !.h = AddClose(ReadAll(@))]

\* FroniusSolarApi::processReply, up to its result. The connection of an
\* answer is closed, by a request of its own.
ProcessReply(s, error) ==
    LET t == [s EXCEPT !.u.mRequestType = None, !.u.mTimeoutTimer = FALSE]
    IN  IF error THEN t
        ELSE [t EXCEPT !.h = AddClose(ReadAll(@)),
                       !.u.mixed = @ \/ s.h.rba \notin {None, s.u.mRequestType}]

\* The outcomes processReply may find. What ends with the connection may be all
\* of an answer if its header gave no length.
Results(h) ==
    IF h.done = "error" \/ h.rba = None \/ (h.sized /\ ~h.whole) THEN {"NetworkError"}
    ELSE {"NoError", "ApiError", "NetworkError"}

\* processCommonData and processThreePhasesData; missing values read as 0.
ProcessCommonData(s, error, result) ==
    OnCommonDataFound(ProcessReply(s, error), result)

ProcessThreePhasesData(s, error, result) ==
    OnThreePhasesDataFound(ProcessReply(s, error), result)

\* FroniusSolarApi::onDone with processRequest. Without a request it is ignored.
OnDone(s, result) ==
    LET error == s.h.done = "error"
        t     == [s EXCEPT !.h.done = None]
    IN  CASE s.u.mRequestType = None -> t
          [] s.u.mRequestType = "getCommonData"  -> ProcessCommonData(t, error, result)
          [] s.u.mRequestType = "getThreePhases" -> ProcessThreePhasesData(t, error, result)

\* Something changed the client to h: its signal is handled.
Handled(h) ==
    \E result \in Results(h) :
        LET s == [u |-> u, h |-> h]
            t == IF h.done = None THEN s ELSE OnDone(s, result)
        IN  u' = t.u /\ http' = t.h

----------------------------------------------------------------------------
NewUpdater(multi) ==
    [mRequestType |-> None, mTimeoutTimer |-> FALSE, scheduled |-> 0,
     mRetryCount |-> 0, mInitialized |-> FALSE, multiPhase |-> multi,
     mixed |-> FALSE, gone |-> FALSE]

\* The constructor retrieves data at once.
Constructed(multi) ==
    GetCommonDataAsync([u |-> NewUpdater(multi), h |-> NewHttp])

Init ==
    \E multi \in BOOLEAN : u = Constructed(multi).u /\ http = Constructed(multi).h

\* The device was found again.
Recreated ==
    /\ u.gone
    /\ \E multi \in BOOLEAN : u' = Constructed(multi).u /\ http' = Constructed(multi).h

EventLoop == http.posted # <<>> /\ Handled(RunPosted(http))

SocketConnects ==
    /\ http.socket = "Connecting"
    /\ Handled(SlotConnected([http EXCEPT !.socket = "Connected"]))

\* Refused, unknown, unreachable, or too late.
ConnectFails ==
    /\ http.socket = "Connecting"
    /\ Handled(SlotError([http EXCEPT !.socket = "Unconnected"], FALSE))

\* What the server sends.
ServerAnswers ==
    /\ http.socket = "Connected" /\ http.asked
    /\ \/ \E sized \in BOOLEAN : Handled(ReadPart(http, sized))
       \/ \E closes \in BOOLEAN : Handled(ReadRest(http, closes))
       \/ Handled(ReadInvalid(http))

ServerRefuses ==
    /\ http.socket = "Connected" /\ http.asked /\ http.state = "Sending"
    /\ \E method \in {None, "Given", "Ntlm"}, closes \in BOOLEAN :
          Handled(ReadUnauthorized(http, method, closes))

\* The connection is closed by the server, or breaks.
ConnectionEnds ==
    /\ http.socket = "Connected"
    /\ \E remoteClosed \in BOOLEAN : Handled(SocketGone(SlotError(http, remoteClosed)))

\* FroniusSolarApi::onTimeout; the timer is not a single shot.
OnTimeout ==
    /\ u.mTimeoutTimer
    /\ http.posted = <<>>
    /\ Handled(Abort(http))

OnStartRetrieval ==
    /\ u.scheduled > 0
    /\ http.posted = <<>>
    /\ LET s == GetCommonDataAsync([u |-> [u EXCEPT !.scheduled = @ - 1], h |-> http])
       IN  u' = s.u /\ http' = s.h

\* updateHttpClient: the destructor of the old client aborts its requests, which
\* is an answer.
UpdateHttpClient ==
    /\ \E result \in Results(Abort(http)) :
          LET s == [u |-> u, h |-> Abort(http)]
          IN  u' = (IF s.h.done = None THEN s ELSE OnDone(s, result)).u
    /\ http' = NewHttp

\* onConnectionDataChanged with setHostName and setPort, of which one at least
\* is told something new; the second finds a new client, without requests.
OnConnectionDataChanged == UpdateHttpClient

Step ==
    /\ ~u.gone
    /\ \/ EventLoop
       \/ SocketConnects
       \/ ConnectFails
       \/ ServerAnswers
       \/ ServerRefuses
       \/ ConnectionEnds
       \/ OnTimeout
       \/ OnStartRetrieval
       \/ OnConnectionDataChanged

Next == Step \/ Recreated

Spec == Init /\ [][Next]_vars

\* The event loop runs and its timers expire. Strong fairness for these: what is
\* posted in the meantime delays a timer that is due, and does not put it off for
\* ever. The server need not answer.
Fairness ==
    /\ WF_vars(~u.gone /\ EventLoop)
    /\ SF_vars(~u.gone /\ OnTimeout)
    /\ SF_vars(~u.gone /\ OnStartRetrieval)

FairSpec == Spec /\ Fairness

----------------------------------------------------------------------------
(* Properties.                                                             *)

Count(b) == IF b THEN 1 ELSE 0

\* Either the next retrieval is scheduled or a request is under way, and never
\* two of them: whatever becomes of connection and client, the loop goes on, and
\* the assertion in sendGetRequest (no request while another runs) holds.
OnePoll == u.scheduled + Count(u.mRequestType # None) = 1

\* The time limit runs exactly during requests: it covers each of them, also one
\* that waits behind a close that never ends, and aborts no later one.
TimerCovers == u.mTimeoutTimer <=> u.mRequestType # None

\* An answer is never taken for that of another request: not what was left of an
\* aborted one, nor what arrived before the request was sent again.
AnswersBelong == ~u.mixed

\* Every request ends, within its time limit, and the next one follows.
PollingGoesOn == []<>(u.scheduled > 0 \/ u.gone)

\* As qhttp.cpp has it of close(), a request that was started gets finished: a
\* client with requests waits for the event loop or the server. (A close that
\* finds its connection closed does not finish, and what follows it waits.)
NoRequestStalls ==
    http.pending # <<>> => \/ http.posted # <<>>
                           \/ http.state \in {"Connecting", "Sending", "Reading"}
=============================================================================
