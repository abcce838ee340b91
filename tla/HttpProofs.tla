----------------------------- MODULE HttpProofs -----------------------------
(***************************************************************************)
(* Theorems about the HTTP side of a Fronius inverter: SolarApiUpdater     *)
(* with its client QHttp, and QRingBuffer.                                 *)
(*                                                                         *)
(* Whatever the client does, one poll is outstanding or scheduled, and its *)
(* time limit runs exactly while it is outstanding: for this the client is *)
(* left open. That an answer is never taken for that of another request is *)
(* about the client: its requests, posted slots and connection always form *)
(* one of the shapes of Serves, which tells what it does for the updater's *)
(* request type.                                                           *)
(*                                                                         *)
(* The ring buffer implements ByteQueue. The invariant is Ring: the        *)
(* positions fit the blocks, the parts of the blocks that count are        *)
(* written bytes, bufferSize of them, and only one block can be empty.     *)
(* Each operation keeps it and takes from the front of Content what it     *)
(* returns, or adds to it. Loops over blocks are reasoned about by the     *)
(* least counterexample.                                                   *)
(***************************************************************************)
EXTENDS SolarApiUpdater, QRingBuffer, SequenceTheorems, WellFoundedInduction, TLAPS

----------------------------------------------------------------------------
(* The updater and its client.                                             *)

\* OnePoll, TimerCovers and the type, of a record of members.
Polls(v)  == v.scheduled + Count(v.mRequestType # None) = 1
Covers(v) == v.mTimeoutTimer <=> v.mRequestType # None
Fine(v)   == v \in UpdaterType /\ Polls(v) /\ Covers(v)

\* Between the end of a request and what follows, nothing is under way.
Between(v) ==
    /\ v \in UpdaterType
    /\ v.scheduled = 0
    /\ v.mRequestType = None
    /\ v.mTimeoutTimer = FALSE

Pair(v, h) == [u |-> v, h |-> h]

\* After the end of a poll's request, which left v and h, the pair t waits for the
\* next retrieval, or a good answer is followed by the request for the phases.
Follows(t, v, h, result) ==
    /\ Fine(t.u) /\ t.u.mixed = v.mixed
    /\ \/ t.u.mRequestType = None /\ t.h = h
       \/ /\ result = "NoError" /\ t.u.mRequestType = "getThreePhases"
          /\ t.h = AddGet(h, "getThreePhases")

\* A handler replaces one part of a pair.
LEMMA PairUpdate ==
    \A v, h, w : /\ [Pair(v, h) EXCEPT !.u = w] = Pair(w, h)
                 /\ [Pair(v, h) EXCEPT !.h = w] = Pair(v, w)
  BY DEF Pair

----------------------------------------------------------------------------
(* The steps of the handlers, on pairs.                                    *)

\* A request is sent when none is under way.
LEMMA SendFine ==
    ASSUME NEW v, NEW h, NEW kind \in Kinds, Between(v)
    PROVE  LET t == SendGetRequest(Pair(v, h), kind)
           IN  /\ Fine(t.u) /\ t.u.mixed = v.mixed
               /\ t.u.mRequestType = kind /\ t.h = AddGet(h, kind)
<1> DEFINE w == [v EXCEPT !.mRequestType = kind, !.mTimeoutTimer = TRUE]
<1>1. SendGetRequest(Pair(v, h), kind).u = w
  BY DEF SendGetRequest, Pair, Between, UpdaterType
<1>6. SendGetRequest(Pair(v, h), kind).h = AddGet(h, kind) /\ w.mixed = v.mixed
  BY DEF SendGetRequest, Pair, Between, UpdaterType
<1>2. kind # None
  BY DEF Kinds, None
<1>3. w \in UpdaterType
  BY DEF Between, UpdaterType
<1>4. w.scheduled = 0 /\ w.mRequestType = kind /\ w.mTimeoutTimer = TRUE
  BY DEF Between, UpdaterType
<1>5. Polls(w) /\ Covers(w)
  BY <1>2, <1>4 DEF Polls, Covers, Count
<1> QED BY <1>1, <1>3, <1>4, <1>5, <1>6 DEF Fine

\* The next retrieval is scheduled when nothing is under way.
LEMMA ScheduleFine ==
    ASSUME NEW v, NEW h, Between(v)
    PROVE  LET t == ScheduleRetrieval(Pair(v, h))
           IN  /\ Fine(t.u) /\ t.u.mixed = v.mixed
               /\ t.u.mRequestType = None /\ t.h = h
<1> DEFINE w == [v EXCEPT !.scheduled = @ + 1]
<1>1. ScheduleRetrieval(Pair(v, h)).u = w /\ ScheduleRetrieval(Pair(v, h)).h = h
  BY DEF ScheduleRetrieval, Pair
<1>2. w \in UpdaterType /\ w.scheduled = 1
  BY DEF Between, UpdaterType
<1>3. w.mRequestType = None /\ w.mTimeoutTimer = FALSE /\ w.mixed = v.mixed
  BY DEF Between, UpdaterType
<1>4. Polls(w) /\ Covers(w)
  BY <1>2, <1>3 DEF Polls, Covers, Count
<1> QED BY <1>1, <1>2, <1>3, <1>4 DEF Fine

\* An error is counted, and gives the inverter up when it is one too many.
LEMMA ErrorBetween ==
    ASSUME NEW v, NEW h, Between(v)
    PROVE  \E w : /\ HandleError(Pair(v, h)) = Pair(w, h) /\ Between(w)
                  /\ w.mixed = v.mixed
<1> DEFINE lost  == v.mRetryCount + 1 = MaxRetries
           count == IF lost THEN 0 ELSE v.mRetryCount + 1
           over  == v.gone \/ lost
           w     == [v EXCEPT !.mRetryCount = count, !.gone = over]
<1>1. HandleError(Pair(v, h)) = [Pair(v, h) EXCEPT !.u = w]
  BY DEF HandleError, Pair
<1>2. [Pair(v, h) EXCEPT !.u = w] = Pair(w, h)
  BY PairUpdate
<1>3. count \in 0..MaxRetries - 1
  BY DEF Between, UpdaterType, MaxRetries
<1>4. over \in BOOLEAN
  OBVIOUS
<1> HIDE DEF lost, count, over
<1>5. Between(w) /\ w.mixed = v.mixed
  BY <1>3, <1>4 DEF Between, UpdaterType
<1> QED BY <1>1, <1>2, <1>5

\* The end of a request stops its time limit.
LEMMA ReplyBetween ==
    ASSUME NEW v, NEW h, NEW error, Fine(v), v.mRequestType # None
    PROVE  \E w : /\ ProcessReply(Pair(v, h), error) =
                        Pair(w, IF error THEN h ELSE AddClose(ReadAll(h)))
                  /\ Between(w)
                  /\ error \/ h.rba \in {None, v.mRequestType} => w.mixed = v.mixed
<1> DEFINE t     == [v EXCEPT !.mRequestType = None, !.mTimeoutTimer = FALSE]
           other == v.mixed \/ h.rba \notin {None, v.mRequestType}
           g     == AddClose(ReadAll(h))
           w     == [t EXCEPT !.mixed = other]
<1>1. v \in UpdaterType /\ v.scheduled = 0
  BY DEF Fine, Polls, Count, UpdaterType
<1>2. other \in BOOLEAN
  OBVIOUS
<1>3. CASE error
  <2>1. ProcessReply(Pair(v, h), error) = [Pair(v, h) EXCEPT !.u = t]
    BY <1>3 DEF ProcessReply, Pair
  <2>2. [Pair(v, h) EXCEPT !.u = t] = Pair(t, h)
    BY PairUpdate
  <2>3. Between(t) /\ t.mixed = v.mixed
    BY <1>1 DEF Between, UpdaterType
  <2> QED BY <1>3, <2>1, <2>2, <2>3
<1>4. CASE ~error
  <2>1. ProcessReply(Pair(v, h), error) = [[Pair(v, h) EXCEPT !.u = t] EXCEPT !.h = g, !.u = w]
    BY <1>4 DEF ProcessReply, Pair
  <2>2. [Pair(v, h) EXCEPT !.u = t] = Pair(t, h)
    BY PairUpdate
  <2>6. h.rba \in {None, v.mRequestType} => other = v.mixed
    BY <1>1 DEF UpdaterType
  <2> HIDE DEF other, g
  <2>3. Between(w) /\ w.mixed = other
    BY <1>1, <1>2 DEF Between, UpdaterType
  <2> HIDE DEF t, w
  <2>4. [Pair(t, h) EXCEPT !.h = g] = Pair(t, g) /\ [Pair(t, g) EXCEPT !.u = w] = Pair(w, g)
    BY PairUpdate
  <2>5. ProcessReply(Pair(v, h), error) = Pair(w, g)
    BY <2>1, <2>2, <2>4, Zenon
  <2> QED BY <1>4, <2>3, <2>5, <2>6 DEF g
<1> QED BY <1>3, <1>4

\* A success clears the count of errors.
LEMMA ClearBetween ==
    ASSUME NEW v, NEW h, Between(v)
    PROVE  /\ [Pair(v, h) EXCEPT !.u.mRetryCount = 0] = Pair([v EXCEPT !.mRetryCount = 0], h)
           /\ Between([v EXCEPT !.mRetryCount = 0])
           /\ [v EXCEPT !.mRetryCount = 0].mixed = v.mixed
<1> DEFINE w == [v EXCEPT !.mRetryCount = 0]
<1>1. [Pair(v, h) EXCEPT !.u.mRetryCount = 0] = [Pair(v, h) EXCEPT !.u = w]
  BY DEF Pair
<1>2. [Pair(v, h) EXCEPT !.u = w] = Pair(w, h)
  BY PairUpdate
<1>3. Between(w) /\ w.mixed = v.mixed
  BY DEF Between, UpdaterType, MaxRetries
<1> QED BY <1>1, <1>2, <1>3

\* The first good answer initializes the inverter.
LEMMA InitializedBetween ==
    ASSUME NEW v, NEW h, Between(v)
    PROVE  /\ [Pair(v, h) EXCEPT !.u.mInitialized = TRUE] = Pair([v EXCEPT !.mInitialized = TRUE], h)
           /\ Between([v EXCEPT !.mInitialized = TRUE])
           /\ [v EXCEPT !.mInitialized = TRUE].mixed = v.mixed
<1> DEFINE w == [v EXCEPT !.mInitialized = TRUE]
<1>1. [Pair(v, h) EXCEPT !.u.mInitialized = TRUE] = [Pair(v, h) EXCEPT !.u = w]
  <2>1. \A x : [Pair(v, h) EXCEPT !.u.mInitialized = x] =
                  [Pair(v, h) EXCEPT !.u = [v EXCEPT !.mInitialized = x]]
    BY DEF Pair
  <2> QED BY <2>1, Zenon
<1>2. Between(w) /\ w.mixed = v.mixed
  BY DEF Between, UpdaterType
<1> HIDE DEF w
<1>3. [Pair(v, h) EXCEPT !.u = w] = Pair(w, h)
  BY PairUpdate
<1> QED BY <1>1, <1>2, <1>3 DEF w

----------------------------------------------------------------------------
(* The answers.                                                            *)

\* The first answer of a poll ends it, or asks for the second.
LEMMA CommonDataFine ==
    ASSUME NEW v, NEW h, NEW result, Between(v)
    PROVE  Follows(OnCommonDataFound(Pair(v, h), result), v, h, result)
<1> DEFINE c == [v EXCEPT !.mRetryCount = 0]
           i == [c EXCEPT !.mInitialized = TRUE]
<1>1. CASE result # "NoError"
  <2>1. PICK w : HandleError(Pair(v, h)) = Pair(w, h) /\ Between(w) /\ w.mixed = v.mixed
    BY ErrorBetween
  <2> QED BY <1>1, <2>1, ScheduleFine DEF OnCommonDataFound, Follows
<1>2. CASE result = "NoError"
  <2>1. /\ [Pair(v, h) EXCEPT !.u.mRetryCount = 0] = Pair(c, h)
        /\ Between(c) /\ c.mixed = v.mixed
    BY ClearBetween
  <2>2. /\ [Pair(c, h) EXCEPT !.u.mInitialized = TRUE] = Pair(i, h)
        /\ Between(i) /\ i.mixed = v.mixed
    BY <2>1, InitializedBetween
  <2> HIDE DEF c, i
  <2>3. Follows(GetThreePhasesAsync(Pair(c, h)), v, h, result)
    BY <1>2, <2>1, SendFine DEF GetThreePhasesAsync, Kinds, Follows
  <2>4. Follows(ScheduleRetrieval(Pair(i, h)), v, h, result)
    BY <2>2, ScheduleFine DEF Follows
  <2>5. OnCommonDataFound(Pair(v, h), result) \in
          {GetThreePhasesAsync(Pair(c, h)), ScheduleRetrieval(Pair(i, h))}
    BY <1>2, <2>1, <2>2 DEF OnCommonDataFound
  <2> QED BY <2>3, <2>4, <2>5
<1> QED BY <1>1, <1>2

\* The second answer of a poll ends it.
LEMMA ThreePhasesFine ==
    ASSUME NEW v, NEW h, NEW result, Between(v)
    PROVE  Follows(OnThreePhasesDataFound(Pair(v, h), result), v, h, result)
<1> DEFINE c == [v EXCEPT !.mRetryCount = 0]
           i == [c EXCEPT !.mInitialized = TRUE]
<1>1. CASE result # "NoError"
  <2>1. PICK w : HandleError(Pair(v, h)) = Pair(w, h) /\ Between(w) /\ w.mixed = v.mixed
    BY ErrorBetween
  <2> QED BY <1>1, <2>1, ScheduleFine DEF OnThreePhasesDataFound, Follows
<1>2. CASE result = "NoError"
  <2>1. /\ [Pair(v, h) EXCEPT !.u.mRetryCount = 0] = Pair(c, h)
        /\ Between(c) /\ c.mixed = v.mixed
    BY ClearBetween
  <2>2. /\ [Pair(c, h) EXCEPT !.u.mInitialized = TRUE] = Pair(i, h)
        /\ Between(i) /\ i.mixed = v.mixed
    BY <2>1, InitializedBetween
  <2>3. [Pair(v, h) EXCEPT !.u.mRetryCount = 0, !.u.mInitialized = TRUE] =
           [[Pair(v, h) EXCEPT !.u.mRetryCount = 0] EXCEPT !.u.mInitialized = TRUE]
    OBVIOUS
  <2> HIDE DEF c, i
  <2>4. Follows(ScheduleRetrieval(Pair(i, h)), v, h, result)
    BY <2>2, ScheduleFine DEF Follows
  <2>5. OnThreePhasesDataFound(Pair(v, h), result) = ScheduleRetrieval(Pair(i, h))
    BY <1>2, <2>1, <2>2, <2>3 DEF OnThreePhasesDataFound
  <2> QED BY <2>4, <2>5
<1> QED BY <1>1, <1>2

\* Whatever done() reports about the client, the poll stays fine: it goes on with the
\* client as it is after an error, and with its connection being closed after an
\* answer.
LEMMA DoneFine ==
    ASSUME NEW v, NEW h, NEW result, Fine(v)
    PROVE  LET t == OnDone(Pair(v, h), result)
               g == [h EXCEPT !.done = None]
               k == IF h.done = "error" THEN g ELSE AddClose(ReadAll(g))
           IN  /\ Fine(t.u)
               /\ v.mRequestType = None => t = Pair(v, g)
               /\ v.mRequestType # None =>
                     \E w : /\ Follows(t, w, k, result)
                            /\ (h.done = "error" \/ g.rba \in {None, v.mRequestType}) =>
                                 w.mixed = v.mixed
<1> DEFINE error == h.done = "error"
           g     == [h EXCEPT !.done = None]
           t     == Pair(v, g)
           k     == IF error THEN g ELSE AddClose(ReadAll(g))
<1>1. [Pair(v, h) EXCEPT !.h.done = None] = t
  <2>1. [Pair(v, h) EXCEPT !.h.done = None] = [Pair(v, h) EXCEPT !.h = g]
    BY DEF Pair
  <2>2. [Pair(v, h) EXCEPT !.h = g] = Pair(v, g)
    BY PairUpdate
  <2> QED BY <2>1, <2>2
<1>2. Pair(v, h).u = v /\ Pair(v, h).h = h /\ t.u = v
  BY DEF Pair
<1>3. v.mRequestType \in {None, "getCommonData", "getThreePhases"}
  BY DEF Fine, UpdaterType, Kinds
<1> HIDE DEF g, error
<1>4. CASE v.mRequestType = None
  <2>1. OnDone(Pair(v, h), result) = t
    BY <1>1, <1>2, <1>4 DEF OnDone, None
  <2> QED BY <1>2, <1>4, <2>1 DEF g
<1>5. CASE v.mRequestType = "getCommonData"
  <2>1. v.mRequestType # None
    BY <1>5 DEF None
  <2>2. OnDone(Pair(v, h), result) = ProcessCommonData(t, error, result)
    BY <1>1, <1>2, <1>5, <2>1 DEF OnDone, error
  <2>3. PICK w : /\ ProcessReply(t, error) = Pair(w, k) /\ Between(w)
                 /\ error \/ g.rba \in {None, v.mRequestType} => w.mixed = v.mixed
    BY <2>1, ReplyBetween
  <2>4. Follows(OnDone(Pair(v, h), result), w, k, result)
    BY <2>2, <2>3, CommonDataFine DEF ProcessCommonData
  <2> QED BY <2>1, <2>3, <2>4 DEF Follows, g, error
<1>6. CASE v.mRequestType = "getThreePhases"
  <2>1. v.mRequestType # None
    BY <1>6 DEF None
  <2>2. OnDone(Pair(v, h), result) = ProcessThreePhasesData(t, error, result)
    BY <1>1, <1>2, <1>6, <2>1 DEF OnDone, error
  <2>3. PICK w : /\ ProcessReply(t, error) = Pair(w, k) /\ Between(w)
                 /\ error \/ g.rba \in {None, v.mRequestType} => w.mixed = v.mixed
    BY <2>1, ReplyBetween
  <2>4. Follows(OnDone(Pair(v, h), result), w, k, result)
    BY <2>2, <2>3, ThreePhasesFine DEF ProcessThreePhasesData
  <2> QED BY <2>1, <2>3, <2>4 DEF Follows, g, error
<1> QED BY <1>3, <1>4, <1>5, <1>6

\* Whatever the HTTP client tells the API keeps the invariant.
LEMMA HandledFine ==
    ASSUME NEW h, Fine(u), Handled(h)
    PROVE  Fine(u')
<1>1. PICK result : u' = (IF h.done = None THEN Pair(u, h) ELSE OnDone(Pair(u, h), result)).u
  BY DEF Handled, Pair
<1>2. Pair(u, h).u = u
  BY DEF Pair
<1> QED BY <1>1, <1>2, DoneFine

----------------------------------------------------------------------------
(* The inductive invariant.                                                *)

\* The constructor sends the first request.
LEMMA ConstructedFine ==
    ASSUME NEW multi \in BOOLEAN
    PROVE  Fine(Constructed(multi).u)
<1>1. Between(NewUpdater(multi))
  BY DEF Between, NewUpdater, UpdaterType, MaxRetries
<1>2. Constructed(multi) = SendGetRequest(Pair(NewUpdater(multi), NewHttp), "getCommonData")
  BY DEF Constructed, GetCommonDataAsync, Pair
<1> QED BY <1>1, <1>2, SendFine DEF Kinds

IInv == Fine(u)

\* The updater begins with its first poll.
LEMMA InitFine == Init => IInv
  BY ConstructedFine DEF Init, IInv

\* Every action keeps the invariant.
LEMMA NextFine == IInv /\ [Next]_vars => IInv'
<1> SUFFICES ASSUME Fine(u), [Next]_vars PROVE Fine(u')
  BY DEF IInv
<1>1. CASE Recreated
  BY <1>1, ConstructedFine DEF Recreated
<1>2. CASE EventLoop \/ SocketConnects \/ ConnectFails \/ ServerAnswers
             \/ ServerRefuses \/ ConnectionEnds \/ OnTimeout
  BY <1>2, HandledFine DEF EventLoop, SocketConnects, ConnectFails, ServerAnswers,
       ServerRefuses, ConnectionEnds, OnTimeout
<1>3. CASE OnStartRetrieval
  <2> DEFINE v == [u EXCEPT !.scheduled = @ - 1]
  <2>1. u.scheduled = 1 /\ u.mRequestType = None /\ u.mTimeoutTimer = FALSE /\ u \in UpdaterType
    BY <1>3 DEF OnStartRetrieval, Fine, Polls, Covers, Count, UpdaterType
  <2>2. Between(v)
    BY <2>1 DEF Between, UpdaterType
  <2>3. u' = SendGetRequest(Pair(v, http), "getCommonData").u
    BY <1>3 DEF OnStartRetrieval, GetCommonDataAsync, Pair
  <2> QED BY <2>2, <2>3, SendFine DEF Kinds
<1>4. CASE OnConnectionDataChanged
  <2>1. PICK result :
          u' = (IF Abort(http).done = None THEN Pair(u, Abort(http))
                ELSE OnDone(Pair(u, Abort(http)), result)).u
    BY <1>4 DEF OnConnectionDataChanged, UpdateHttpClient, Pair
  <2>2. Pair(u, Abort(http)).u = u
    BY DEF Pair
  <2> QED BY <2>1, <2>2, DoneFine
<1>5. CASE UNCHANGED vars
  BY <1>5 DEF vars
<1> QED BY <1>1, <1>2, <1>3, <1>4, <1>5 DEF Next, Step

\* The invariant holds throughout.
LEMMA Invariance == Spec => []IInv
  BY InitFine, NextFine, PTL DEF Spec

----------------------------------------------------------------------------
(* What the HTTP client does for the poll.                                 *)

\* The members that tell about the connection agree.
Link(h) ==
    /\ h.state \in {"Unconnected", "Closing"} => h.socket = "Unconnected" /\ ~h.open
    /\ h.state = "Connecting" => h.socket = "Connecting" /\ h.open
    /\ h.state \in {"Sending", "Reading", "Connected"} => h.socket = "Connected" /\ h.open

Line(h) == Link(h) /\ (h.asked => h.state \in {"Sending", "Reading"})

\* The get request k is executed: what has been read answers it.
Started(h, k) ==
    /\ h.pending = <<k>> /\ h.header = k /\ h.rba \in {None, k}
    /\ \/ h.state \in {"Connecting", "Sending", "Reading"} /\ h.posted = <<>>
       \/ h.state = "Connected" /\ h.posted = <<"DoFinished">>
       \/ h.state = "Closing" /\ h.posted \in {<<"DoFinished">>, <<"DoFinished", "DoFinished">>}
       \/ h.state = "Unconnected" /\ h.posted = <<"SendRequest">>
    /\ h.state # "Closing" => h.reconnectAttempts >= 0

\* It is to be started, and no request before it will finish.
Unstarted(h, k) ==
    /\ h.pending = <<k>>
    /\ \/ h.state \in {"Unconnected", "Closing"} /\ h.posted = <<"StartNextRequest">>
       \/ h.state = "Unconnected" /\ h.posted = <<"DoFinished", "StartNextRequest">>

\* The requests are those of q, of which the first closes the connection.
Closes(h, q) ==
    /\ h.pending = q /\ h.rba = None
    /\ \/ /\ h.state = "Unconnected"
          /\ h.posted \in {<<>>, <<"StartNextRequest">>, <<"DoFinished", "StartNextRequest">>}
       \/ /\ h.state = "Closing"
          /\ h.posted \in {<<"DoFinished">>, <<"StartNextRequest", "DoFinished">>}
       \/ h.state = "Connected" /\ h.posted = <<"StartNextRequest">>

\* There is no request.
Idle(h) ==
    /\ h.pending = <<>>
    /\ h.state \in {"Unconnected", "Closing"}
    /\ h.posted \in {<<>>, <<"DoFinished">>}

\* What the client does for the request type r of the API.
Serves(h, r) ==
    \/ r = None /\ (Idle(h) \/ Closes(h, <<Close>>))
    \/ r \in Kinds /\ (Started(h, r) \/ Unstarted(h, r) \/ Closes(h, <<Close, r>>))

\* The client h has news for the request type r: none, or done has been signalled.
News(h, r) ==
    /\ h \in HttpType(Kinds)
    /\ Line(h)
    /\ \/ h.done = None /\ Serves(h, r)
       \/ h.done = "error" /\ Idle(h)
       \/ h.done = "success" /\ r = None /\ Idle(h)
       \/ /\ h.done = "success" /\ r \in Kinds
          /\ h.pending = <<>> /\ h.rba \in {None, r}
          /\ \/ h.state = "Connected" /\ h.posted = <<>>
             \/ h.state = "Unconnected" /\ h.posted \in {<<>>, <<"DoFinished">>}

----------------------------------------------------------------------------
(* Facts about short sequences and the ends of connections.                *)

\* Append, by the elements of its value.
LEMMA AppendIs ==
    ASSUME NEW S, NEW p \in Seq(S), NEW y \in S
    PROVE  /\ Append(p, y) \in Seq(S) /\ Len(Append(p, y)) = Len(p) + 1
           /\ \A i \in 1..Len(p) : Append(p, y)[i] = p[i]
           /\ Append(p, y)[Len(p) + 1] = y
  OBVIOUS

\* A second element.
LEMMA AppendOne ==
    ASSUME NEW x, NEW y
    PROVE  Append(<<x>>, y) = <<x, y>>
<1> DEFINE p == <<x>>
           S == {x, y}
           q == Append(p, y)
<1>1. p \in Seq(S) /\ y \in S /\ Len(p) = 1 /\ p[1] = x
  OBVIOUS
<1> HIDE DEF S, p
<1>2. /\ q \in Seq(S) /\ Len(q) = Len(p) + 1
      /\ \A i \in 1..Len(p) : q[i] = p[i]
      /\ q[Len(p) + 1] = y
  BY <1>1, AppendIs
<1> HIDE DEF q
<1>3. q \in Seq(S) /\ Len(q) = 2 /\ q[1] = x /\ q[2] = y
  BY <1>1, <1>2
<1>4. q = <<q[1], q[2]>>
  BY <1>3
<1> QED BY <1>3, <1>4 DEF q, p

\* Sequences of one and two elements.
LEMMA Short ==
    /\ Len(<<>>) = 0
    /\ \A x : /\ Append(<<>>, x) = <<x>> /\ Tail(<<x>>) = <<>>
              /\ Head(<<x>>) = x /\ Len(<<x>>) = 1 /\ <<x>> # <<>>
    /\ \A x, y : /\ Append(<<x>>, y) = <<x, y>> /\ Tail(<<x, y>>) = <<y>>
                 /\ Head(<<x, y>>) = x /\ Len(<<x, y>>) = 2 /\ <<x, y>> # <<>>
                 /\ \A z : <<x, y>> # <<z>>
<1>1. ASSUME NEW x, NEW y PROVE Tail(<<x, y>>) = <<y>>
  <2> DEFINE q == <<x, y>>
             t == Tail(q)
  <2>1. q \in Seq({x, y}) /\ Len(q) = 2 /\ q[2] = y /\ q # <<>>
    OBVIOUS
  <2> HIDE DEF q
  <2>2. t \in Seq({x, y}) /\ Len(t) = 1 /\ t[1] = y
    BY <2>1
  <2> HIDE DEF t
  <2>3. t = <<t[1]>>
    BY <2>2
  <2> QED BY <2>2, <2>3 DEF t, q
<1>2. ASSUME NEW x
      PROVE  /\ Append(<<>>, x) = <<x>> /\ Tail(<<x>>) = <<>>
             /\ Head(<<x>>) = x /\ Len(<<x>>) = 1 /\ <<x>> # <<>>
  <2>1. \A z : Append(<<>>, z) = <<z>>
    OBVIOUS
  <2>2. \A z : Tail(<<z>>) = <<>>
    OBVIOUS
  <2>3. Head(<<x>>) = x /\ Len(<<x>>) = 1 /\ <<x>> # <<>>
    OBVIOUS
  <2> QED BY <2>1, <2>2, <2>3
<1>3. \A x, y : Head(<<x, y>>) = x /\ Len(<<x, y>>) = 2 /\ <<x, y>> # <<>>
  OBVIOUS
<1>4. \A x, y, z : <<x, y>> # <<z>>
  OBVIOUS
<1>5. Len(<<>>) = 0
  OBVIOUS
<1> QED BY <1>1, <1>2, <1>3, <1>4, <1>5, AppendOne

\* The kinds of requests.
LEMMA KindsAre == \A k \in Kinds : k # None /\ k # Close
  BY DEF Kinds, None, Close

Slot == {"StartNextRequest", "SendRequest", "DoFinished"}

\* The client h with its connection closed and the slots p posted.
Closed(h, p) ==
    [h EXCEPT !.state = "Closing", !.socket = "Unconnected", !.open = FALSE,
              !.asked = FALSE, !.posted = p]

\* Its members.
LEMMA ClosedIs ==
    ASSUME NEW h \in HttpType(Kinds), NEW p \in Seq(Slot)
    PROVE  /\ Closed(h, p) \in HttpType(Kinds)
           /\ Line(Closed(h, p))
           /\ Closed(h, p).state = "Closing" /\ Closed(h, p).posted = p
           /\ Closed(h, p).pending = h.pending /\ Closed(h, p).header = h.header
           /\ Closed(h, p).rba = h.rba /\ Closed(h, p).done = h.done
  BY DEF Closed, HttpType, State, Slot, Line, Link

\* closeConn leaves a client alone whose connection is closed or closing, and
\* else has it closed: at once, and with news if the socket was connected.
LEMMA CloseConnIs ==
    ASSUME NEW h \in HttpType(Kinds)
    PROVE  /\ h.state \in {"Closing", "Unconnected"} => CloseConn(h) = h
           /\ h.state \notin {"Closing", "Unconnected"} /\ h.open =>
                 CloseConn(h) = Closed(h, IF h.socket = "Connected"
                                          THEN Append(h.posted, "DoFinished")
                                          ELSE h.posted)
<1>1. CASE h.state \in {"Closing", "Unconnected"}
  BY <1>1 DEF CloseConn
<1>2. CASE h.state \notin {"Closing", "Unconnected"} /\ h.open
  <2>1. CASE h.socket = "Connected"
    BY <1>2, <2>1 DEF CloseConn, HttpType, Closed, SocketClosed, SocketClosedQuietly,
         SlotClosed, Post
  <2>2. CASE h.socket # "Connected"
    BY <1>2, <2>2 DEF CloseConn, HttpType, Closed, SocketClosed, SocketClosedQuietly
  <2> QED BY <1>2, <2>1, <2>2
<1> QED BY <1>1, <1>2

\* A sequence of slots.
LEMMA SlotsAre ==
    /\ <<>> \in Seq(Slot)
    /\ \A x \in Slot : <<x>> \in Seq(Slot)
    /\ \A x, y \in Slot : <<x, y>> \in Seq(Slot)
    /\ {"StartNextRequest", "SendRequest", "DoFinished"} \subseteq Slot
  BY DEF Slot

\* abort of a client whose slots have run, or are no more than that of the end.
LEMMA AbortIs ==
    ASSUME NEW h, NEW r, News(h, r), h.done = None
    PROVE  /\ h.pending = <<>> => Abort(h) = h
           /\ h.pending # <<>> => Abort(h).done = "error"
           /\ h.pending # <<>> /\ h.posted = <<>> => News(Abort(h), r)
<1>1. h \in HttpType(Kinds) /\ Line(h) /\ Link(h) /\ Serves(h, r)
  BY DEF News, Line, None
<1>2. h.pending = <<>> => Abort(h) = h
  BY DEF Abort
<1> DEFINE e == [h EXCEPT !.pending = <<>>, !.done = "error"]
           c == SocketClosed(e)
<1>3. ASSUME h.pending # <<>>
      PROVE  Abort(h) = CloseConn(c)
  <2>1. FinishedWithError(h) = e
    BY <1>3 DEF FinishedWithError
  <2>2. e.pending = <<>> /\ ClearPendingRequests(e) = e
    BY <1>1 DEF ClearPendingRequests, HttpType
  <2> HIDE DEF e
  <2> QED BY <1>3, <2>1, <2>2 DEF Abort
<1>4. /\ e \in HttpType(Kinds) /\ Link(e)
      /\ e.pending = <<>> /\ e.done = "error"
      /\ e.state = h.state /\ e.posted = h.posted /\ e.socket = h.socket
  <2>1. <<>> \in Seq(Kinds \cup {Close})
    OBVIOUS
  <2>2. e \in HttpType(Kinds)
    BY <1>1, <2>1 DEF HttpType
  <2>3. e.pending = <<>> /\ e.done = "error"
    BY <1>1 DEF HttpType
  <2>4. e.state = h.state /\ e.posted = h.posted /\ e.socket = h.socket /\ e.open = h.open
    BY <1>1 DEF HttpType
  <2> HIDE DEF e
  <2>5. Link(e)
    BY <1>1, <2>4 DEF Link
  <2> QED BY <2>2, <2>3, <2>4, <2>5
<1> HIDE DEF e
<1>5. CASE h.state \in {"Unconnected", "Closing"}
  <2>1. e.socket = "Unconnected"
    BY <1>4, <1>5 DEF Link
  <2>2. /\ c \in HttpType(Kinds) /\ c.state = e.state /\ c.pending = <<>>
        /\ c.done = "error" /\ c.posted = h.posted /\ Line(c)
    BY <1>4, <1>5, <2>1, ZenonT(30) DEF SocketClosed, SocketClosedQuietly, HttpType, Line, Link
  <2>3. CloseConn(c) = c
    BY <1>4, <1>5, <2>2 DEF CloseConn
  <2>4. h.posted = <<>> => Idle(c)
    BY <1>4, <1>5, <2>2 DEF Idle
  <2> HIDE DEF c
  <2> QED BY <1>2, <1>3, <2>2, <2>3, <2>4 DEF News
<1>6. CASE h.state \in {"Connecting"}
  <2>1. e.socket = "Connecting"
    BY <1>4, <1>6 DEF Link
  <2>2. c = [e EXCEPT !.socket = "Unconnected", !.open = FALSE, !.asked = FALSE]
    BY <2>1 DEF SocketClosed, SocketClosedQuietly
  <2>3. CloseConn(c) = Closed(e, Append(e.posted, "DoFinished"))
    BY <1>4, <1>6, <2>2 DEF CloseConn, Post, Closed, HttpType
  <2>4. e.posted \in Seq(Slot) /\ Append(e.posted, "DoFinished") \in Seq(Slot)
    BY <1>4 DEF HttpType, Slot
  <2> HIDE DEF c
  <2>5. h.posted = <<>> => Append(e.posted, "DoFinished") = <<"DoFinished">>
    BY <1>4, Short
  <2> DEFINE d == Closed(e, Append(e.posted, "DoFinished"))
  <2>6. /\ d \in HttpType(Kinds) /\ Line(d) /\ d.done = "error"
        /\ h.posted = <<>> => Idle(d)
    BY <1>4, <2>4, <2>5, ClosedIs DEF Idle
  <2> HIDE DEF d
  <2> QED BY <1>2, <1>3, <2>3, <2>6 DEF News, d
<1>7. CASE h.state \in {"Sending", "Reading", "Connected"}
  <2>1. e.socket = "Connected"
    BY <1>4, <1>7 DEF Link
  <2>2. c = Closed(e, Append(e.posted, "DoFinished"))
    <3> DEFINE q == [e EXCEPT !.socket = "Unconnected", !.open = FALSE, !.asked = FALSE]
    <3>1. c = SlotClosed(q)
      BY <2>1 DEF SocketClosed, SocketClosedQuietly
    <3>2. q.pending = <<>>
      BY <1>4 DEF HttpType
    <3>3. FinishedWithError(q) = q
      BY <3>2 DEF FinishedWithError
    <3>4. SlotClosed(q) = Post([q EXCEPT !.state = "Closing"], "DoFinished")
      <4> HIDE DEF q
      <4> QED BY <3>3 DEF SlotClosed
    <3>5. Post([q EXCEPT !.state = "Closing"], "DoFinished") = Closed(e, Append(e.posted, "DoFinished"))
      BY <1>4 DEF Post, Closed, HttpType
    <3> QED BY <3>1, <3>4, <3>5
  <2>3. e.posted \in Seq(Slot) /\ Append(e.posted, "DoFinished") \in Seq(Slot)
    BY <1>4 DEF HttpType, Slot
  <2> HIDE DEF c
  <2>4. h.posted = <<>> => Append(e.posted, "DoFinished") = <<"DoFinished">>
    BY <1>4, Short
  <2>5. /\ c \in HttpType(Kinds) /\ Line(c) /\ c.done = "error" /\ c.state = "Closing"
        /\ h.posted = <<>> => Idle(c)
    BY <1>4, <2>2, <2>3, <2>4, ClosedIs DEF Idle
  <2>6. CloseConn(c) = c
    BY <2>5 DEF CloseConn
  <2> QED BY <1>2, <1>3, <2>5, <2>6 DEF News
<1> QED BY <1>1, <1>5, <1>6, <1>7 DEF HttpType, State

\* The first request is sent, over the connection or over a new one.
LEMMA SendRequestIs ==
    ASSUME NEW h \in HttpType(Kinds), h.done = None, NEW k \in Kinds,
           h.pending = <<k>>, h.header = k, h.rba \in {None, k},
           h.reconnectAttempts >= 0, h.posted = <<>>
    PROVE  /\ SendRequest(h) \in HttpType(Kinds)
           /\ SendRequest(h).done = None
           /\ Line(SendRequest(h)) \/ (h.socket = "Connected" /\ ~h.open)
           /\ Started(SendRequest(h), k)
<1> DEFINE a == IF h.method = None THEN h ELSE [h EXCEPT !.phase = "Done"]
<1>1. /\ a \in HttpType(Kinds) /\ a.done = None /\ a.socket = h.socket
      /\ a.open = h.open
      /\ a.pending = <<k>> /\ a.header = k /\ a.rba \in {None, k}
      /\ a.reconnectAttempts >= 0 /\ a.posted = <<>>
  BY DEF HttpType
<1>2. SendRequest(h) = IF a.socket = "Connected" THEN SlotConnected(a)
                       ELSE [SocketClosedQuietly(a) EXCEPT
                               !.state = "Connecting", !.socket = "Connecting", !.open = TRUE]
  BY DEF SendRequest, HttpType
<1> HIDE DEF a
<1>3. CASE a.socket = "Connected"
  <2> DEFINE d == SlotConnected(a)
  <2>1. /\ d \in HttpType(Kinds) /\ d.done = None /\ d.state = "Sending"
        /\ d.socket = "Connected" /\ d.open = a.open
        /\ d.pending = <<k>> /\ d.header = k /\ d.rba \in {None, k}
        /\ d.reconnectAttempts >= 0 /\ d.posted = <<>>
    BY <1>1, <1>3 DEF SlotConnected, HttpType, State
  <2> HIDE DEF d
  <2>2. Started(d, k)
    BY <2>1 DEF Started
  <2>3. Line(d) \/ ~h.open
    BY <1>1, <2>1 DEF Line, Link
  <2> QED BY <1>1, <1>2, <1>3, <2>1, <2>2, <2>3 DEF d
<1>4. CASE a.socket # "Connected"
  <2> DEFINE d == [SocketClosedQuietly(a) EXCEPT
                     !.state = "Connecting", !.socket = "Connecting", !.open = TRUE]
  <2>a. d \in HttpType(Kinds)
    BY <1>1, ZenonT(30) DEF SocketClosedQuietly, HttpType, State
  <2>b. /\ d.done = None /\ d.state = "Connecting" /\ d.socket = "Connecting" /\ d.open
        /\ d.asked = FALSE
    BY <1>1 DEF SocketClosedQuietly, HttpType
  <2>c. /\ d.pending = <<k>> /\ d.header = k /\ d.rba \in {None, k}
        /\ d.reconnectAttempts >= 0 /\ d.posted = <<>>
    BY <1>1 DEF SocketClosedQuietly, HttpType
  <2>1. /\ d \in HttpType(Kinds) /\ d.done = None /\ d.state = "Connecting"
        /\ Line(d)
        /\ d.pending = <<k>> /\ d.header = k /\ d.rba \in {None, k}
        /\ d.reconnectAttempts >= 0 /\ d.posted = <<>>
    <3> HIDE DEF d
    <3> QED BY <2>a, <2>b, <2>c DEF Line, Link
  <2> HIDE DEF d
  <2>2. Started(d, k)
    BY <2>1 DEF Started
  <2> QED BY <1>2, <1>4, <2>1, <2>2 DEF d
<1> QED BY <1>3, <1>4

----------------------------------------------------------------------------
(* What the socket tells.                                                  *)

\* A request that is given up with all others, and its connection closed: there is
\* an error.
LEMMA GivenUp ==
    ASSUME NEW h \in HttpType(Kinds), NEW r, h.pending # <<>>, h.posted = <<>>,
           h.open, h.state \notin {"Closing", "Unconnected"}
    PROVE  LET d == CloseConn(FinishedWithError(h))
           IN  News(d, r) /\ d.socket = "Unconnected"
<1> DEFINE e == [h EXCEPT !.pending = <<>>, !.done = "error"]
           p == IF e.socket = "Connected" THEN Append(e.posted, "DoFinished") ELSE e.posted
           d == Closed(e, p)
<1>1. FinishedWithError(h) = e
  BY DEF FinishedWithError
<1>2. e \in HttpType(Kinds)
  <2>1. <<>> \in Seq(Kinds \cup {Close})
    OBVIOUS
  <2> QED BY <2>1 DEF HttpType
<1>3. /\ e.pending = <<>> /\ e.done = "error" /\ e.posted = <<>> /\ e.state = h.state
      /\ e.open = h.open
  BY DEF HttpType
<1> HIDE DEF e
<1>4. CloseConn(e) = d
  BY <1>2, <1>3, CloseConnIs
<1>5. p \in {<<>>, <<"DoFinished">>} /\ p \in Seq(Slot)
  BY <1>3, Short, SlotsAre
<1> HIDE DEF p
<1>6. /\ d \in HttpType(Kinds) /\ Line(d) /\ d.state = "Closing" /\ d.posted = p
      /\ d.pending = <<>> /\ d.done = "error"
  BY <1>2, <1>3, <1>5, ClosedIs
<1>7. d.socket = "Unconnected"
  BY <1>2 DEF Closed, HttpType
<1> HIDE DEF d
<1> QED BY <1>1, <1>4, <1>5, <1>6, <1>7 DEF News, Idle

\* In the states of a connection the request under way is a get.
LEMMA UnderWay ==
    ASSUME NEW h, NEW r, News(h, r), h.done = None,
           h.state \in {"Connecting", "Sending", "Reading"}
    PROVE  /\ h \in HttpType(Kinds) /\ Line(h) /\ r \in Kinds /\ Started(h, r)
           /\ h.posted = <<>> /\ h.pending # <<>> /\ h.open
           /\ h.reconnectAttempts >= 0
<1>1. h \in HttpType(Kinds) /\ Line(h) /\ Serves(h, r)
  BY DEF News, None
<1>2. r \in Kinds /\ Started(h, r)
  BY <1>1, Short DEF Serves, Idle, Closes, Unstarted
<1> QED BY <1>1, <1>2, Short DEF Started, Line, Link

\* A get that is under way is no news.
LEMMA StartedNews ==
    ASSUME NEW h \in HttpType(Kinds), Line(h), h.done = None, NEW k \in Kinds, Started(h, k)
    PROVE  News(h, k)
  BY DEF News, Serves

\* The socket is connected: the request is written.
LEMMA ConnectsServes ==
    ASSUME NEW h, NEW r, News(h, r), h.done = None, h.socket = "Connecting"
    PROVE  News(SlotConnected([h EXCEPT !.socket = "Connected"]), r)
<1> DEFINE d == SlotConnected([h EXCEPT !.socket = "Connected"])
<1>1. h.state = "Connecting"
  BY DEF News, Line, Link, HttpType, State
<1>2. /\ h \in HttpType(Kinds) /\ Line(h) /\ r \in Kinds /\ Started(h, r)
      /\ h.posted = <<>> /\ h.open /\ h.reconnectAttempts >= 0
  BY <1>1, UnderWay
<1>3. d \in HttpType(Kinds)
  BY <1>2, ZenonT(30) DEF SlotConnected, HttpType, State
<1>4. /\ d.state = "Sending" /\ d.socket = "Connected" /\ d.open = h.open
      /\ d.pending = h.pending /\ d.header = h.header /\ d.rba = h.rba
      /\ d.posted = h.posted /\ d.done = h.done
      /\ d.reconnectAttempts = h.reconnectAttempts
  BY <1>2 DEF SlotConnected, HttpType
<1> HIDE DEF d
<1>5. Line(d)
  BY <1>2, <1>4 DEF Line, Link
<1>6. Started(d, r)
  BY <1>2, <1>4 DEF Started
<1>7. News(d, r)
  BY <1>2, <1>3, <1>4, <1>5, <1>6, StartedNews
<1> QED BY <1>7 DEF d

\* There is no connection: an error.
LEMMA ConnectFailsServes ==
    ASSUME NEW h, NEW r, News(h, r), h.done = None, h.socket = "Connecting"
    PROVE  News(SlotError([h EXCEPT !.socket = "Unconnected"], FALSE), r)
<1> DEFINE g == [h EXCEPT !.socket = "Unconnected"]
<1>1. h.state = "Connecting"
  BY DEF News, Line, Link, HttpType, State
<1>2. h \in HttpType(Kinds) /\ h.posted = <<>> /\ h.pending # <<>> /\ h.open
  BY <1>1, UnderWay
<1>3. g \in HttpType(Kinds)
  BY <1>2 DEF HttpType
<1>4. g.posted = <<>> /\ g.pending # <<>> /\ g.open /\ g.state = "Connecting"
  BY <1>1, <1>2 DEF HttpType
<1> HIDE DEF g
<1>5. SlotError(g, FALSE) = CloseConn(FinishedWithError(g))
  BY <1>4 DEF SlotError
<1> QED BY <1>3, <1>4, <1>5, GivenUp DEF g

\* Something is read only while a request is executed.
LEMMA ReadingIs ==
    ASSUME NEW h, NEW r, News(h, r), h.done = None, h.asked
    PROVE  /\ h \in HttpType(Kinds) /\ r \in Kinds /\ Started(h, r) /\ h.posted = <<>>
           /\ h.pending = <<r>> /\ h.header = r /\ h.rba \in {None, r}
           /\ h.reconnectAttempts >= 0 /\ h.state \in {"Sending", "Reading"}
           /\ h.socket = "Connected" /\ h.open /\ h.pending # <<>>
<1>1. h.state \in {"Sending", "Reading"} /\ Link(h)
  BY DEF News, Line
<1>2. h.socket = "Connected" /\ h.open
  BY <1>1 DEF Link
<1> QED BY <1>1, <1>2, UnderWay DEF Started

\* A part of the answer is read.
LEMMA ReadPartServes ==
    ASSUME NEW h, NEW r, News(h, r), h.done = None, h.asked, NEW sized \in BOOLEAN
    PROVE  News(ReadPart(h, sized), r)
<1> DEFINE isSized == IF h.state = "Reading" THEN h.sized ELSE sized
           d == [h EXCEPT !.state = "Reading", !.rba = h.header, !.sized = isSized]
<1>1. /\ h \in HttpType(Kinds) /\ r \in Kinds /\ Started(h, r) /\ h.posted = <<>>
      /\ h.pending = <<r>> /\ h.header = r /\ h.reconnectAttempts >= 0
      /\ h.socket = "Connected" /\ h.open
  BY ReadingIs
<1>2. isSized \in BOOLEAN
  BY <1>1 DEF HttpType
<1>3. ReadPart(h, sized) = d
  BY DEF ReadPart
<1> HIDE DEF isSized
<1>4. d \in HttpType(Kinds)
  BY <1>1, <1>2, ZenonT(30) DEF HttpType, State
<1>5. /\ d.state = "Reading" /\ d.socket = "Connected" /\ d.open = h.open
      /\ d.pending = <<r>> /\ d.header = r /\ d.rba = r /\ d.posted = <<>>
      /\ d.done = None /\ d.reconnectAttempts >= 0
  BY <1>1 DEF HttpType
<1> HIDE DEF d
<1>6. Line(d) /\ Started(d, r)
  BY <1>1, <1>5 DEF Line, Link, Started
<1> QED BY <1>1, <1>3, <1>4, <1>5, <1>6, StartedNews

\* The rest of it is read: the end is posted, by the answer or by closing.
LEMMA ReadRestServes ==
    ASSUME NEW h, NEW r, News(h, r), h.done = None, h.asked, NEW closes \in BOOLEAN
    PROVE  News(ReadRest(h, closes), r)
<1> DEFINE t == [h EXCEPT !.state = "Reading", !.rba = h.header, !.whole = TRUE,
                          !.asked = FALSE]
           c == Closed(t, <<"DoFinished">>)
           d == [h EXCEPT !.state = "Connected", !.rba = h.header, !.whole = TRUE,
                          !.asked = FALSE, !.posted = <<"DoFinished">>]
<1>1. /\ h \in HttpType(Kinds) /\ r \in Kinds /\ Started(h, r) /\ h.posted = <<>>
      /\ h.pending = <<r>> /\ h.header = r /\ h.reconnectAttempts >= 0
      /\ h.socket = "Connected" /\ h.open
  BY ReadingIs
<1>2. CASE closes
  <2>1. t \in HttpType(Kinds)
    BY <1>1 DEF HttpType, State
  <2>2. /\ t.state = "Reading" /\ t.socket = "Connected" /\ t.open /\ t.posted = <<>>
        /\ t.pending = <<r>> /\ t.header = r /\ t.rba = r /\ t.done = None
    BY <1>1 DEF HttpType
  <2>3. ReadRest(h, closes) = CloseConn(t)
    BY <1>2 DEF ReadRest
  <2> HIDE DEF t
  <2>4. CloseConn(t) = c
    BY <2>1, <2>2, CloseConnIs, Short
  <2>5. /\ c \in HttpType(Kinds) /\ Line(c) /\ c.state = "Closing"
        /\ c.posted = <<"DoFinished">>
        /\ c.pending = <<r>> /\ c.header = r /\ c.rba = r /\ c.done = None
    BY <2>1, <2>2, SlotsAre, ClosedIs
  <2> HIDE DEF c
  <2>6. Started(c, r)
    BY <2>5 DEF Started
  <2> QED BY <1>1, <2>3, <2>4, <2>5, <2>6, StartedNews
<1>3. CASE ~closes
  <2>1. ReadRest(h, closes) = d
    BY <1>1, <1>3, Short, ZenonT(30) DEF ReadRest, Post, HttpType
  <2>2. d \in HttpType(Kinds)
    BY <1>1, SlotsAre DEF HttpType, State, Slot
  <2>3. /\ d.state = "Connected" /\ d.socket = "Connected" /\ d.open = h.open
        /\ d.asked = FALSE
        /\ d.pending = <<r>> /\ d.header = r /\ d.rba = r /\ d.posted = <<"DoFinished">>
        /\ d.done = None /\ d.reconnectAttempts >= 0
    BY <1>1 DEF HttpType
  <2> HIDE DEF d
  <2>4. Line(d) /\ Started(d, r)
    BY <1>1, <2>3 DEF Line, Link, Started
  <2> QED BY <1>1, <2>1, <2>2, <2>3, <2>4, StartedNews
<1> QED BY <1>2, <1>3

\* Nonsense is read: an error.
LEMMA ReadInvalidServes ==
    ASSUME NEW h, NEW r, News(h, r), h.done = None, h.asked
    PROVE  News(ReadInvalid(h), r)
<1> DEFINE t == [h EXCEPT !.state = "Reading", !.asked = FALSE]
<1>1. h \in HttpType(Kinds) /\ h.posted = <<>> /\ h.pending # <<>> /\ h.open
  BY ReadingIs
<1>2. t \in HttpType(Kinds)
  BY <1>1, ZenonT(30) DEF HttpType, State
<1>3. t.posted = <<>> /\ t.pending # <<>> /\ t.open /\ t.state = "Reading"
  BY <1>1 DEF HttpType
<1> HIDE DEF t
<1> QED BY <1>2, <1>3, GivenUp DEF ReadInvalid, t

\* A socket closed quietly leaves a client.
LEMMA QuietType ==
    ASSUME NEW h \in HttpType(Kinds)
    PROVE  SocketClosedQuietly(h) \in HttpType(Kinds)
<1> DEFINE d == [h EXCEPT !.socket = "Unconnected", !.open = FALSE, !.asked = FALSE]
<1>1. d \in HttpType(Kinds)
  BY DEF HttpType
<1> QED BY <1>1 DEF SocketClosedQuietly

\* The server wants to know the user: the request is given up or sent again.
LEMMA ReadUnauthorizedServes ==
    ASSUME NEW h, NEW r, News(h, r), h.done = None, h.asked,
           NEW method \in {None, "Given", "Ntlm"}, NEW closes \in BOOLEAN
    PROVE  News(ReadUnauthorized(h, method, closes), r)
<1> DEFINE p == CASE method = "Given" -> "Done"
                  [] method = None    -> "Invalid"
                  [] OTHER            -> h.phase
           t == [h EXCEPT !.state = "Reading", !.asked = FALSE, !.method = method,
                          !.phase = p]
           g == IF closes THEN SocketClosedQuietly([t EXCEPT !.state = "Closing"]) ELSE t
<1>1. /\ h \in HttpType(Kinds) /\ r \in Kinds /\ h.posted = <<>>
      /\ h.pending = <<r>> /\ h.header = r /\ h.rba \in {None, r} /\ h.reconnectAttempts >= 0
      /\ h.socket = "Connected" /\ h.open /\ h.pending # <<>>
  BY ReadingIs
<1>2. p \in {"Start", "Done", "Invalid"}
  BY <1>1 DEF HttpType
<1>3. ParseChallenge(h, method) = t
  BY DEF ParseChallenge
<1> HIDE DEF p
<1>4. t \in HttpType(Kinds)
  <2> DEFINE q == [h EXCEPT !.state = "Reading", !.asked = FALSE]
  <2>1. q \in HttpType(Kinds)
    BY <1>1 DEF HttpType, State
  <2>2. t = [q EXCEPT !.method = method, !.phase = p]
    BY <1>1 DEF HttpType
  <2> HIDE DEF q, t
  <2>3. [q EXCEPT !.method = method, !.phase = p] \in HttpType(Kinds)
    BY <1>2, <2>1, ZenonT(30) DEF HttpType
  <2> QED BY <2>2, <2>3
<1>5. /\ t.posted = <<>> /\ t.pending = <<r>> /\ t.pending # <<>> /\ t.open /\ t.state = "Reading"
      /\ t.header = r /\ t.rba \in {None, r} /\ t.reconnectAttempts >= 0
      /\ t.socket = "Connected" /\ t.done = None
  BY <1>1 DEF HttpType
<1> HIDE DEF t
<1>6. CASE t.phase \in {"Done", "Invalid"}
  <2>1. ReadUnauthorized(h, method, closes) = CloseConn(FinishedWithError(t))
    BY <1>3, <1>6 DEF ReadUnauthorized
  <2> QED BY <1>4, <1>5, <2>1, GivenUp
<1>7. CASE t.phase \notin {"Done", "Invalid"}
  <2>1. ReadUnauthorized(h, method, closes) = SendRequest(g)
    BY <1>3, <1>7 DEF ReadUnauthorized
  <2>2. g \in HttpType(Kinds)
    <3>1. [t EXCEPT !.state = "Closing"] \in HttpType(Kinds)
      BY <1>4, ZenonT(30) DEF HttpType, State
    <3> QED BY <1>4, <3>1, QuietType
  <2>3. /\ g.posted = <<>> /\ g.pending = <<r>> /\ g.header = r /\ g.rba \in {None, r}
        /\ g.reconnectAttempts >= 0 /\ g.done = None
        /\ g.socket = "Connected" => g.open
    BY <1>4, <1>5 DEF SocketClosedQuietly, HttpType
  <2> HIDE DEF g
  <2>4. /\ SendRequest(g) \in HttpType(Kinds) /\ SendRequest(g).done = None
        /\ Line(SendRequest(g)) /\ Started(SendRequest(g), r)
    BY <1>1, <2>2, <2>3, SendRequestIs
  <2> QED BY <1>1, <2>1, <2>4, StartedNews
<1> QED BY <1>6, <1>7

\* The connection of a get ends with what has been read, and its end is posted.
LEMMA ClosedStarted ==
    ASSUME NEW h \in HttpType(Kinds), NEW r \in Kinds, h.done = None,
           h.pending = <<r>>, h.header = r, h.rba \in {None, r},
           h.posted \in {<<>>, <<"DoFinished">>},
           h.open, h.socket = "Connected", h.state \notin {"Closing", "Unconnected"}
    PROVE  News(CloseConn(h), r) /\ CloseConn(h).socket = "Unconnected"
<1> DEFINE p == Append(h.posted, "DoFinished")
           c == Closed(h, p)
<1>1. CloseConn(h) = c
  BY CloseConnIs
<1>2. p \in {<<"DoFinished">>, <<"DoFinished", "DoFinished">>} /\ p \in Seq(Slot)
  <2>1. CASE h.posted = <<>>
    BY <2>1, Short, SlotsAre
  <2>2. CASE h.posted = <<"DoFinished">>
    <3>1. Append(<<"DoFinished">>, "DoFinished") = <<"DoFinished", "DoFinished">>
      BY AppendOne
    <3>2. p = <<"DoFinished", "DoFinished">>
      BY <2>2, <3>1
    <3> HIDE DEF p
    <3> QED BY <3>2, SlotsAre
  <2> QED BY <2>1, <2>2
<1> HIDE DEF p
<1>3. /\ c \in HttpType(Kinds) /\ Line(c) /\ c.state = "Closing" /\ c.posted = p
      /\ c.pending = <<r>> /\ c.header = r /\ c.rba \in {None, r} /\ c.done = None
  BY <1>2, ClosedIs
<1>4. c.socket = "Unconnected"
  BY DEF Closed, HttpType
<1> HIDE DEF c
<1>5. Started(c, r)
  BY <1>2, <1>3 DEF Started
<1> QED BY <1>1, <1>3, <1>4, <1>5, StartedNews

\* The requests of q, the first of which is to close the connection.
CloseFirst(r) == IF r = None THEN <<Close>> ELSE <<Close, r>>

\* They serve r.
LEMMA ClosesNews ==
    ASSUME NEW h \in HttpType(Kinds), Line(h), h.done = None, NEW r \in Kinds \cup {None},
           Closes(h, CloseFirst(r))
    PROVE  News(h, r)
  BY KindsAre DEF News, Serves, CloseFirst

\* What a client does without news is one of four things.
LEMMA ServesCases ==
    ASSUME NEW h, NEW r, News(h, r), h.done = None
    PROVE  /\ h \in HttpType(Kinds) /\ Line(h) /\ Link(h) /\ r \in Kinds \cup {None}
           /\ \/ r = None /\ Idle(h)
              \/ r \in Kinds /\ Started(h, r)
              \/ r \in Kinds /\ Unstarted(h, r)
              \/ Closes(h, CloseFirst(r))
<1>1. h \in HttpType(Kinds) /\ Line(h) /\ Serves(h, r)
  BY DEF News, None
<1> QED BY <1>1, KindsAre DEF Serves, Line, CloseFirst

\* The connection ends: the request fails, is sent again, or has its answer.
LEMMA ConnectionEndsServes ==
    ASSUME NEW h, NEW r, News(h, r), h.done = None, h.socket = "Connected",
           NEW remote \in BOOLEAN
    PROVE  News(SocketGone(SlotError(h, remote)), r)
<1>0. /\ h \in HttpType(Kinds) /\ Line(h) /\ Link(h) /\ r \in Kinds \cup {None}
      /\ h.state \in {"Sending", "Reading", "Connected"} /\ h.open
  <2>1. h \in HttpType(Kinds) /\ Line(h) /\ Link(h) /\ r \in Kinds \cup {None}
    BY ServesCases
  <2>2. h.state \in {"Sending", "Reading", "Connected"}
    BY <2>1 DEF Link, HttpType, State
  <2> QED BY <2>1, <2>2 DEF Link
<1>1. SUFFICES /\ News(SlotError(h, remote), r)
               /\ SlotError(h, remote).socket = "Unconnected"
  BY <1>1 DEF SocketGone
<1>2. CASE h.state \in {"Sending", "Reading"} /\ ~remote
  <2>1. SlotError(h, remote) = CloseConn(FinishedWithError(h))
    BY <1>2 DEF SlotError
  <2> QED BY <1>0, <1>2, <2>1, UnderWay, GivenUp
<1>3. CASE h.state = "Sending" /\ remote /\ h.reconnectAttempts # 0
  <2> DEFINE d == [h EXCEPT !.socket = "Unconnected", !.open = FALSE, !.asked = FALSE,
                            !.state = "Unconnected", !.reconnectAttempts = @ - 1,
                            !.posted = <<"SendRequest">>]
  <2>1. /\ r \in Kinds /\ Started(h, r) /\ h.posted = <<>> /\ h.reconnectAttempts >= 0
    BY <1>3, UnderWay
  <2>2. SlotError(h, remote) = d
    <3> DEFINE g == [SocketClosedQuietly(h) EXCEPT !.state = "Unconnected",
                                                   !.reconnectAttempts = @ - 1]
    <3>1. SlotError(h, remote) = Post(g, "SendRequest")
      BY <1>3 DEF SlotError
    <3>2. Append(h.posted, "SendRequest") = <<"SendRequest">>
      BY <2>1, Short
    <3>3. Post(g, "SendRequest") = [g EXCEPT !.posted = <<"SendRequest">>]
      BY <1>0, <2>1, <3>2 DEF Post, SocketClosedQuietly, HttpType
    <3>4. g = [h EXCEPT !.socket = "Unconnected", !.open = FALSE, !.asked = FALSE,
                        !.state = "Unconnected", !.reconnectAttempts = @ - 1]
      BY <1>0 DEF SocketClosedQuietly, HttpType
    <3> HIDE DEF g
    <3> QED BY <1>0, <3>1, <3>3, <3>4 DEF HttpType
  <2>3. h.reconnectAttempts - 1 \in 0..2
    BY <1>0, <1>3, <2>1 DEF HttpType
  <2>4. d \in HttpType(Kinds)
    <3> DEFINE n == h.reconnectAttempts - 1
               q == <<"SendRequest">>
    <3>1. n \in -1..2
      BY <2>3
    <3>2. q \in Seq({"StartNextRequest", "SendRequest", "DoFinished"})
      OBVIOUS
    <3> HIDE DEF n, q
    <3>3. [h EXCEPT !.socket = "Unconnected", !.open = FALSE, !.asked = FALSE,
                    !.state = "Unconnected", !.reconnectAttempts = n,
                    !.posted = q] \in HttpType(Kinds)
      BY <1>0, <3>1, <3>2, ZenonT(30) DEF HttpType, State
    <3> QED BY <3>3 DEF n, q
  <2>5. /\ d.state = "Unconnected" /\ d.socket = "Unconnected" /\ d.open = FALSE
        /\ d.asked = FALSE /\ d.pending = h.pending /\ d.header = h.header
        /\ d.rba = h.rba /\ d.posted = <<"SendRequest">> /\ d.done = None
        /\ d.reconnectAttempts >= 0
    BY <1>0, <2>3 DEF HttpType
  <2> HIDE DEF d
  <2>6. Line(d) /\ Started(d, r)
    BY <2>1, <2>5 DEF Line, Link, Started
  <2> QED BY <2>1, <2>2, <2>4, <2>5, <2>6, StartedNews
<1>4. CASE h.state = "Sending" /\ remote /\ h.reconnectAttempts = 0
  <2> DEFINE d == [h EXCEPT !.reconnectAttempts = @ - 1]
  <2>1. /\ r \in Kinds /\ Started(h, r) /\ h.posted = <<>>
    BY <1>4, UnderWay
  <2>2. SlotError(h, remote) = CloseConn(d)
    BY <1>4 DEF SlotError
  <2>3. d \in HttpType(Kinds)
    BY <1>0, <1>4 DEF HttpType
  <2>4. /\ d.state = "Sending" /\ d.socket = "Connected" /\ d.open
        /\ d.pending = h.pending /\ d.header = h.header
        /\ d.rba = h.rba /\ d.posted = <<>> /\ d.done = None
    BY <1>0, <1>4, <2>1 DEF HttpType
  <2> HIDE DEF d
  <2> QED BY <2>1, <2>2, <2>3, <2>4, ClosedStarted DEF Started
<1>5. CASE h.state = "Reading" /\ remote
  <2>1. SlotError(h, remote) = CloseConn(h)
    BY <1>5 DEF SlotError
  <2>2. r \in Kinds /\ Started(h, r) /\ h.posted = <<>>
    BY <1>5, UnderWay
  <2> QED BY <1>0, <1>5, <2>1, <2>2, ClosedStarted DEF Started
<1>6. CASE h.state = "Connected"
  <2>1. SlotError(h, remote) = CloseConn(h)
    BY <1>6 DEF SlotError
  <2>2. CASE r \in Kinds /\ Started(h, r)
    BY <1>0, <1>6, <2>1, <2>2, ClosedStarted DEF Started
  <2>3. CASE Closes(h, CloseFirst(r))
    <3> DEFINE c == Closed(h, <<"StartNextRequest", "DoFinished">>)
    <3>1. h.posted = <<"StartNextRequest">> /\ h.rba = None /\ h.pending = CloseFirst(r)
      BY <1>6, <2>3 DEF Closes
    <3>2. CloseConn(h) = c
      BY <1>0, <1>6, <3>1, CloseConnIs, Short, ZenonT(30)
    <3>3. /\ c \in HttpType(Kinds) /\ Line(c) /\ c.state = "Closing" /\ c.rba = None
          /\ c.posted = <<"StartNextRequest", "DoFinished">>
          /\ c.pending = CloseFirst(r) /\ c.done = None
      BY <1>0, <3>1, SlotsAre, ClosedIs
    <3>4. c.socket = "Unconnected"
      BY <1>0 DEF Closed, HttpType
    <3> HIDE DEF c
    <3>5. Closes(c, CloseFirst(r))
      BY <3>3 DEF Closes
    <3> QED BY <1>0, <2>1, <3>2, <3>3, <3>4, <3>5, ClosesNews
  <2> QED BY <1>6, <2>2, <2>3, ServesCases DEF Idle, Unstarted
<1> QED BY <1>0, <1>2, <1>3, <1>4, <1>5, <1>6

----------------------------------------------------------------------------
(* What is posted.                                                         *)

\* A get that is the next request is started.
LEMMA StartGet ==
    ASSUME NEW h \in HttpType(Kinds), h.done = None, NEW k \in Kinds,
           h.pending = <<k>>, h.posted = <<>>, h.socket = "Connected" => h.open
    PROVE  News(StartNextRequest(h), k)
<1> DEFINE ready == [ReadAll(h) EXCEPT !.whole = FALSE]
           d == [ready EXCEPT !.header = k, !.reconnectAttempts = 2]
<1>1. ready \in HttpType(Kinds)
  BY DEF ReadAll, HttpType
<1>2. /\ ready.done = None /\ ready.pending = <<k>> /\ ready.posted = <<>> /\ ready.rba = None
      /\ ready.socket = "Connected" => ready.open
  BY DEF ReadAll, HttpType
<1>3. StartNextRequest(h) = Start(ready, k)
  BY Short DEF StartNextRequest
<1> HIDE DEF ready
<1>4. Start(ready, k) = SendRequest(d)
  BY KindsAre DEF Start
<1>5. d \in HttpType(Kinds)
  <2> DEFINE n == 2
  <2>1. n \in -1..2
    OBVIOUS
  <2> HIDE DEF n
  <2>2. [ready EXCEPT !.header = k, !.reconnectAttempts = n] \in HttpType(Kinds)
    BY <1>1, <2>1 DEF HttpType
  <2> QED BY <2>2 DEF n
<1>6. /\ d.done = None /\ d.pending = <<k>> /\ d.posted = <<>> /\ d.rba = None
      /\ d.header = k /\ d.reconnectAttempts = 2
      /\ d.socket = "Connected" => d.open
  BY <1>1, <1>2 DEF HttpType
<1> HIDE DEF d
<1>7. /\ SendRequest(d) \in HttpType(Kinds) /\ SendRequest(d).done = None
      /\ Line(SendRequest(d)) /\ Started(SendRequest(d), k)
  BY <1>5, <1>6, SendRequestIs
<1> QED BY <1>3, <1>4, <1>7, StartedNews

\* The requests of a close, and of a get behind it.
LEMMA CloseFirstIs ==
    ASSUME NEW r \in Kinds \cup {None}
    PROVE  /\ CloseFirst(r) # <<>> /\ Head(CloseFirst(r)) = Close
           /\ CloseFirst(r) \in Seq(Kinds \cup {Close})
           /\ r = None => Len(CloseFirst(r)) = 1 /\ Tail(CloseFirst(r)) = <<>>
           /\ r \in Kinds => Len(CloseFirst(r)) = 2 /\ Tail(CloseFirst(r)) = <<r>>
<1>1. CASE r = None
  BY <1>1, KindsAre, Short DEF CloseFirst
<1>2. CASE r \in Kinds
  <2>1. CloseFirst(r) = <<Close, r>> /\ r # None
    BY <1>2, KindsAre DEF CloseFirst
  <2>2. <<Close, r>> \in Seq(Kinds \cup {Close})
    BY <1>2
  <2> QED BY <2>1, <2>2, Short
<1> QED BY <1>1, <1>2

\* A close that is the next request is started.
LEMMA StartClose ==
    ASSUME NEW h \in HttpType(Kinds), Line(h), h.done = None, NEW r \in Kinds \cup {None},
           h.pending = CloseFirst(r),
           \/ h.state \in {"Unconnected", "Connected"} /\ h.posted = <<>>
           \/ h.state = "Closing" /\ h.posted = <<"DoFinished">>
    PROVE  News(StartNextRequest(h), r)
<1> DEFINE rest == [h EXCEPT !.rba = None, !.whole = FALSE]
           c == Closed(rest, <<"DoFinished">>)
<1>1. rest \in HttpType(Kinds)
  BY DEF HttpType
<1>2. /\ rest.done = None /\ rest.pending = h.pending /\ rest.posted = h.posted /\ rest.rba = None
      /\ rest.state = h.state /\ rest.socket = h.socket /\ rest.open = h.open /\ rest.asked = h.asked
  BY DEF HttpType
<1>3. StartNextRequest(h) = CloseConn(rest)
  BY CloseFirstIs DEF StartNextRequest, Start, ReadAll
<1> HIDE DEF rest
<1>4. Line(rest)
  BY <1>2 DEF Line, Link
<1>5. CASE h.state \in {"Unconnected", "Closing"}
  <2>1. CloseConn(rest) = rest
    BY <1>1, <1>2, <1>5, CloseConnIs
  <2>2. Closes(rest, CloseFirst(r))
    BY <1>2, <1>5 DEF Closes
  <2> QED BY <1>1, <1>2, <1>3, <1>4, <2>1, <2>2, ClosesNews
<1>6. CASE h.state = "Connected" /\ h.posted = <<>>
  <2>1. rest.socket = "Connected" /\ rest.open
    BY <1>2, <1>4, <1>6 DEF Line, Link
  <2>2. CloseConn(rest) = c
    BY <1>1, <1>2, <1>6, <2>1, CloseConnIs, Short
  <2>3. /\ c \in HttpType(Kinds) /\ Line(c) /\ c.state = "Closing" /\ c.rba = None
        /\ c.posted = <<"DoFinished">> /\ c.pending = CloseFirst(r) /\ c.done = None
    BY <1>1, <1>2, SlotsAre, ClosedIs
  <2> HIDE DEF c
  <2>4. Closes(c, CloseFirst(r))
    BY <2>3 DEF Closes
  <2> QED BY <1>3, <2>2, <2>3, <2>4, ClosesNews
<1> QED BY <1>5, <1>6

\* The first slot that is posted is called.
LEMMA RunPostedServes ==
    ASSUME NEW h, NEW r, News(h, r), h.done = None, h.posted # <<>>
    PROVE  News(RunPosted(h), r)
<1> DEFINE t == [h EXCEPT !.posted = Tail(@)]
           f == [t EXCEPT !.state = "Unconnected"]
<1>0. /\ h \in HttpType(Kinds) /\ Line(h) /\ Link(h) /\ r \in Kinds \cup {None}
      /\ \/ r = None /\ Idle(h)
         \/ r \in Kinds /\ Started(h, r)
         \/ r \in Kinds /\ Unstarted(h, r)
         \/ Closes(h, CloseFirst(r))
  BY ServesCases
<1>1. t \in HttpType(Kinds)
  <2> DEFINE p == Tail(h.posted)
  <2>1. h.posted \in Seq(Slot) /\ h.posted # <<>>
    BY <1>0 DEF HttpType, Slot
  <2>2. p \in Seq(Slot)
    BY <2>1
  <2> HIDE DEF p
  <2>3. [h EXCEPT !.posted = p] \in HttpType(Kinds)
    BY <1>0, <2>2 DEF HttpType, Slot
  <2>4. t = [h EXCEPT !.posted = p]
    BY DEF p
  <2> QED BY <2>3, <2>4
<1>2. /\ t.done = None /\ t.pending = h.pending /\ t.posted = Tail(h.posted) /\ t.rba = h.rba
      /\ t.header = h.header /\ t.state = h.state /\ t.socket = h.socket /\ t.open = h.open
      /\ t.asked = h.asked /\ t.reconnectAttempts = h.reconnectAttempts
  BY <1>0 DEF HttpType
<1>3. /\ Head(h.posted) = "StartNextRequest" => RunPosted(h) = StartNextRequest(t)
      /\ Head(h.posted) = "SendRequest" => RunPosted(h) = SendRequest(t)
      /\ Head(h.posted) = "DoFinished" => RunPosted(h) = DoFinished(t)
  BY DEF RunPosted
<1> HIDE DEF t
<1>4. Line(t)
  BY <1>0, <1>2 DEF Line, Link
<1>5. /\ f \in HttpType(Kinds)
      /\ f.done = None /\ f.pending = t.pending /\ f.posted = t.posted /\ f.rba = t.rba
      /\ f.header = t.header /\ f.state = "Unconnected" /\ f.socket = t.socket
      /\ f.open = t.open /\ f.asked = t.asked
  BY <1>1, <1>2 DEF HttpType, State
<1>6. /\ t.state = "Connected" => DoFinished(t) = FinishedWithSuccess(t)
      /\ t.state = "Unconnected" => DoFinished(t) = t
      /\ t.state = "Closing" => DoFinished(t) = FinishedWithSuccess(f)
  BY DEF DoFinished
<1> HIDE DEF f
<1>7. t.state = "Closing" => Line(f)
  BY <1>4, <1>5 DEF Line, Link
<1>8. ASSUME NEW g \in HttpType(Kinds), Line(g), g.done = None, g.pending = <<r>> \/ g.pending = <<Close>>
      PROVE  LET d == FinishedWithSuccess(g)
             IN  /\ d \in HttpType(Kinds) /\ Line(d) /\ d.done = "success"
                 /\ d.pending = <<>> /\ d.state = g.state /\ d.posted = g.posted
                 /\ d.rba = g.rba
  <2> DEFINE d == [g EXCEPT !.pending = <<>>, !.done = "success"]
  <2>1. g.pending # <<>> /\ Len(g.pending) = 1 /\ Tail(g.pending) = <<>>
    BY <1>8, Short
  <2>2. FinishedWithSuccess(g) = d
    BY <2>1 DEF FinishedWithSuccess
  <2>3. <<>> \in Seq(Kinds \cup {Close})
    OBVIOUS
  <2>4. d \in HttpType(Kinds)
    BY <2>3 DEF HttpType
  <2>5. /\ d.done = "success" /\ d.pending = <<>> /\ d.state = g.state /\ d.posted = g.posted
        /\ d.rba = g.rba /\ d.asked = g.asked /\ d.socket = g.socket /\ d.open = g.open
    BY DEF HttpType
  <2> HIDE DEF d
  <2>6. Line(d)
    BY <1>8, <2>5 DEF Line, Link
  <2> QED BY <2>2, <2>4, <2>5, <2>6
<1>9. CASE r = None /\ Idle(h)
  <2>1. /\ h.posted = <<"DoFinished">> /\ h.state \in {"Unconnected", "Closing"}
        /\ h.pending = <<>>
    BY <1>9 DEF Idle
  <2>2. RunPosted(h) = DoFinished(t) /\ t.posted = <<>>
    BY <1>2, <1>3, <2>1, Short
  <2>3. f.pending = <<>> => FinishedWithSuccess(f) = f
    BY DEF FinishedWithSuccess
  <2>4. CASE h.state = "Unconnected"
    BY <1>1, <1>2, <1>4, <1>6, <1>9, <2>1, <2>2, <2>4 DEF News, Serves, Idle
  <2>5. CASE h.state = "Closing"
    <3>1. RunPosted(h) = f /\ Idle(f)
      BY <1>2, <1>5, <1>6, <2>1, <2>2, <2>3, <2>5 DEF Idle
    <3> QED BY <1>2, <1>5, <1>7, <1>9, <2>5, <3>1 DEF News, Serves
  <2> QED BY <2>1, <2>4, <2>5
<1>10. CASE r \in Kinds /\ Started(h, r)
  <2>0. r # None /\ r # Close
    BY <1>10, KindsAre
  <2>1. /\ h.pending = <<r>> /\ h.header = r /\ h.rba \in {None, r}
    BY <1>10 DEF Started
  <2>2. CASE h.state = "Connected" /\ h.posted = <<"DoFinished">>
    <3>1. RunPosted(h) = FinishedWithSuccess(t) /\ t.posted = <<>>
      BY <1>2, <1>3, <1>6, <2>2, Short
    <3> QED BY <1>1, <1>2, <1>4, <1>8, <1>10, <2>1, <2>2, <3>1, Short DEF News
  <2>3. CASE h.state = "Closing" /\ h.posted \in {<<"DoFinished">>, <<"DoFinished", "DoFinished">>}
    <3>1. Head(h.posted) = "DoFinished" /\ Tail(h.posted) \in {<<>>, <<"DoFinished">>}
      <4>1. /\ Head(<<"DoFinished">>) = "DoFinished" /\ Tail(<<"DoFinished">>) = <<>>
            /\ Head(<<"DoFinished", "DoFinished">>) = "DoFinished"
            /\ Tail(<<"DoFinished", "DoFinished">>) = <<"DoFinished">>
        BY Short
      <4> QED BY <2>3, <4>1, Zenon
    <3>2. RunPosted(h) = FinishedWithSuccess(f) /\ f.posted \in {<<>>, <<"DoFinished">>}
      BY <1>2, <1>3, <1>5, <1>6, <2>3, <3>1
    <3> DEFINE d == FinishedWithSuccess(f)
    <3>3. /\ d \in HttpType(Kinds) /\ Line(d) /\ d.done = "success"
          /\ d.pending = <<>> /\ d.state = "Unconnected" /\ d.posted = f.posted
          /\ d.rba = h.rba
      BY <1>2, <1>5, <1>7, <1>8, <2>1, <2>3
    <3> HIDE DEF d
    <3>4. News(d, r)
      BY <1>10, <2>1, <3>2, <3>3 DEF News
    <3> QED BY <3>2, <3>4 DEF d
  <2>4. CASE h.state = "Unconnected" /\ h.posted = <<"SendRequest">>
    <3>1. RunPosted(h) = SendRequest(t) /\ t.posted = <<>>
      BY <1>2, <1>3, <2>4, Short
    <3>2. h.reconnectAttempts >= 0
      BY <1>10, <2>4 DEF Started
    <3>3. t.socket # "Connected"
      BY <1>0, <1>2, <2>4 DEF Link
    <3>4. /\ SendRequest(t) \in HttpType(Kinds) /\ SendRequest(t).done = None
          /\ Line(SendRequest(t)) /\ Started(SendRequest(t), r)
      BY <1>1, <1>2, <1>10, <2>1, <3>1, <3>2, <3>3, SendRequestIs
    <3> QED BY <1>10, <3>1, <3>4, StartedNews
  <2> QED BY <1>10, <2>2, <2>3, <2>4 DEF Started
<1>11. CASE r \in Kinds /\ Unstarted(h, r)
  <2>1. h.pending = <<r>> /\ h.state \in {"Unconnected", "Closing"}
    BY <1>11 DEF Unstarted
  <2>2. CASE h.posted = <<"StartNextRequest">>
    <3>1. RunPosted(h) = StartNextRequest(t) /\ t.posted = <<>>
      BY <1>2, <1>3, <2>2, Short
    <3>2. t.socket # "Connected"
      BY <1>0, <1>2, <2>1 DEF Link
    <3> QED BY <1>1, <1>2, <1>11, <2>1, <3>1, <3>2, StartGet
  <2>3. CASE h.state = "Unconnected" /\ h.posted = <<"DoFinished", "StartNextRequest">>
    <3>1. RunPosted(h) = t /\ t.posted = <<"StartNextRequest">>
      BY <1>2, <1>3, <1>6, <2>3, Short
    <3>2. Unstarted(t, r)
      BY <1>2, <2>1, <2>3, <3>1 DEF Unstarted
    <3> QED BY <1>1, <1>2, <1>4, <1>11, <3>1, <3>2 DEF News, Serves
  <2> QED BY <1>11, <2>2, <2>3 DEF Unstarted
<1>12. CASE Closes(h, CloseFirst(r))
  <2>1. h.pending = CloseFirst(r) /\ h.rba = None
    BY <1>12 DEF Closes
  <2>2. CASE h.state \in {"Unconnected", "Connected"} /\ h.posted = <<"StartNextRequest">>
    <3>1. RunPosted(h) = StartNextRequest(t) /\ t.posted = <<>>
      BY <1>2, <1>3, <2>2, Short
    <3> QED BY <1>0, <1>1, <1>2, <1>4, <2>1, <2>2, <3>1, StartClose
  <2>3. CASE h.state = "Unconnected" /\ h.posted = <<"DoFinished", "StartNextRequest">>
    <3>1. RunPosted(h) = t /\ t.posted = <<"StartNextRequest">>
      BY <1>2, <1>3, <1>6, <2>3, Short
    <3>2. Closes(t, CloseFirst(r))
      BY <1>2, <2>1, <2>3, <3>1 DEF Closes
    <3> QED BY <1>0, <1>1, <1>2, <1>4, <3>1, <3>2, ClosesNews
  <2>4. CASE h.state = "Closing" /\ h.posted = <<"StartNextRequest", "DoFinished">>
    <3>1. RunPosted(h) = StartNextRequest(t) /\ t.posted = <<"DoFinished">>
      BY <1>2, <1>3, <2>4, Short
    <3> QED BY <1>0, <1>1, <1>2, <1>4, <2>1, <2>4, <3>1, StartClose
  <2>5. CASE h.state = "Closing" /\ h.posted = <<"DoFinished">>
    <3>1. RunPosted(h) = FinishedWithSuccess(f) /\ f.posted = <<>>
      BY <1>2, <1>3, <1>5, <1>6, <2>5, Short
    <3>2. CASE r = None
      <4>1. f.pending = <<Close>>
        BY <1>2, <1>5, <2>1, <3>2 DEF CloseFirst
      <4> QED BY <1>2, <1>5, <1>7, <1>8, <2>5, <3>1, <3>2, <4>1 DEF News, Idle
    <3>3. CASE r \in Kinds
      <4> DEFINE q == Tail(f.pending)
                 g == [f EXCEPT !.pending = q]
      <4>1. q = <<r>> /\ Len(f.pending) = 2 /\ f.pending # <<>>
        BY <1>0, <1>2, <1>5, <2>1, <3>3, CloseFirstIs
      <4>2. FinishedWithSuccess(f) = StartNextRequest(g)
        BY <4>1 DEF FinishedWithSuccess
      <4>3. q \in Seq(Kinds \cup {Close})
        <5>1. \A k \in Kinds : <<k>> \in Seq(Kinds \cup {Close})
          OBVIOUS
        <5> QED BY <3>3, <4>1, <5>1
      <4> HIDE DEF q
      <4>4. g \in HttpType(Kinds)
        BY <1>5, <4>3 DEF HttpType
      <4>5. g.pending = <<r>> /\ g.posted = f.posted /\ g.done = None /\ g.socket = f.socket
        BY <1>5, <4>1 DEF HttpType
      <4> HIDE DEF g
      <4>6. g.socket # "Connected"
        BY <1>0, <1>2, <1>5, <2>5, <4>5 DEF Link
      <4> QED BY <3>1, <3>3, <4>2, <4>4, <4>5, <4>6, StartGet
    <3> QED BY <1>0, <3>2, <3>3
  <2> QED
    <3>1. h.posted # <<>>
      OBVIOUS
    <3> QED BY <1>12, <2>2, <2>3, <2>4, <2>5, <3>1 DEF Closes
<1> QED BY <1>0, <1>9, <1>10, <1>11, <1>12

----------------------------------------------------------------------------
(* What the updater adds.                                                  *)

\* A get behind a close waits for it.
LEMMA GetBehindClose ==
    ASSUME NEW h \in HttpType(Kinds), Line(h), h.done = None, Closes(h, CloseFirst(None)),
           NEW k \in Kinds
    PROVE  News(AddGet(h, k), k)
<1> DEFINE q == <<Close, k>>
           d == [h EXCEPT !.pending = q]
<1>1. h.pending = <<Close>> /\ CloseFirst(k) = q
  BY KindsAre DEF Closes, CloseFirst
<1>2. Append(<<Close>>, k) = q /\ Len(q) # 1
  BY Short
<1>3. q \in Seq(Kinds \cup {Close})
  OBVIOUS
<1> HIDE DEF q
<1>4. AddGet(h, k) = d
  <2>1. [h EXCEPT !.pending = Append(@, k)] = d
    BY <1>1, <1>2
  <2>2. d.pending = q
    BY DEF HttpType
  <2> HIDE DEF d
  <2> QED BY <1>2, <2>1, <2>2 DEF AddGet, AddRequest
<1>5. d \in HttpType(Kinds)
  BY <1>3 DEF HttpType
<1>6. /\ d.pending = q /\ d.done = None /\ d.state = h.state /\ d.posted = h.posted
      /\ d.rba = h.rba /\ d.socket = h.socket /\ d.open = h.open /\ d.asked = h.asked
  BY DEF HttpType
<1> HIDE DEF d
<1>7. Line(d) /\ Closes(d, q)
  BY <1>6 DEF Line, Link, Closes
<1> QED BY <1>1, <1>4, <1>5, <1>6, <1>7, ClosesNews

\* The next retrieval is added to a client that is idle or about to close.
LEMMA RetrievalServes ==
    ASSUME NEW h, News(h, None), h.done = None, h.posted = <<>>, NEW k \in Kinds
    PROVE  News(AddGet(h, k), k)
<1>1. /\ h \in HttpType(Kinds) /\ Line(h)
      /\ Idle(h) \/ Closes(h, CloseFirst(None))
  BY ServesCases, KindsAre
<1>2. CASE Idle(h)
  <2> DEFINE q == <<k>>
             p == <<"StartNextRequest">>
             d == [h EXCEPT !.pending = q, !.posted = p]
  <2>1. h.pending = <<>> /\ h.state \in {"Unconnected", "Closing"}
    BY <1>2 DEF Idle
  <2>2. Append(<<>>, k) = q /\ Append(<<>>, "StartNextRequest") = p /\ Len(q) = 1
    BY Short
  <2>3. q \in Seq(Kinds \cup {Close}) /\ p \in Seq(Slot)
    <3>1. q \in Seq(Kinds \cup {Close})
      OBVIOUS
    <3> QED BY <3>1, SlotsAre
  <2> HIDE DEF q, p
  <2>4. AddGet(h, k) = d
    <3> DEFINE a == [h EXCEPT !.pending = q]
    <3>1. [h EXCEPT !.pending = Append(@, k)] = a
      BY <2>1, <2>2
    <3>2. a.pending = q /\ a.posted = <<>> /\ [a EXCEPT !.posted = p] = d
      BY <1>1 DEF HttpType
    <3> HIDE DEF a, d
    <3>3. Post(a, "StartNextRequest") = d
      BY <2>2, <3>2 DEF Post
    <3> QED BY <2>2, <3>1, <3>2, <3>3 DEF AddGet, AddRequest
  <2>5. d \in HttpType(Kinds)
    BY <1>1, <2>3 DEF HttpType, Slot
  <2>6. /\ d.pending = q /\ d.posted = p /\ d.done = None /\ d.state = h.state
        /\ d.socket = h.socket /\ d.open = h.open /\ d.asked = h.asked
    BY <1>1 DEF HttpType
  <2> HIDE DEF d
  <2>7. Line(d) /\ Unstarted(d, k)
    BY <1>1, <2>1, <2>6 DEF Line, Link, Unstarted, q, p
  <2> QED BY <2>4, <2>5, <2>6, <2>7 DEF News, Serves
<1>3. CASE Closes(h, CloseFirst(None))
  BY <1>1, <1>3, GetBehindClose
<1> QED BY <1>1, <1>2, <1>3

\* After an answer nothing that was read is left, and a close is the next request.
LEMMA AnswerClosed ==
    ASSUME NEW h, NEW r \in Kinds, News(h, r), h.done = "success"
    PROVE  LET g == [h EXCEPT !.done = None]
               d == AddClose(ReadAll(g))
           IN  /\ g.rba \in {None, r}
               /\ d \in HttpType(Kinds) /\ Line(d) /\ d.done = None
               /\ Closes(d, CloseFirst(None))
<1> DEFINE g == [h EXCEPT !.done = None]
           rest == [h EXCEPT !.done = None, !.rba = None]
           q == <<Close>>
           p == Append(h.posted, "StartNextRequest")
           d == [rest EXCEPT !.pending = q, !.posted = p]
<1>1. h \in HttpType(Kinds) /\ Line(h) /\ Link(h)
  BY DEF News, Line
<1>2. /\ h.pending = <<>> /\ h.rba \in {None, r}
      /\ \/ h.state = "Connected" /\ h.posted = <<>>
         \/ h.state = "Unconnected" /\ h.posted \in {<<>>, <<"DoFinished">>}
  BY KindsAre DEF News, None
<1>3. /\ q = Append(<<>>, Close) /\ Len(q) = 1 /\ q = CloseFirst(None)
      /\ q \in Seq(Kinds \cup {Close})
  <2>1. q \in Seq(Kinds \cup {Close})
    OBVIOUS
  <2> QED BY <2>1, Short DEF CloseFirst
<1>4. /\ h.posted = <<>> => p = <<"StartNextRequest">>
      /\ h.posted = <<"DoFinished">> => p = <<"DoFinished", "StartNextRequest">>
  BY Short
<1>5. p \in Seq(Slot)
  BY <1>2, <1>4, SlotsAre
<1> HIDE DEF q, p
<1>6. g.rba = h.rba /\ ReadAll(g) = rest
  BY <1>1 DEF ReadAll, HttpType
<1>7. rest \in HttpType(Kinds)
  BY <1>1 DEF HttpType
<1>8. /\ rest.pending = <<>> /\ rest.posted = h.posted /\ rest.done = None /\ rest.rba = None
      /\ rest.state = h.state /\ rest.socket = h.socket /\ rest.open = h.open /\ rest.asked = h.asked
  BY <1>1, <1>2 DEF HttpType
<1> HIDE DEF rest, g
<1>9. AddClose(rest) = d
  <2> DEFINE a == [rest EXCEPT !.pending = q]
  <2>1. [rest EXCEPT !.pending = Append(@, Close)] = a
    BY <1>3, <1>8
  <2>2. a.pending = q /\ a.posted = h.posted
    BY <1>7, <1>8 DEF HttpType
  <2>3. [a EXCEPT !.posted = p] = d
    BY <1>7 DEF HttpType
  <2> HIDE DEF a, d
  <2>4. Post(a, "StartNextRequest") = d
    BY <2>2, <2>3 DEF Post, p
  <2> QED BY <1>3, <2>1, <2>2, <2>4 DEF AddClose, AddRequest
<1>10. d \in HttpType(Kinds)
  BY <1>3, <1>5, <1>7 DEF HttpType, Slot
<1>11. /\ d.pending = q /\ d.posted = p /\ d.done = None /\ d.rba = None /\ d.state = h.state
       /\ d.socket = h.socket /\ d.open = h.open /\ d.asked = h.asked
  BY <1>7, <1>8 DEF HttpType
<1> HIDE DEF d
<1>12. Line(d)
  BY <1>1, <1>11 DEF Line, Link
<1>13. Closes(d, q)
  BY <1>2, <1>4, <1>11 DEF Closes
<1> QED BY <1>2, <1>3, <1>6, <1>9, <1>10, <1>11, <1>12, <1>13 DEF g

\* What the updater makes of done() leaves a client that does what the next request
\* type asks for, and takes no answer for another.
LEMMA DoneServes ==
    ASSUME NEW v, Fine(v), v.mixed = FALSE, NEW h, News(h, v.mRequestType), h.done # None,
           NEW result \in Results(h)
    PROVE  LET t == OnDone(Pair(v, h), result)
           IN  News(t.h, t.u.mRequestType) /\ t.h.done = None /\ t.u.mixed = FALSE
<1> DEFINE t == OnDone(Pair(v, h), result)
           g == [h EXCEPT !.done = None]
           k == IF h.done = "error" THEN g ELSE AddClose(ReadAll(g))
<1>1. h \in HttpType(Kinds) /\ Line(h) /\ v.mRequestType \in Kinds \cup {None}
  BY DEF News, Fine, UpdaterType
<1>2. g \in HttpType(Kinds)
  BY <1>1 DEF HttpType
<1>3. /\ g.done = None /\ g.pending = h.pending /\ g.posted = h.posted /\ g.state = h.state
      /\ g.socket = h.socket /\ g.open = h.open /\ g.asked = h.asked
  BY <1>1 DEF HttpType
<1>4. v.mRequestType = None => t = Pair(v, g)
  BY DoneFine
<1>9. ASSUME v.mRequestType # None, h.done = "error" \/ g.rba \in {None, v.mRequestType}
      PROVE  \E w : Follows(t, w, k, result) /\ w.mixed = v.mixed
  <2>1. \E w : /\ Follows(t, w, k, result)
               /\ (h.done = "error" \/ g.rba \in {None, v.mRequestType}) => w.mixed = v.mixed
    BY <1>9, DoneFine
  <2> HIDE DEF t, k, g
  <2>2. PICK w : /\ Follows(t, w, k, result)
                 /\ (h.done = "error" \/ g.rba \in {None, v.mRequestType}) => w.mixed = v.mixed
    BY <2>1, Zenon
  <2>3. w.mixed = v.mixed
    BY <1>9, <2>2
  <2> QED BY <2>2, <2>3
<1>5. ASSUME Idle(h) PROVE News(g, None)
  <2> HIDE DEF g
  <2>1. Line(g) /\ Idle(g)
    BY <1>1, <1>3, <1>5 DEF Line, Link, Idle
  <2> QED BY <1>2, <1>3, <2>1 DEF News, Serves
<1>6. CASE v.mRequestType = None
  <2>1. Idle(h)
    BY <1>6, KindsAre DEF News
  <2>2. t.h = g /\ t.u = v
    BY <1>4, <1>6 DEF Pair
  <2> HIDE DEF g, t
  <2> QED BY <1>3, <1>5, <1>6, <2>1, <2>2 DEF t
<1>7. CASE v.mRequestType # None /\ h.done = "error"
  <2>1. Idle(h)
    BY <1>7 DEF News, None
  <2>2. result # "NoError"
    BY <1>7 DEF Results
  <2>4. k = g
    BY <1>7
  <2> HIDE DEF g, t, k
  <2>5. PICK w : Follows(t, w, k, result) /\ w.mixed = v.mixed
    BY <1>7, <1>9
  <2>3. t.u.mRequestType = None /\ t.h = g /\ t.u.mixed = v.mixed
    BY <2>2, <2>4, <2>5 DEF Follows
  <2> QED BY <1>3, <1>5, <2>1, <2>3 DEF t
<1>8. CASE v.mRequestType # None /\ h.done # "error"
  <2>1. h.done = "success" /\ v.mRequestType \in Kinds
    BY <1>1, <1>8 DEF HttpType
  <2>2. /\ g.rba \in {None, v.mRequestType}
        /\ k \in HttpType(Kinds) /\ Line(k) /\ k.done = None
        /\ Closes(k, CloseFirst(None))
    BY <1>8, <2>1, AnswerClosed
  <2> HIDE DEF g, k, t
  <2>3. News(k, None)
    BY <2>2, ClosesNews
  <2>4. News(AddGet(k, "getThreePhases"), "getThreePhases")
    BY <2>2, GetBehindClose DEF Kinds
  <2>5. AddGet(k, "getThreePhases").done = None
    BY <2>2 DEF AddGet, AddRequest, Post, HttpType
  <2>6. /\ t.u.mixed = v.mixed
        /\ \/ t.u.mRequestType = None /\ t.h = k
           \/ t.u.mRequestType = "getThreePhases" /\ t.h = AddGet(k, "getThreePhases")
    <3>1. PICK w : Follows(t, w, k, result) /\ w.mixed = v.mixed
      BY <1>8, <1>9, <2>2
    <3> QED BY <3>1 DEF Follows
  <2> QED BY <2>2, <2>3, <2>4, <2>5, <2>6 DEF t
<1> QED BY <1>6, <1>7, <1>8

----------------------------------------------------------------------------
(* The invariant of client and updater.                                    *)

\* The client does what the request type asks for, and no answer has been taken for
\* another.
Served == News(http, u.mRequestType) /\ http.done = None /\ u.mixed = FALSE

\* Whatever the HTTP client tells the API, it serves the request type afterwards.
LEMMA HandledServes ==
    ASSUME NEW h, Fine(u), u.mixed = FALSE, News(h, u.mRequestType), Handled(h)
    PROVE  Served'
<1>1. PICK result \in Results(h) :
         LET t == IF h.done = None THEN Pair(u, h) ELSE OnDone(Pair(u, h), result)
         IN  u' = t.u /\ http' = t.h
  BY DEF Handled, Pair
<1>2. CASE h.done = None
  <2>1. u' = u /\ http' = h
    BY <1>1, <1>2 DEF Pair
  <2> QED BY <1>2, <2>1 DEF Served
<1>3. CASE h.done # None
  <2> DEFINE t == OnDone(Pair(u, h), result)
  <2>1. u' = t.u /\ http' = t.h
    BY <1>1, <1>3
  <2>2. News(t.h, t.u.mRequestType) /\ t.h.done = None /\ t.u.mixed = FALSE
    BY <1>3, DoneServes
  <2> HIDE DEF t
  <2> QED BY <2>1, <2>2 DEF Served
<1> QED BY <1>2, <1>3

\* A new client does nothing.
LEMMA NewHttpServes == News(NewHttp, None) /\ NewHttp.done = None
<1>1. NewHttp \in HttpType(Kinds)
  BY SlotsAre DEF NewHttp, HttpType, State, Slot
<1>2. Line(NewHttp) /\ Idle(NewHttp) /\ NewHttp.done = None
  BY DEF NewHttp, Line, Link, Idle
<1> QED BY <1>1, <1>2 DEF News, Serves

\* The constructor's client has its first request.
LEMMA ConstructedServes ==
    ASSUME NEW multi \in BOOLEAN
    PROVE  LET t == Constructed(multi)
           IN  News(t.h, t.u.mRequestType) /\ t.h.done = None /\ t.u.mixed = FALSE
<1> DEFINE v == NewUpdater(multi)
           h == AddGet(NewHttp, "getCommonData")
           q == <<"getCommonData">>
           p == <<"DoFinished", "StartNextRequest">>
           d == [NewHttp EXCEPT !.pending = q, !.posted = p]
<1>1. Between(v) /\ v.mixed = FALSE
  BY DEF Between, NewUpdater, UpdaterType, MaxRetries
<1>2. Constructed(multi) = SendGetRequest(Pair(v, NewHttp), "getCommonData")
  BY DEF Constructed, GetCommonDataAsync, Pair
<1>3. /\ Constructed(multi).u.mRequestType = "getCommonData"
      /\ Constructed(multi).h = h /\ Constructed(multi).u.mixed = FALSE
  BY <1>1, <1>2, SendFine DEF Kinds
<1>4. /\ Append(<<>>, "getCommonData") = q /\ Len(q) = 1
      /\ Append(<<"DoFinished">>, "StartNextRequest") = p
  BY Short
<1>5. q \in Seq(Kinds \cup {Close}) /\ p \in Seq(Slot)
  <2>1. q \in Seq(Kinds \cup {Close})
    BY DEF Kinds
  <2> QED BY <2>1, SlotsAre
<1> HIDE DEF q, p
<1>6. h = d
  BY <1>4 DEF AddGet, AddRequest, Post, NewHttp
<1>7. d \in HttpType(Kinds)
  <2>1. NewHttp \in HttpType(Kinds)
    BY NewHttpServes DEF News
  <2> QED BY <1>5, <2>1 DEF HttpType, Slot
<1>8. /\ d.pending = q /\ d.posted = p /\ d.done = None /\ d.state = "Unconnected"
      /\ d.socket = "Unconnected" /\ d.open = FALSE /\ d.asked = FALSE
  BY DEF NewHttp
<1> HIDE DEF d, h
<1>9. Line(d) /\ Unstarted(d, "getCommonData")
  BY <1>8 DEF Line, Link, Unstarted, q, p
<1>10. News(d, "getCommonData")
  BY <1>7, <1>8, <1>9 DEF News, Serves, Kinds
<1> QED BY <1>3, <1>6, <1>8, <1>10

\* The client is replaced: whatever it did for the updater is over.
LEMMA UpdateServes ==
    ASSUME Fine(u), Served, UpdateHttpClient
    PROVE  Served'
<1>1. http' = NewHttp
  BY DEF UpdateHttpClient
<1>2. PICK result \in Results(Abort(http)) :
         u' = (IF Abort(http).done = None THEN Pair(u, Abort(http))
               ELSE OnDone(Pair(u, Abort(http)), result)).u
  BY DEF UpdateHttpClient, Pair
<1>3. SUFFICES u'.mRequestType = None /\ u'.mixed = FALSE
  BY <1>1, <1>3, NewHttpServes DEF Served
<1>4. /\ http.pending = <<>> => Abort(http) = http
      /\ http.pending # <<>> => Abort(http).done = "error"
  BY AbortIs DEF Served
<1>5. CASE http.pending = <<>>
  <2>1. u' = u
    BY <1>2, <1>4, <1>5 DEF Served, Pair
  <2>2. u.mRequestType = None
    BY <1>5, ServesCases, CloseFirstIs, Short DEF Served, Started, Unstarted, Closes
  <2> QED BY <2>1, <2>2 DEF Served
<1>6. CASE http.pending # <<>>
  <2> DEFINE h == Abort(http)
             t == OnDone(Pair(u, h), result)
  <2>1. h.done = "error"
    BY <1>4, <1>6
  <2>2. result # "NoError"
    BY <2>1 DEF Results
  <2>3. u' = t.u
    BY <1>2, <2>1 DEF None
  <2>4. CASE u.mRequestType = None
    <3>1. t = Pair(u, [h EXCEPT !.done = None])
      BY <2>4, DoneFine
    <3>2. u' = u
      BY <2>3, <3>1 DEF Pair
    <3> QED BY <2>4, <3>2 DEF Served
  <2>5. CASE u.mRequestType # None
    <3> DEFINE k == [h EXCEPT !.done = None]
    <3>1. \E w : Follows(t, w, k, result) /\ w.mixed = u.mixed
      BY <2>1, <2>5, DoneFine
    <3> HIDE DEF t, k
    <3>2. PICK w : Follows(t, w, k, result) /\ w.mixed = u.mixed
      BY <3>1
    <3> QED BY <2>2, <2>3, <3>2 DEF Follows, Served
  <2> QED BY <2>4, <2>5
<1> QED BY <1>5, <1>6

\* The first request is served.
LEMMA InitServed == Init => Served
  BY ConstructedServes DEF Init, Served

\* Every action keeps the client in the service of the updater.
LEMMA NextServed == IInv /\ Served /\ [Next]_vars => Served'
<1> SUFFICES ASSUME Fine(u), Served, [Next]_vars PROVE Served'
  BY DEF IInv
<1>0. News(http, u.mRequestType) /\ http.done = None /\ u.mixed = FALSE
  BY DEF Served
<1>1. CASE Recreated
  BY <1>1, ConstructedServes DEF Recreated, Served
<1>2. CASE EventLoop
  BY <1>0, <1>2, RunPostedServes, HandledServes DEF EventLoop
<1>3. CASE SocketConnects
  BY <1>0, <1>3, ConnectsServes, HandledServes DEF SocketConnects
<1>4. CASE ConnectFails
  BY <1>0, <1>4, ConnectFailsServes, HandledServes DEF ConnectFails
<1>5. CASE ServerAnswers
  BY <1>0, <1>5, ReadPartServes, ReadRestServes, ReadInvalidServes, HandledServes
     DEF ServerAnswers
<1>6. CASE ServerRefuses
  BY <1>0, <1>6, ReadUnauthorizedServes, HandledServes DEF ServerRefuses
<1>7. CASE ConnectionEnds
  BY <1>0, <1>7, ConnectionEndsServes, HandledServes DEF ConnectionEnds
<1>8. CASE OnTimeout
  <2>1. News(Abort(http), u.mRequestType)
    BY <1>0, <1>8, AbortIs DEF OnTimeout
  <2> QED BY <1>0, <1>8, <2>1, HandledServes DEF OnTimeout
<1>9. CASE OnStartRetrieval
  <2> DEFINE v == [u EXCEPT !.scheduled = @ - 1]
             k == "getCommonData"
  <2>1. u.scheduled = 1 /\ u.mRequestType = None /\ u.mTimeoutTimer = FALSE /\ u \in UpdaterType
    BY <1>9 DEF OnStartRetrieval, Fine, Polls, Covers, Count, UpdaterType
  <2>2. Between(v) /\ v.mixed = FALSE
    BY <1>0, <2>1 DEF Between, UpdaterType
  <2>3. /\ u' = SendGetRequest(Pair(v, http), k).u
        /\ http' = SendGetRequest(Pair(v, http), k).h
    BY <1>9 DEF OnStartRetrieval, GetCommonDataAsync, Pair
  <2> HIDE DEF v
  <2>4. u'.mRequestType = k /\ u'.mixed = FALSE /\ http' = AddGet(http, k)
    BY <2>2, <2>3, SendFine DEF Kinds
  <2>5. News(AddGet(http, k), k)
    BY <1>0, <1>9, <2>1, RetrievalServes DEF OnStartRetrieval, Kinds
  <2>6. AddGet(http, k).done = None
    BY <1>0 DEF AddGet, AddRequest, Post, News, HttpType
  <2> QED BY <2>4, <2>5, <2>6 DEF Served
<1>10. CASE OnConnectionDataChanged
  BY <1>10, UpdateServes DEF OnConnectionDataChanged
<1>11. CASE UNCHANGED vars
  BY <1>11 DEF vars, Served
<1> QED BY <1>1, <1>2, <1>3, <1>4, <1>5, <1>6, <1>7, <1>8, <1>9, <1>10, <1>11 DEF Next, Step

\* The client serves the updater throughout.
LEMMA ServedInvariance == Spec => []Served
  BY InitFine, NextFine, InitServed, NextServed, PTL DEF Spec

----------------------------------------------------------------------------
(* Theorems.                                                               *)

\* Either one retrieval is scheduled or one request is under way.
THEOREM PollsOnce == Spec => []OnePoll
<1>1. IInv => OnePoll
  BY DEF IInv, Fine, Polls, OnePoll
<1> QED BY <1>1, Invariance, PTL

\* The time limit runs exactly during requests.
THEOREM LimitCovers == Spec => []TimerCovers
<1>1. IInv => TimerCovers
  BY DEF IInv, Fine, Covers, TimerCovers
<1> QED BY <1>1, Invariance, PTL

\* Client and updater have their types; an inverter is given up at the latest with
\* its fifth error in a row.
THEOREM TypeCorrect == Spec => []TypeOK
<1>1. IInv /\ Served => TypeOK
  BY DEF IInv, Fine, Served, News, TypeOK
<1> QED BY <1>1, Invariance, ServedInvariance, PTL

\* No answer is taken for that of another request: before a request is sent nothing
\* is left of what answered the one before.
THEOREM AnswersMatchRequests == Spec => []AnswersBelong
<1>1. Served => AnswersBelong
  BY DEF Served, AnswersBelong
<1> QED BY <1>1, ServedInvariance, PTL

----------------------------------------------------------------------------
(* The ring buffer.                                                        *)

(* Induction, by the least counterexample.                                 *)

\* A set of natural numbers that is not empty has a smallest element.
LEMMA Smallest ==
    ASSUME NEW S, S \subseteq Nat, S # {}
    PROVE  \E x \in S : \A y \in S : x <= y
<1> DEFINE R == {ss \in Nat \X Nat : ss[1] < ss[2]}
<1>1. IsWellFoundedOn(R, Nat)
  BY NatLessThanWellFounded DEF OpToRel
<1>2. \A x, y \in Nat : <<y, x>> \in R <=> y < x
  OBVIOUS
<1> HIDE DEF R
<1>3. PICK x \in S : \A y \in S : ~(<<y, x>> \in R)
  BY <1>1, WFMin
<1>4. ASSUME NEW y \in S PROVE x <= y
  <2>1. x \in Nat /\ y \in Nat /\ ~(y < x)
    BY <1>2, <1>3
  <2> QED BY <2>1
<1> QED BY <1>4

\* What holds of 0 and of the successor of whatever it holds of holds of all.
LEMMA Induction ==
    ASSUME NEW S, 0 \in S, \A k \in Nat : k \in S => k + 1 \in S
    PROVE  Nat \subseteq S
<1> DEFINE T == Nat \ S
<1>1. CASE T # {}
  <2>1. PICK x \in T : \A y \in T : x <= y
    BY <1>1, Smallest
  <2>2. x \in Nat \ {0}
    BY <2>1
  <2>3. x - 1 \in Nat /\ x - 1 \notin T
    BY <2>1, <2>2
  <2>4. x - 1 \in S
    BY <2>3
  <2> QED BY <2>2, <2>3, <2>4
<1> QED BY <1>1

----------------------------------------------------------------------------
(* Flattened sequences.                                                    *)

\* f has the first parts, flattened, by their number.
FlatTable(f, ps, n) ==
    f = [i \in 1..n |-> IF i = 1 THEN ps[i] ELSE f[i - 1] \o ps[i]]

\* There is such a table.
LEMMA FlatExists ==
    ASSUME NEW ps, NEW n \in Nat
    PROVE  \E f : FlatTable(f, ps, n)
<1> DEFINE S == {k \in Nat : \E f : FlatTable(f, ps, k)}
<1>1. 0 \in S
  <2> DEFINE f == [i \in 1..0 |-> ps[i]]
  <2>1. FlatTable(f, ps, 0)
    BY DEF FlatTable
  <2> QED BY <2>1
<1>2. ASSUME NEW k \in Nat, k \in S PROVE k + 1 \in S
  <2>1. PICK f : FlatTable(f, ps, k)
    BY <1>2
  <2> DEFINE last == IF k = 0 THEN ps[1] ELSE f[k] \o ps[k + 1]
             g    == [i \in 1..(k + 1) |-> IF i <= k THEN f[i] ELSE last]
  <2>2. \A i \in 1..k : f[i] = IF i = 1 THEN ps[i] ELSE f[i - 1] \o ps[i]
    BY <2>1 DEF FlatTable
  <2>3. \A i \in 1..k : g[i] = f[i]
    OBVIOUS
  <2>4. g[k + 1] = last
    OBVIOUS
  <2>5. g = [i \in 1..(k + 1) |-> g[i]]
    OBVIOUS
  <2> HIDE DEF g
  <2>6. ASSUME NEW i \in 1..(k + 1)
        PROVE  g[i] = IF i = 1 THEN ps[i] ELSE g[i - 1] \o ps[i]
    <3>1. CASE i \in 1..k
      <4>1. i # 1 => i - 1 \in 1..k
        BY <3>1
      <4> QED BY <2>2, <2>3, <3>1, <4>1
    <3>2. CASE i = k + 1 /\ k # 0
      <4>1. g[i - 1] = f[k] /\ i # 1
        BY <2>3, <3>2
      <4> QED BY <2>4, <3>2, <4>1
    <3>3. CASE i = k + 1 /\ k = 0
      BY <2>4, <3>3
    <3> QED BY <3>1, <3>2, <3>3
  <2>7. FlatTable(g, ps, k + 1)
    BY <2>5, <2>6 DEF FlatTable
  <2> QED BY <2>7
<1> HIDE DEF S
<1>3. n \in S
  BY <1>1, <1>2, Induction
<1> QED BY <1>3 DEF S

\* Tables agree where their parts do.
LEMMA FlatUnique ==
    ASSUME NEW ps, NEW qs, NEW n \in Nat, NEW m \in Nat, n <= m,
           NEW f, FlatTable(f, ps, n), NEW g, FlatTable(g, qs, m),
           \A i \in 1..n : ps[i] = qs[i]
    PROVE  \A i \in 1..n : f[i] = g[i]
<1> DEFINE T == {k \in Nat : k \in 1..n => f[k] = g[k]}
<1>1. \A i \in 1..n : f[i] = IF i = 1 THEN ps[i] ELSE f[i - 1] \o ps[i]
  BY DEF FlatTable
<1>2. \A i \in 1..n : g[i] = IF i = 1 THEN qs[i] ELSE g[i - 1] \o qs[i]
  <2>1. \A i \in 1..m : g[i] = IF i = 1 THEN qs[i] ELSE g[i - 1] \o qs[i]
    BY DEF FlatTable
  <2> QED BY <2>1
<1>3. 0 \in T
  OBVIOUS
<1>4. ASSUME NEW k \in Nat, k \in T PROVE k + 1 \in T
  <2>1. SUFFICES ASSUME k + 1 \in 1..n PROVE f[k + 1] = g[k + 1]
    OBVIOUS
  <2>2. CASE k = 0
    BY <1>1, <1>2, <2>1, <2>2
  <2>3. CASE k # 0
    <3>1. f[k] = g[k]
      BY <1>4, <2>1, <2>3
    <3>2. (k + 1) - 1 = k /\ k + 1 # 1
      BY <2>3
    <3>3. f[k + 1] = f[k] \o ps[k + 1]
      BY <1>1, <2>1, <3>2
    <3>4. g[k + 1] = g[k] \o qs[k + 1]
      BY <1>2, <2>1, <3>2
    <3> QED BY <2>1, <3>1, <3>3, <3>4
  <2> QED BY <2>2, <2>3
<1> HIDE DEF T
<1>5. Nat \subseteq T
  BY <1>3, <1>4, Induction
<1> QED BY <1>5 DEF T

\* Flattening has the last entry of the table.
LEMMA FlattenIs ==
    ASSUME NEW S, NEW ps \in Seq(Seq(S)), Len(ps) # 0
    PROVE  \E f : FlatTable(f, ps, Len(ps)) /\ FlattenSeq(ps) = f[Len(ps)]
<1> DEFINE f == CHOOSE f : FlatTable(f, ps, Len(ps))
<1>1. FlattenSeq(ps) = f[Len(ps)]
  BY DEF FlattenSeq, FlatTable
<1>2. \E g : FlatTable(g, ps, Len(ps))
  <2>1. Len(ps) \in Nat
    OBVIOUS
  <2> QED BY <2>1, FlatExists
<1>3. FlatTable(f, ps, Len(ps))
  BY <1>2
<1> QED BY <1>1, <1>3

\* Nothing in no parts.
LEMMA FlattenNone == FlattenSeq(<<>>) = <<>>
BY DEF FlattenSeq

\* One more part at the end.
LEMMA FlattenAppend ==
    ASSUME NEW S, NEW ps \in Seq(Seq(S)), NEW p \in Seq(S)
    PROVE  FlattenSeq(Append(ps, p)) = FlattenSeq(ps) \o p
<1> DEFINE n == Len(ps)
           qs == Append(ps, p)
<1>1. /\ qs \in Seq(Seq(S)) /\ n \in Nat /\ Len(qs) = n + 1
      /\ \A i \in 1..n : qs[i] = ps[i]
      /\ qs[n + 1] = p
  BY AppendProperties
<1> HIDE DEF qs
<1>2. PICK g : FlatTable(g, qs, n + 1) /\ FlattenSeq(qs) = g[n + 1]
  BY <1>1, FlattenIs
<1>3. g[n + 1] = IF n + 1 = 1 THEN p ELSE g[n] \o p
  <2>1. n + 1 \in 1..(n + 1) /\ (n + 1) - 1 = n
    BY <1>1
  <2> QED BY <1>1, <1>2, <2>1 DEF FlatTable
<1>4. CASE n = 0
  <2>1. ps = <<>>
    BY <1>4
  <2>2. FlattenSeq(ps) = <<>>
    BY <2>1, FlattenNone
  <2>3. FlattenSeq(ps) \o p = p
    BY <2>2, ConcatEmptySeq
  <2> QED BY <1>2, <1>3, <1>4, <2>3 DEF qs
<1>5. CASE n # 0
  <2>1. PICK f : FlatTable(f, ps, n) /\ FlattenSeq(ps) = f[n]
    BY <1>5, FlattenIs
  <2>2. f[n] = g[n]
    <3>1. n + 1 \in Nat /\ n <= n + 1 /\ n \in 1..n
      BY <1>1, <1>5
    <3>2. \A i \in 1..n : ps[i] = qs[i]
      BY <1>1
    <3>4. FlatTable(f, ps, n) /\ FlatTable(g, qs, n + 1) /\ n \in Nat
      BY <1>1, <1>2, <2>1
    <3> HIDE DEF n
    <3>3. \A i \in 1..n : f[i] = g[i]
      BY <3>1, <3>2, <3>4, FlatUnique
    <3> QED BY <3>1, <3>3
  <2>3. g[n + 1] = g[n] \o p
    BY <1>1, <1>3, <1>5
  <2> QED BY <1>2, <2>1, <2>2, <2>3 DEF qs
<1> QED BY <1>4, <1>5

\* The elements are those of the parts.
LEMMA FlattenType ==
    ASSUME NEW S, NEW ps \in Seq(Seq(S))
    PROVE  FlattenSeq(ps) \in Seq(S)
<1> DEFINE T == {n \in Nat : \A qs \in Seq(Seq(S)) : Len(qs) = n => FlattenSeq(qs) \in Seq(S)}
<1>1. 0 \in T
  <2>1. \A qs \in Seq(Seq(S)) : Len(qs) = 0 => qs = <<>>
    OBVIOUS
  <2> QED BY <2>1, FlattenNone
<1>2. ASSUME NEW n \in Nat, n \in T PROVE n + 1 \in T
  <2> SUFFICES ASSUME NEW qs \in Seq(Seq(S)), Len(qs) = n + 1
               PROVE  FlattenSeq(qs) \in Seq(S)
    OBVIOUS
  <2>1. qs # <<>>
    OBVIOUS
  <2>2. PICK rs \in Seq(Seq(S)), p \in Seq(S) : qs = Append(rs, p)
    BY <2>1, SequenceEmptyOrAppend
  <2>3. Len(rs) = n
    BY <2>2, AppendProperties
  <2>4. FlattenSeq(rs) \in Seq(S)
    BY <1>2, <2>3
  <2> QED BY <2>2, <2>4, FlattenAppend, ConcatProperties
<1> HIDE DEF T
<1>3. Len(ps) \in T
  BY <1>1, <1>2, Induction
<1> QED BY <1>3 DEF T

\* Concatenation is associative.
LEMMA Reassociate ==
    ASSUME NEW S, NEW p \in Seq(S), NEW q \in Seq(S), NEW r \in Seq(S)
    PROVE  (p \o q) \o r = p \o (q \o r)
OBVIOUS

\* The parts of two lists.
LEMMA FlattenConcat ==
    ASSUME NEW S, NEW ps \in Seq(Seq(S)), NEW qs \in Seq(Seq(S))
    PROVE  FlattenSeq(ps \o qs) = FlattenSeq(ps) \o FlattenSeq(qs)
<1>00. \A x, y, z \in Seq(S) : (x \o y) \o z = x \o (y \o z)
  BY Reassociate, SMTT(60)
<1> DEFINE T == {n \in Nat : \A rs \in Seq(Seq(S)) :
                    Len(rs) = n => FlattenSeq(ps \o rs) = FlattenSeq(ps) \o FlattenSeq(rs)}
<1>0. FlattenSeq(ps) \in Seq(S)
  BY FlattenType
<1>1. 0 \in T
  <2>1. \A rs \in Seq(Seq(S)) : Len(rs) = 0 => rs = <<>>
    OBVIOUS
  <2>2. ps \o <<>> = ps /\ FlattenSeq(ps) \o <<>> = FlattenSeq(ps)
    BY <1>0, ConcatEmptySeq
  <2> QED BY <2>1, <2>2, FlattenNone
<1>2. ASSUME NEW n \in Nat, n \in T PROVE n + 1 \in T
  <2> SUFFICES ASSUME NEW rs \in Seq(Seq(S)), Len(rs) = n + 1
               PROVE  FlattenSeq(ps \o rs) = FlattenSeq(ps) \o FlattenSeq(rs)
    OBVIOUS
  <2>1. rs # <<>>
    OBVIOUS
  <2>2. PICK ts \in Seq(Seq(S)), p \in Seq(S) : rs = Append(ts, p)
    BY <2>1, SequenceEmptyOrAppend
  <2>3. Len(ts) = n
    BY <2>2, AppendProperties
  <2>4. FlattenSeq(ps \o ts) = FlattenSeq(ps) \o FlattenSeq(ts)
    BY <1>2, <2>3
  <2>5. ps \o rs = Append(ps \o ts, p) /\ ps \o ts \in Seq(Seq(S))
    BY <2>2
  <2>6. FlattenSeq(ps \o rs) = (FlattenSeq(ps) \o FlattenSeq(ts)) \o p
    BY <2>4, <2>5, FlattenAppend
  <2>7. FlattenSeq(ts) \in Seq(S)
    BY FlattenType
  <2> DEFINE a == FlattenSeq(ps)
             later == FlattenSeq(ts)
  <2>10. a \in Seq(S) /\ later \in Seq(S) /\ p \in Seq(S)
    BY <1>0, <2>7
  <2> HIDE DEF a, later
  <2>8. (a \o later) \o p = a \o (later \o p)
    BY <1>00, <2>10, Zenon
  <2>9. FlattenSeq(rs) = FlattenSeq(ts) \o p
    BY <2>2, FlattenAppend
  <2> QED BY <2>6, <2>8, <2>9 DEF a, later
<1> HIDE DEF T
<1>3. Len(qs) \in T
  <2>1. Len(qs) \in Nat
    OBVIOUS
  <2> QED BY <1>1, <1>2, <2>1, Induction
<1> QED BY <1>3 DEF T

\* A single part.
LEMMA FlattenOne ==
    ASSUME NEW S, NEW p \in Seq(S)
    PROVE  FlattenSeq(<<p>>) = p
<1>1. <<>> \in Seq(Seq(S)) /\ <<p>> = Append(<<>>, p)
  OBVIOUS
<1>2. FlattenSeq(<<p>>) = FlattenSeq(<<>>) \o p
  BY <1>1, FlattenAppend
<1> QED BY <1>2, FlattenNone, ConcatEmptySeq

\* Before a part and from it on.
LEMMA FlattenSplit ==
    ASSUME NEW S, NEW ps \in Seq(Seq(S)), NEW k \in 0..Len(ps)
    PROVE  /\ SubSeq(ps, 1, k) \in Seq(Seq(S))
           /\ SubSeq(ps, k + 1, Len(ps)) \in Seq(Seq(S))
           /\ FlattenSeq(ps) = FlattenSeq(SubSeq(ps, 1, k))
                               \o FlattenSeq(SubSeq(ps, k + 1, Len(ps)))
<1>1. \A i \in 1..Len(ps) : ps[i] \in Seq(S)
  OBVIOUS
<1>2. SubSeq(ps, 1, k) \in Seq(Seq(S)) /\ SubSeq(ps, k + 1, Len(ps)) \in Seq(Seq(S))
  BY <1>1, SubSeqProperties
<1>3. SubSeq(ps, 1, k) \o SubSeq(ps, k + 1, Len(ps)) = SubSeq(ps, 1, Len(ps))
  <2>1. /\ Len(ps) \in Nat /\ 1 \in 1..(Len(ps) + 1) /\ k \in (1 - 1)..Len(ps)
        /\ Len(ps) \in k..Len(ps)
    OBVIOUS
  <2> QED BY <2>1, ConcatAdjacentSubSeq
<1>4. SubSeq(ps, 1, Len(ps)) = ps
  BY SubSeqFull
<1> QED BY <1>2, <1>3, <1>4, FlattenConcat, ZenonT(60)

\* One more part at the front.
LEMMA FlattenCons ==
    ASSUME NEW S, NEW p \in Seq(S), NEW ps \in Seq(Seq(S))
    PROVE  FlattenSeq(<<p>> \o ps) = p \o FlattenSeq(ps)
<1>1. <<p>> \in Seq(Seq(S))
  OBVIOUS
<1>2. FlattenSeq(<<p>> \o ps) = FlattenSeq(<<p>>) \o FlattenSeq(ps)
  BY <1>1, FlattenConcat
<1> QED BY <1>2, FlattenOne

\* The first part and the rest.
LEMMA FlattenHead ==
    ASSUME NEW S, NEW ps \in Seq(Seq(S)), ps # <<>>
    PROVE  /\ ps[1] \in Seq(S)
           /\ Tail(ps) \in Seq(Seq(S))
           /\ FlattenSeq(ps) = ps[1] \o FlattenSeq(Tail(ps))
<1>1. ps[1] \in Seq(S) /\ Tail(ps) \in Seq(Seq(S)) /\ ps = <<ps[1]>> \o Tail(ps)
  OBVIOUS
<1>2. PICK p \in Seq(S) : p = ps[1]
  BY <1>1
<1>3. FlattenSeq(<<p>> \o Tail(ps)) = p \o FlattenSeq(Tail(ps))
  BY <1>1, FlattenCons
<1> QED BY <1>1, <1>2, <1>3

\* A part that is not empty makes the whole not empty.
LEMMA FlattenEmpty ==
    ASSUME NEW S, NEW ps \in Seq(Seq(S)), NEW k \in 1..Len(ps)
    PROVE  Len(ps[k]) <= Len(FlattenSeq(ps))
<1> DEFINE a == SubSeq(ps, 1, k - 1)
           r == SubSeq(ps, k, Len(ps))
<1>1. k - 1 \in 0..Len(ps) /\ (k - 1) + 1 = k /\ Len(ps) \in Nat
  OBVIOUS
<1>2. a \in Seq(Seq(S)) /\ r \in Seq(Seq(S))
      /\ FlattenSeq(ps) = FlattenSeq(a) \o FlattenSeq(r)
  BY <1>1, FlattenSplit
<1>3. Len(r) = Len(ps) - k + 1 /\ r[1] = ps[k]
  <2>1. \A i \in k..Len(ps) : ps[i] \in Seq(S)
    BY <1>1
  <2>2. /\ Len(r) = IF k <= Len(ps) THEN Len(ps) - k + 1 ELSE 0
        /\ \A i \in 1..(Len(ps) - k + 1) : r[i] = ps[k + i - 1]
    BY <1>1, <2>1, SubSeqProperties
  <2>3. 1 \in 1..(Len(ps) - k + 1) /\ k + 1 - 1 = k
    BY <1>1
  <2> HIDE DEF r
  <2> QED BY <1>1, <2>2, <2>3
<1> HIDE DEF a, r
<1>4. r # <<>>
  BY <1>1, <1>3
<1>5. FlattenSeq(r) = ps[k] \o FlattenSeq(Tail(r)) /\ ps[k] \in Seq(S) /\ Tail(r) \in Seq(Seq(S))
  BY <1>2, <1>3, <1>4, FlattenHead
<1>6. FlattenSeq(Tail(r)) \in Seq(S) /\ FlattenSeq(a) \in Seq(S) /\ FlattenSeq(r) \in Seq(S)
  BY <1>2, <1>5, FlattenType
<1>7. /\ Len(FlattenSeq(r)) = Len(ps[k]) + Len(FlattenSeq(Tail(r)))
      /\ Len(FlattenSeq(ps)) = Len(FlattenSeq(a)) + Len(FlattenSeq(r))
  BY <1>2, <1>5, <1>6, ConcatProperties
<1>8. Len(FlattenSeq(Tail(r))) \in Nat /\ Len(FlattenSeq(a)) \in Nat /\ Len(ps[k]) \in Nat
  BY <1>5, <1>6
<1> QED BY <1>7, <1>8

\* What a byte of a block can be.
Stuff == Bytes \cup {Junk}

\* Two sequences are the same if their elements are.
LEMMA SameSeq ==
    ASSUME NEW S, NEW p \in Seq(S), NEW q \in Seq(S), Len(p) = Len(q),
           \A i \in 1..Len(p) : p[i] = q[i]
    PROVE  p = q
OBVIOUS

\* A piece of a sequence.
LEMMA Piece ==
    ASSUME NEW S, NEW s \in Seq(S), NEW m \in Nat, NEW n \in Nat, m <= n, n <= Len(s)
    PROVE  /\ SubSeq(s, m + 1, n) \in Seq(S)
           /\ Len(SubSeq(s, m + 1, n)) = n - m
           /\ \A i \in 1..(n - m) : SubSeq(s, m + 1, n)[i] = s[m + i]
<1>1. \A i \in (m + 1)..n : s[i] \in S
  OBVIOUS
<1>2. m + 1 \in Int /\ n \in Int
  OBVIOUS
<1>3. /\ SubSeq(s, m + 1, n) \in Seq(S)
      /\ Len(SubSeq(s, m + 1, n)) = IF m + 1 <= n THEN n - (m + 1) + 1 ELSE 0
      /\ \A i \in 1..(n - (m + 1) + 1) : SubSeq(s, m + 1, n)[i] = s[(m + 1) + i - 1]
  BY <1>1, <1>2, SubSeqProperties
<1> QED BY <1>3

\* What is written is found.
LEMMA WrittenFound ==
    ASSUME NEW block \in Seq(Stuff), NEW data \in Seq(Stuff), NEW from \in Nat, NEW at \in Nat,
           from <= at, at + Len(data) <= Len(block)
    PROVE  /\ Written(block, at, data) \in Seq(Stuff)
           /\ Len(Written(block, at, data)) = Len(block)
           /\ SubSeq(Written(block, at, data), from + 1, at + Len(data))
              = SubSeq(block, from + 1, at) \o data
<1> DEFINE w == Written(block, at, data)
           n == Len(data)
<1>1. w \in Seq(Stuff) /\ Len(w) = Len(block)
  BY DEF Written, Stuff
<1>2. \A i \in 1..Len(block) : w[i] = IF i > at /\ i <= at + n THEN data[i - at] ELSE block[i]
  BY DEF Written
<1>3. n \in Nat /\ at + n \in Nat /\ from <= at + n /\ at <= Len(block)
  OBVIOUS
<1> HIDE DEF w, n
<1>4. /\ SubSeq(w, from + 1, at + n) \in Seq(Stuff)
      /\ Len(SubSeq(w, from + 1, at + n)) = at + n - from
      /\ \A i \in 1..(at + n - from) : SubSeq(w, from + 1, at + n)[i] = w[from + i]
  BY <1>1, <1>3, Piece DEF n
<1>5. /\ SubSeq(block, from + 1, at) \in Seq(Stuff)
      /\ Len(SubSeq(block, from + 1, at)) = at - from
      /\ \A i \in 1..(at - from) : SubSeq(block, from + 1, at)[i] = block[from + i]
  BY <1>3, Piece
<1> DEFINE p == SubSeq(w, from + 1, at + n)
           a == SubSeq(block, from + 1, at)
           q == a \o data
<1> HIDE DEF p, a
<1>6. /\ q \in Seq(Stuff) /\ Len(q) = at - from + n
      /\ \A i \in 1..(at - from + n) : q[i] = IF i <= at - from THEN a[i] ELSE data[i - (at - from)]
  <2>1. /\ a \in Seq(Stuff) /\ Len(a) = at - from /\ Len(data) = n
    BY <1>5 DEF a, n
  <2>2. /\ q \in Seq(Stuff) /\ Len(q) = Len(a) + Len(data)
        /\ \A i \in 1..(Len(a) + Len(data)) :
              q[i] = IF i <= Len(a) THEN a[i] ELSE data[i - Len(a)]
    BY <2>1, ConcatProperties
  <2> HIDE DEF q
  <2> QED BY <2>1, <2>2
<1> HIDE DEF q
<1>7. ASSUME NEW i \in 1..(at + n - from) PROVE p[i] = q[i]
  <2>1. p[i] = w[from + i] /\ from + i \in 1..Len(block)
    BY <1>3, <1>4 DEF p, n
  <2>2. CASE i <= at - from
    <3>1. w[from + i] = block[from + i]
      BY <1>2, <2>1, <2>2
    <3>2. q[i] = a[i] /\ a[i] = block[from + i]
      BY <1>3, <1>5, <1>6, <2>2 DEF a
    <3> QED BY <2>1, <3>1, <3>2
  <2>3. CASE i > at - from
    <3>1. w[from + i] = data[from + i - at]
      BY <1>2, <1>3, <2>1, <2>3
    <3>2. q[i] = data[i - (at - from)]
      BY <1>3, <1>6, <2>3
    <3>3. from + i - at = i - (at - from)
      BY <1>3
    <3> QED BY <2>1, <3>1, <3>2, <3>3
  <2> QED BY <2>2, <2>3, <1>3
<1>8. p = q
  <2>1. Len(p) = Len(q) /\ Len(p) = at + n - from /\ p \in Seq(Stuff) /\ q \in Seq(Stuff)
    BY <1>3, <1>4, <1>6 DEF p
  <2> QED BY <1>7, <2>1, SameSeq
<1> QED BY <1>1, <1>8 DEF p, q, a, w, n

\* Resizing keeps what fits.
LEMMA ResizeKeeps ==
    ASSUME NEW block \in Seq(Stuff), NEW size \in Nat, NEW from \in Nat, NEW to \in Nat,
           from <= to, to <= Len(block), to <= size
    PROVE  /\ Resize(block, size) \in Seq(Stuff)
           /\ Len(Resize(block, size)) = size
           /\ SubSeq(Resize(block, size), from + 1, to) = SubSeq(block, from + 1, to)
<1> DEFINE w == Resize(block, size)
<1>1. /\ w \in Seq(Stuff) /\ Len(w) = size
      /\ \A i \in 1..size : w[i] = IF i <= Len(block) THEN block[i] ELSE Junk
  BY DEF Resize, Stuff
<1> HIDE DEF w
<1> DEFINE p == SubSeq(w, from + 1, to)
           q == SubSeq(block, from + 1, to)
<1>2. /\ p \in Seq(Stuff) /\ Len(p) = to - from
      /\ \A i \in 1..(to - from) : p[i] = w[from + i]
  BY <1>1, Piece
<1>3. /\ q \in Seq(Stuff) /\ Len(q) = to - from
      /\ \A i \in 1..(to - from) : q[i] = block[from + i]
  BY Piece
<1> HIDE DEF p, q
<1>4. \A i \in 1..(to - from) : w[from + i] = block[from + i]
  BY <1>1
<1>5. p = q
  BY <1>2, <1>3, <1>4, SameSeq
<1> QED BY <1>1, <1>5 DEF p, q, w

\* More in the last part.
LEMMA FlattenMore ==
    ASSUME NEW S, NEW ps \in Seq(Seq(S)), ps # <<>>, NEW d \in Seq(S)
    PROVE  FlattenSeq([ps EXCEPT ![Len(ps)] = @ \o d]) = FlattenSeq(ps) \o d
<1>1. PICK rs \in Seq(Seq(S)), p \in Seq(S) : ps = Append(rs, p)
  BY SequenceEmptyOrAppend
<1>2. Len(ps) = Len(rs) + 1 /\ ps[Len(ps)] = p /\ \A i \in 1..Len(rs) : ps[i] = rs[i]
  BY <1>1, AppendProperties
<1> DEFINE qs == [ps EXCEPT ![Len(ps)] = @ \o d]
           ts == Append(rs, p \o d)
<1>3. p \o d \in Seq(S)
  BY ConcatProperties
<1>4. /\ ts \in Seq(Seq(S)) /\ Len(ts) = Len(rs) + 1
      /\ \A i \in 1..Len(rs) : ts[i] = rs[i]
      /\ ts[Len(rs) + 1] = p \o d
  BY <1>3, AppendProperties
<1>5. /\ qs \in Seq(Seq(S)) /\ Len(qs) = Len(ps)
      /\ \A i \in 1..Len(ps) : qs[i] = IF i = Len(ps) THEN ps[i] \o d ELSE ps[i]
  <2>1. \A i \in 1..Len(ps) : ps[i] \in Seq(S)
    OBVIOUS
  <2>2. ps[Len(ps)] \o d \in Seq(S)
    BY <1>2, <1>3
  <2> QED BY <2>1, <2>2
<1> HIDE DEF qs, ts
<1>6. qs = ts
  <2>1. ASSUME NEW i \in 1..Len(qs) PROVE qs[i] = ts[i]
    <3>1. CASE i = Len(ps)
      BY <1>2, <1>4, <1>5, <3>1
    <3>2. CASE i # Len(ps)
      <4>1. i \in 1..Len(rs) /\ i \in 1..Len(ps)
        BY <1>2, <1>5, <3>2
      <4>2. qs[i] = ps[i] /\ ps[i] = rs[i] /\ ts[i] = rs[i]
        BY <1>2, <1>4, <1>5, <3>2, <4>1
      <4> QED BY <4>2
    <3> QED BY <3>1, <3>2
  <2>2. Len(qs) = Len(ts)
    BY <1>2, <1>4, <1>5
  <2> QED BY <1>4, <1>5, <2>1, <2>2, SameSeq
<1>7. FlattenSeq(ts) = FlattenSeq(rs) \o (p \o d)
  BY <1>3, FlattenAppend DEF ts
<1>8. FlattenSeq(ps) = FlattenSeq(rs) \o p
  BY <1>1, FlattenAppend
<1>9. (FlattenSeq(rs) \o p) \o d = FlattenSeq(rs) \o (p \o d)
  BY FlattenType, Reassociate, SMTT(60)
<1> QED BY <1>6, <1>7, <1>8, <1>9 DEF qs

\* The members.
BufferType ==
    [buffers : Seq(Seq(Stuff)), head : Nat, tail : Nat, tailBuffer : Nat, bufferSize : Nat]

\* The blocks and the positions in them.
Shape(r) ==
    /\ r \in BufferType
    /\ Len(r.buffers) = r.tailBuffer + 1
    /\ r.tail <= Len(r.buffers[r.tailBuffer + 1])
    /\ r.head <= End(r, 0)

\* At most one part is empty.
OneEmpty(ps) ==
    \A j, k \in 1..Len(ps) : Len(ps[j]) = 0 /\ Len(ps[k]) = 0 => j = k

\* What is stored is what was written, and bufferSize of it; only one of
\* the blocks can be empty, and the only one begins at 0 then.
Stores(r) ==
    /\ Parts(r) \in Seq(Seq(Bytes))
    /\ OneEmpty(Parts(r))
    /\ r.bufferSize = Len(Content(r))
    /\ r.tailBuffer = 0 /\ r.head = r.tail => r.tail = 0

\* The inductive invariant.
Ring(r) == Shape(r) /\ Stores(r)

\* The numbers up to m are those up to its successor but for that.
LEMMA Below == \A m \in Nat : \A k \in 1..m : k \in 1..(m + 1) /\ k # m + 1
OBVIOUS

\* What the invariant says of each part.
LEMMA PartsAre ==
    ASSUME NEW r, Shape(r)
    PROVE  /\ Parts(r) \in Seq(Seq(Stuff))
           /\ Len(Parts(r)) = r.tailBuffer + 1
           /\ \A k \in 1..(r.tailBuffer + 1) :
                /\ r.buffers[k] \in Seq(Stuff)
                /\ Begin(r, k - 1) = IF k = 1 THEN r.head ELSE 0
                /\ End(r, k - 1) = IF k = r.tailBuffer + 1 THEN r.tail ELSE Len(r.buffers[k])
                /\ Begin(r, k - 1) \in Nat /\ End(r, k - 1) \in Nat
                /\ Begin(r, k - 1) <= End(r, k - 1)
                /\ End(r, k - 1) <= Len(r.buffers[k])
                /\ Parts(r)[k] = SubSeq(r.buffers[k], Begin(r, k - 1) + 1, End(r, k - 1))
                /\ Parts(r)[k] \in Seq(Stuff)
                /\ Len(Parts(r)[k]) = End(r, k - 1) - Begin(r, k - 1)
<1>1. /\ r.buffers \in Seq(Seq(Stuff)) /\ r.head \in Nat /\ r.tail \in Nat
      /\ r.tailBuffer \in Nat /\ Len(r.buffers) = r.tailBuffer + 1
      /\ r.tail <= Len(r.buffers[r.tailBuffer + 1])
      /\ r.head <= End(r, 0)
  BY DEF Shape, BufferType
<1>2. /\ \A k \in 1..(r.tailBuffer + 1) :
           Parts(r)[k] = SubSeq(r.buffers[k], Begin(r, k - 1) + 1, End(r, k - 1))
      /\ DOMAIN Parts(r) = 1..(r.tailBuffer + 1)
      /\ Parts(r) = [k \in 1..(r.tailBuffer + 1) |-> Parts(r)[k]]
  BY <1>1 DEF Parts
<1>3. ASSUME NEW k \in 1..(r.tailBuffer + 1)
      PROVE  /\ r.buffers[k] \in Seq(Stuff)
             /\ Begin(r, k - 1) = IF k = 1 THEN r.head ELSE 0
             /\ End(r, k - 1) = IF k = r.tailBuffer + 1 THEN r.tail ELSE Len(r.buffers[k])
             /\ Begin(r, k - 1) \in Nat /\ End(r, k - 1) \in Nat
             /\ Begin(r, k - 1) <= End(r, k - 1)
             /\ End(r, k - 1) <= Len(r.buffers[k])
  <2>1. r.buffers[k] \in Seq(Stuff)
    BY <1>1
  <2>2. Begin(r, k - 1) = IF k = 1 THEN r.head ELSE 0
    BY DEF Begin
  <2>3. End(r, k - 1) = IF k = r.tailBuffer + 1 THEN r.tail ELSE Len(r.buffers[k])
    <3>1. (k - 1) + 1 = k /\ (k - 1 = r.tailBuffer <=> k = r.tailBuffer + 1)
      BY <1>1
    <3> QED BY <3>1 DEF End, Block
  <2>4. Begin(r, k - 1) \in Nat /\ End(r, k - 1) \in Nat
    BY <1>1, <2>1, <2>2, <2>3
  <2>5. k = 1 => Begin(r, k - 1) <= End(r, k - 1)
    BY <1>1, <2>2
  <2>6. Begin(r, k - 1) <= End(r, k - 1)
    BY <1>1, <2>2, <2>4, <2>5
  <2>7. End(r, k - 1) <= Len(r.buffers[k])
    BY <1>1, <2>1, <2>3
  <2> QED BY <2>1, <2>2, <2>3, <2>4, <2>6, <2>7
<1>4. ASSUME NEW k \in 1..(r.tailBuffer + 1)
      PROVE  /\ Parts(r)[k] \in Seq(Stuff)
             /\ Len(Parts(r)[k]) = End(r, k - 1) - Begin(r, k - 1)
  <2> DEFINE from == Begin(r, k - 1)
             to   == End(r, k - 1)
  <2>1. from \in Nat /\ to \in Nat /\ from <= to /\ to <= Len(r.buffers[k])
        /\ r.buffers[k] \in Seq(Stuff)
    BY <1>3
  <2>2. Parts(r)[k] = SubSeq(r.buffers[k], from + 1, to)
    BY <1>2
  <2> HIDE DEF from, to
  <2>3. Parts(r)[k] \in Seq(Stuff) /\ Len(Parts(r)[k]) = to - from
    BY <2>1, <2>2, Piece
  <2> QED BY <2>3 DEF from, to
<1>5. Parts(r) \in Seq(Seq(Stuff)) /\ Len(Parts(r)) = r.tailBuffer + 1
  <2> DEFINE m == r.tailBuffer + 1
             p == Parts(r)
  <2>1. m \in Nat /\ p = [k \in 1..m |-> p[k]] /\ \A k \in 1..m : p[k] \in Seq(Stuff)
    <3>1. m \in Nat
      BY <1>1
    <3>2. p = [k \in 1..m |-> p[k]]
      BY <1>2
    <3>3. \A k \in 1..m : p[k] \in Seq(Stuff)
      BY <1>4
    <3> QED BY <3>1, <3>2, <3>3
  <2> HIDE DEF m, p
  <2>2. p \in Seq(Seq(Stuff)) /\ Len(p) = m
    BY <2>1
  <2> QED BY <2>2 DEF m, p
<1> QED BY <1>2, <1>3, <1>4, <1>5

\* A sequence over a set is one over a larger set.
LEMMA WiderSeq ==
    ASSUME NEW S, NEW T, S \subseteq T, NEW p \in Seq(S)
    PROVE  p \in Seq(T)
<1>1. \A i \in 1..Len(p) : p[i] \in T
  OBVIOUS
<1>2. p = [i \in 1..Len(p) |-> p[i]] /\ Len(p) \in Nat
  OBVIOUS
<1> QED BY <1>1, <1>2

\* Written bytes are bytes of a block.
LEMMA BytesAreStuff == /\ Seq(Bytes) \subseteq Seq(Stuff)
                       /\ Seq(Seq(Bytes)) \subseteq Seq(Seq(Stuff))
<1>1. Seq(Bytes) \subseteq Seq(Stuff)
  <2>1. Bytes \subseteq Stuff
    BY DEF Stuff
  <2> QED BY <2>1, WiderSeq
<1>2. Seq(Seq(Bytes)) \subseteq Seq(Seq(Stuff))
  BY <1>1, WiderSeq
<1> QED BY <1>1, <1>2

\* The parts of a buffer are given by their number and each of them.
LEMMA SameParts ==
    ASSUME NEW r, Shape(r), NEW ps \in Seq(Seq(Bytes)), Len(ps) = r.tailBuffer + 1,
           \A k \in 1..(r.tailBuffer + 1) : Parts(r)[k] = ps[k]
    PROVE  Parts(r) = ps
<1>1. Parts(r) \in Seq(Seq(Stuff)) /\ Len(Parts(r)) = r.tailBuffer + 1
  BY PartsAre
<1>2. ps \in Seq(Seq(Stuff))
  BY BytesAreStuff
<1> QED BY <1>1, <1>2, SameSeq

\* Data are written where the last block has been made long enough.
LEMMA WriteTail ==
    ASSUME NEW s \in BufferType, Len(s.buffers) = s.tailBuffer + 1,
           NEW at \in Nat, NEW data \in Seq(Bytes),
           at + Len(data) <= Len(s.buffers[s.tailBuffer + 1]),
           s.tailBuffer = 0 => s.head <= at,
           s.tailBuffer # 0 => s.head <= Len(s.buffers[1])
    PROVE  /\ Shape(WrittenAt(s, at, data))
           /\ WrittenAt(s, at, data).tailBuffer = s.tailBuffer
           /\ WrittenAt(s, at, data).bufferSize = s.bufferSize + Len(data)
           /\ \A k \in 1..s.tailBuffer :
                Parts(WrittenAt(s, at, data))[k]
                = SubSeq(s.buffers[k], Begin(s, k - 1) + 1, Len(s.buffers[k]))
           /\ Parts(WrittenAt(s, at, data))[s.tailBuffer + 1]
              = SubSeq(s.buffers[s.tailBuffer + 1], Begin(s, s.tailBuffer) + 1, at) \o data
<1> DEFINE w == WrittenAt(s, at, data)
           l == s.tailBuffer + 1
           last == s.buffers[l]
           from == Begin(s, s.tailBuffer)
<1>1. /\ s.buffers \in Seq(Seq(Stuff)) /\ s.head \in Nat /\ s.tail \in Nat
      /\ s.tailBuffer \in Nat /\ l \in 1..Len(s.buffers)
  BY DEF BufferType
<1>2. last \in Seq(Stuff) /\ data \in Seq(Stuff) /\ Len(data) \in Nat
  BY <1>1 DEF Stuff
<1>3. from \in Nat /\ from <= at
  BY <1>1 DEF Begin
<1>4. /\ Written(last, at, data) \in Seq(Stuff)
      /\ Len(Written(last, at, data)) = Len(last)
      /\ SubSeq(Written(last, at, data), from + 1, at + Len(data))
         = SubSeq(last, from + 1, at) \o data
  <2>1. at + Len(data) <= Len(last)
    OBVIOUS
  <2> HIDE DEF from, last, w, l
  <2> QED BY <1>2, <1>3, <2>1, WrittenFound, Zenon
<1>5. /\ w.buffers = [s.buffers EXCEPT ![l] = Written(last, at, data)]
      /\ w.head = s.head /\ w.tail = at + Len(data) /\ w.tailBuffer = s.tailBuffer
      /\ w.bufferSize = s.bufferSize + Len(data)
      /\ w = [buffers |-> w.buffers, head |-> w.head, tail |-> w.tail,
              tailBuffer |-> w.tailBuffer, bufferSize |-> w.bufferSize]
  <2>1. s = [buffers |-> s.buffers, head |-> s.head, tail |-> s.tail,
             tailBuffer |-> s.tailBuffer, bufferSize |-> s.bufferSize]
    BY DEF BufferType
  <2>2. w = [s EXCEPT !.buffers = [s.buffers EXCEPT ![l] = Written(last, at, data)],
                      !.tail = at + Len(data), !.bufferSize = s.bufferSize + Len(data)]
    BY <2>1 DEF WrittenAt
  <2> HIDE DEF w, last, l
  <2> QED BY <2>1, <2>2
<1>6. /\ w.buffers \in Seq(Seq(Stuff)) /\ Len(w.buffers) = l
      /\ \A k \in 1..l : w.buffers[k] = IF k = l THEN Written(last, at, data) ELSE s.buffers[k]
  <2> HIDE DEF w, last
  <2> QED BY <1>1, <1>4, <1>5
<1>15. l = s.tailBuffer + 1 /\ s.tailBuffer \in Nat /\ l \in Nat
  BY <1>1
<1>16. ASSUME NEW k \in 1..s.tailBuffer
       PROVE  k \in 1..l /\ k # l /\ w.buffers[k] = s.buffers[k]
  <2>1. k \in 1..l /\ k # l
    BY <1>15, Below, Zenon
  <2> HIDE DEF w, last, l, from
  <2> QED BY <1>6, <2>1
<1>7. w \in BufferType
  <2> HIDE DEF w
  <2>1. s.bufferSize \in Nat
    BY DEF BufferType
  <2>2. at + Len(data) \in Nat /\ s.bufferSize + Len(data) \in Nat
    BY <1>2, <2>1
  <2> QED BY <1>1, <1>5, <1>6, <2>2 DEF BufferType
<1>8. Shape(w)
  <2>1. w.tail <= Len(w.buffers[w.tailBuffer + 1])
    <3>1. w.buffers[l] = Written(last, at, data)
      BY <1>1, <1>6
    <3> QED BY <1>4, <1>5, <3>1
  <2>2. w.head <= End(w, 0)
    <3>1. CASE s.tailBuffer = 0
      BY <1>1, <1>2, <1>5, <3>1 DEF End
    <3>2. CASE s.tailBuffer # 0
      <4>1. w.buffers[1] = s.buffers[1]
        <5>1. 1 \in 1..s.tailBuffer
          BY <1>15, <3>2
        <5> QED BY <1>16, <5>1
      <4> QED BY <1>5, <3>2, <4>1 DEF End, Block
    <3> QED BY <3>1, <3>2
  <2> QED BY <1>5, <1>6, <1>7, <2>1, <2>2 DEF Shape
<1>9. ASSUME NEW k \in 1..l
      PROVE  Parts(w)[k] = SubSeq(w.buffers[k], Begin(s, k - 1) + 1, End(w, k - 1))
  <2>1. Begin(w, k - 1) = Begin(s, k - 1)
    BY <1>5 DEF Begin
  <2>2. k \in 1..(w.tailBuffer + 1)
    BY <1>5
  <2>3. Parts(w)[k] = SubSeq(w.buffers[k], Begin(w, k - 1) + 1, End(w, k - 1))
    <3> HIDE DEF w, l
    <3> QED BY <1>8, <2>2, PartsAre
  <2> QED BY <2>1, <2>3
<1>10. ASSUME NEW k \in 1..s.tailBuffer
       PROVE  Parts(w)[k] = SubSeq(s.buffers[k], Begin(s, k - 1) + 1, Len(s.buffers[k]))
  <2>1. k \in 1..l /\ k # l
    BY <1>16
  <2>2. w.buffers[k] = s.buffers[k]
    BY <1>16
  <2>3. End(w, k - 1) = Len(w.buffers[k])
    BY <1>1, <1>5, SMTT(60) DEF End, Block
  <2> QED BY <1>9, <2>1, <2>2, <2>3
<1>11. Parts(w)[l] = SubSeq(last, from + 1, at) \o data
  <2>1. l \in 1..l /\ l - 1 = s.tailBuffer
    BY <1>1
  <2>2. End(w, l - 1) = at + Len(data)
    BY <1>5, <2>1 DEF End
  <2>3. w.buffers[l] = Written(last, at, data)
    BY <1>6, <2>1
  <2> HIDE DEF w, l, last
  <2> QED BY <1>4, <1>9, <2>1, <2>2, <2>3
<1> QED BY <1>5, <1>8, <1>10, <1>11

\* Data in the last part.
LEMMA GrownParts ==
    ASSUME NEW ps \in Seq(Seq(Bytes)), NEW qs \in Seq(Seq(Stuff)), NEW n \in Nat,
           Len(ps) = n + 1, Len(qs) = n + 1, OneEmpty(ps),
           NEW d \in Seq(Bytes), d # <<>>,
           \A k \in 1..n : qs[k] = ps[k],
           qs[n + 1] = ps[n + 1] \o d
    PROVE  /\ qs \in Seq(Seq(Bytes))
           /\ OneEmpty(qs)
           /\ Len(qs[n + 1]) # 0
           /\ FlattenSeq(qs) = FlattenSeq(ps) \o d
<1> DEFINE ts == [ps EXCEPT ![Len(ps)] = @ \o d]
<1>1. ps # <<>> /\ \A k \in 1..(n + 1) : ps[k] \in Seq(Bytes)
  OBVIOUS
<1>2. n + 1 \in 1..(n + 1) /\ \A k \in 1..(n + 1) : k = n + 1 \/ k \in 1..n
  OBVIOUS
<1>3. /\ ps[n + 1] \o d \in Seq(Bytes)
      /\ Len(ps[n + 1] \o d) = Len(ps[n + 1]) + Len(d)
      /\ Len(ps[n + 1]) \in Nat /\ Len(d) \in Nat /\ Len(d) # 0
  <2>1. PICK p \in Seq(Bytes) : p = ps[n + 1]
    BY <1>1, <1>2
  <2>2. p \o d \in Seq(Bytes) /\ Len(p \o d) = Len(p) + Len(d)
    BY ConcatProperties
  <2>3. Len(p) \in Nat /\ Len(d) \in Nat /\ Len(d) # 0
    OBVIOUS
  <2> QED BY <2>1, <2>2, <2>3
<1>4. /\ ts \in Seq(Seq(Bytes)) /\ Len(ts) = n + 1
      /\ \A k \in 1..(n + 1) : ts[k] = IF k = n + 1 THEN ps[n + 1] \o d ELSE ps[k]
  BY <1>1, <1>2, <1>3
<1> HIDE DEF ts
<1>5. \A k \in 1..(n + 1) : qs[k] = ts[k]
  BY <1>2, <1>4
<1>6. qs = ts
  <2>1. ts \in Seq(Seq(Stuff))
    BY <1>4, BytesAreStuff
  <2> QED BY <1>4, <1>5, <2>1, SameSeq
<1>7. Len(qs[n + 1]) # 0
  BY <1>3
<1>8. OneEmpty(qs)
  <2> SUFFICES ASSUME NEW j \in 1..(n + 1), NEW k \in 1..(n + 1),
                      Len(qs[j]) = 0, Len(qs[k]) = 0
               PROVE  j = k
    BY DEF OneEmpty
  <2>1. j \in 1..n /\ k \in 1..n
    BY <1>2, <1>7
  <2>2. Len(ps[j]) = 0 /\ Len(ps[k]) = 0
    BY <2>1
  <2> QED BY <2>2 DEF OneEmpty
<1>9. FlattenSeq(ts) = FlattenSeq(ps) \o d
  BY <1>1, FlattenMore DEF ts
<1> QED BY <1>4, <1>6, <1>7, <1>8, <1>9

\* Data in a part of their own.
LEMMA AppendedParts ==
    ASSUME NEW ps \in Seq(Seq(Bytes)), NEW qs \in Seq(Seq(Stuff)), NEW n \in Nat,
           Len(ps) = n, Len(qs) = n + 1, OneEmpty(ps),
           NEW d \in Seq(Bytes), d # <<>>,
           \A k \in 1..n : qs[k] = ps[k],
           qs[n + 1] = d
    PROVE  /\ qs \in Seq(Seq(Bytes))
           /\ OneEmpty(qs)
           /\ Len(qs[n + 1]) # 0
           /\ FlattenSeq(qs) = FlattenSeq(ps) \o d
<1> DEFINE ts == Append(ps, d)
<1>1. Len(d) # 0
  OBVIOUS
<1>2. n + 1 \in 1..(n + 1) /\ \A k \in 1..(n + 1) : k = n + 1 \/ k \in 1..n
  OBVIOUS
<1>4. /\ ts \in Seq(Seq(Bytes)) /\ Len(ts) = n + 1
      /\ \A k \in 1..n : ts[k] = ps[k]
      /\ ts[n + 1] = d
  BY AppendProperties
<1> HIDE DEF ts
<1>5. \A k \in 1..(n + 1) : qs[k] = ts[k]
  BY <1>2, <1>4
<1>6. qs = ts
  <2>1. ts \in Seq(Seq(Stuff))
    BY <1>4, BytesAreStuff
  <2> QED BY <1>4, <1>5, <2>1, SameSeq
<1>8. OneEmpty(qs)
  <2> SUFFICES ASSUME NEW j \in 1..(n + 1), NEW k \in 1..(n + 1),
                      Len(qs[j]) = 0, Len(qs[k]) = 0
               PROVE  j = k
    BY DEF OneEmpty
  <2>1. j \in 1..n /\ k \in 1..n
    BY <1>1, <1>2
  <2>2. Len(ps[j]) = 0 /\ Len(ps[k]) = 0
    BY <2>1
  <2> QED BY <2>2 DEF OneEmpty
<1>9. FlattenSeq(ts) = FlattenSeq(ps) \o d
  BY FlattenAppend DEF ts
<1> QED BY <1>1, <1>4, <1>6, <1>8, <1>9

\* What is stored after data were added, to the last block or in a new one.
LEMMA Added ==
    ASSUME NEW r, Ring(r), NEW w, Shape(w), NEW d \in Seq(Bytes), d # <<>>,
           w.bufferSize = r.bufferSize + Len(d),
           \/ /\ w.tailBuffer = r.tailBuffer
              /\ \A k \in 1..r.tailBuffer : Parts(w)[k] = Parts(r)[k]
              /\ Parts(w)[w.tailBuffer + 1] = Parts(r)[w.tailBuffer + 1] \o d
           \/ /\ w.tailBuffer = r.tailBuffer + 1
              /\ \A k \in 1..(r.tailBuffer + 1) : Parts(w)[k] = Parts(r)[k]
              /\ Parts(w)[w.tailBuffer + 1] = d
    PROVE  Ring(w) /\ Content(w) = Content(r) \o d
<1> DEFINE ps == Parts(r)
           qs == Parts(w)
           n  == r.tailBuffer
           m  == w.tailBuffer
<1>1. /\ ps \in Seq(Seq(Bytes)) /\ OneEmpty(ps) /\ Len(ps) = n + 1 /\ n \in Nat
      /\ r.bufferSize = Len(FlattenSeq(ps))
  BY PartsAre DEF Ring, Stores, Shape, BufferType, Content
<1>2. qs \in Seq(Seq(Stuff)) /\ Len(qs) = m + 1 /\ m \in Nat
  BY PartsAre DEF Shape, BufferType
<1>3. /\ qs \in Seq(Seq(Bytes)) /\ OneEmpty(qs) /\ Len(qs[m + 1]) # 0
      /\ FlattenSeq(qs) = FlattenSeq(ps) \o d
  <2>1. CASE m = n
    <3>1. m + 1 # n + 1 + 1 /\ m # n + 1
      BY <1>1, <2>1
    <3>2. /\ \A k \in 1..n : qs[k] = ps[k]
          /\ qs[n + 1] = ps[n + 1] \o d
      BY <2>1, <3>1
    <3>3. Len(qs) = n + 1
      BY <1>2, <2>1
    <3> HIDE DEF ps, qs, n, m
    <3>4. /\ qs \in Seq(Seq(Bytes)) /\ OneEmpty(qs) /\ Len(qs[n + 1]) # 0
          /\ FlattenSeq(qs) = FlattenSeq(ps) \o d
      BY <1>1, <1>2, <3>2, <3>3, GrownParts
    <3> QED BY <2>1, <3>4
  <2>2. CASE m # n
    <3>1. m = n + 1
      BY <2>2
    <3>2. /\ \A k \in 1..m : qs[k] = ps[k]
          /\ qs[m + 1] = d
      BY <2>2
    <3>3. Len(ps) = m
      BY <1>1, <3>1
    <3> HIDE DEF ps, qs, n, m
    <3> QED BY <1>1, <1>2, <3>2, <3>3, AppendedParts
  <2> QED BY <2>1, <2>2
<1>4. w.bufferSize = Len(FlattenSeq(qs))
  <2>1. FlattenSeq(ps) \in Seq(Bytes)
    BY <1>1, FlattenType
  <2>2. Len(FlattenSeq(ps) \o d) = Len(FlattenSeq(ps)) + Len(d)
    BY <2>1, ConcatProperties
  <2> QED BY <1>1, <1>3, <2>2
<1>5. ~(w.tailBuffer = 0 /\ w.head = w.tail)
  <2> SUFFICES ASSUME w.tailBuffer = 0, w.head = w.tail PROVE FALSE
    OBVIOUS
  <2>1. Len(qs[1]) # 0
    BY <1>3
  <2>2. 1 \in 1..(w.tailBuffer + 1) /\ 1 = w.tailBuffer + 1
    OBVIOUS
  <2>3. /\ Len(qs[1]) = End(w, 1 - 1) - Begin(w, 1 - 1)
        /\ Begin(w, 1 - 1) = w.head /\ End(w, 1 - 1) = w.tail
        /\ Begin(w, 1 - 1) \in Nat
    BY <2>2, PartsAre
  <2> QED BY <2>1, <2>3
<1> QED BY <1>3, <1>4, <1>5 DEF Ring, Stores, Content

\* The larger of two numbers.
LEMMA MaxTwo ==
    ASSUME NEW m \in Int, NEW n \in Int
    PROVE  /\ Max({m, n}) = IF m >= n THEN m ELSE n
           /\ Min({m, n}) = IF m <= n THEN m ELSE n
<1>1. \A x \in {m, n} : (\A y \in {m, n} : x >= y) <=> x = IF m >= n THEN m ELSE n
  OBVIOUS
<1>2. \A x \in {m, n} : (\A y \in {m, n} : x <= y) <=> x = IF m <= n THEN m ELSE n
  OBVIOUS
<1>3. (IF m >= n THEN m ELSE n) \in {m, n} /\ (IF m <= n THEN m ELSE n) \in {m, n}
  OBVIOUS
<1>4. Max({m, n}) = IF m >= n THEN m ELSE n
  BY <1>1, <1>3 DEF Max
<1>5. Min({m, n}) = IF m <= n THEN m ELSE n
  BY <1>2, <1>3 DEF Min
<1> QED BY <1>4, <1>5

\* An empty buffer has one block.
LEMMA EmptyRing ==
    ASSUME NEW r, Ring(r), r.bufferSize = 0
    PROVE  r.tailBuffer = 0 /\ r.head = 0 /\ r.tail = 0
<1> DEFINE ps == Parts(r)
           n  == r.tailBuffer + 1
<1>1. /\ ps \in Seq(Seq(Bytes)) /\ OneEmpty(ps) /\ Len(ps) = n /\ n \in Nat /\ n >= 1
      /\ Len(FlattenSeq(ps)) = 0
  <2>1. Len(ps) = n
    BY PartsAre DEF Ring
  <2>2. ps \in Seq(Seq(Bytes)) /\ OneEmpty(ps) /\ Len(FlattenSeq(ps)) = 0
    BY DEF Ring, Stores, Content
  <2>3. r.tailBuffer \in Nat
    BY DEF Ring, Shape, BufferType
  <2>4. n \in Nat /\ n >= 1
    BY <2>3
  <2> QED BY <2>1, <2>2, <2>4
<1>2. \A k \in 1..n : Len(ps[k]) = 0
  <2> HIDE DEF ps, n
  <2> SUFFICES ASSUME NEW k \in 1..n PROVE Len(ps[k]) = 0
    OBVIOUS
  <2>1. Len(ps[k]) <= Len(FlattenSeq(ps))
    BY <1>1, FlattenEmpty
  <2>2. ps[k] \in Seq(Bytes)
    BY <1>1
  <2>3. Len(ps[k]) \in Nat
    BY <2>2
  <2> QED BY <1>1, <2>1, <2>3
<1>3. n = 1
  <2> HIDE DEF ps, n
  <2>1. 1 \in 1..n /\ n \in 1..n
    BY <1>1
  <2> QED BY <1>1, <1>2, <2>1 DEF OneEmpty
<1>4. r.tailBuffer = 0
  BY <1>1, <1>3 DEF Ring, Shape, BufferType
<1>5. Len(ps[1]) = End(r, 1 - 1) - Begin(r, 1 - 1) /\ Begin(r, 1 - 1) = r.head
      /\ End(r, 1 - 1) = r.tail
  <2>1. 1 \in 1..(r.tailBuffer + 1) /\ 1 = r.tailBuffer + 1
    BY <1>4
  <2> QED BY <2>1, PartsAre DEF Ring
<1>6. Len(ps[1]) = 0
  BY <1>2, <1>3
<1>7. r.head \in Nat /\ r.tail \in Nat
  BY DEF Ring, Shape, BufferType
<1> QED BY <1>4, <1>5, <1>6, <1>7 DEF Ring, Stores

\* Buffers as records.
Record(bs, h, t, tb, size) ==
    [buffers |-> bs, head |-> h, tail |-> t, tailBuffer |-> tb, bufferSize |-> size]

\* A buffer is the record of its members.
LEMMA IsRecord ==
    ASSUME NEW r \in BufferType
    PROVE  /\ r = Record(r.buffers, r.head, r.tail, r.tailBuffer, r.bufferSize)
           /\ r.buffers \in Seq(Seq(Stuff)) /\ r.head \in Nat /\ r.tail \in Nat
           /\ r.tailBuffer \in Nat /\ r.bufferSize \in Nat
BY DEF Record, BufferType

\* One block is replaced.
LEMMA BlockReplaced ==
    ASSUME NEW bs \in Seq(Seq(Stuff)), NEW i \in 1..Len(bs), NEW block \in Seq(Stuff)
    PROVE  /\ [bs EXCEPT ![i] = block] \in Seq(Seq(Stuff))
           /\ Len([bs EXCEPT ![i] = block]) = Len(bs)
           /\ [bs EXCEPT ![i] = block][i] = block
           /\ \A k \in 1..Len(bs) : k # i => [bs EXCEPT ![i] = block][k] = bs[k]
OBVIOUS

\* A record of members, and the last of its blocks.
LEMMA RingIs ==
    ASSUME NEW r, Ring(r)
    PROVE  /\ r \in BufferType
           /\ r.buffers \in Seq(Seq(Stuff)) /\ r.head \in Nat /\ r.tail \in Nat
           /\ r.tailBuffer \in Nat /\ r.bufferSize \in Nat
           /\ Len(r.buffers) = r.tailBuffer + 1
           /\ r.tailBuffer + 1 \in 1..Len(r.buffers)
           /\ r.buffers[r.tailBuffer + 1] \in Seq(Stuff)
           /\ r.tail <= Len(r.buffers[r.tailBuffer + 1])
           /\ r.tailBuffer = 0 => r.head <= r.tail
           /\ r.tailBuffer # 0 => r.head <= Len(r.buffers[1])
           /\ Block(r, r.tailBuffer) = r.buffers[r.tailBuffer + 1]
<1>1. /\ r \in BufferType /\ Len(r.buffers) = r.tailBuffer + 1
      /\ r.tail <= Len(r.buffers[r.tailBuffer + 1]) /\ r.head <= End(r, 0)
  BY DEF Ring, Shape
<1>2. /\ r.buffers \in Seq(Seq(Stuff)) /\ r.head \in Nat /\ r.tail \in Nat
      /\ r.tailBuffer \in Nat /\ r.bufferSize \in Nat
  BY <1>1, IsRecord
<1>3. r.tailBuffer + 1 \in 1..Len(r.buffers)
  BY <1>1, <1>2
<1>4. r.buffers[r.tailBuffer + 1] \in Seq(Stuff)
  BY <1>2, <1>3
<1> QED BY <1>1, <1>2, <1>3, <1>4 DEF End, Block

\* What is stored in the blocks before the last one and in that.
LEMMA PartsByBlock ==
    ASSUME NEW r, Ring(r)
    PROVE  /\ \A k \in 1..r.tailBuffer :
                Parts(r)[k] = SubSeq(r.buffers[k], Begin(r, k - 1) + 1, Len(r.buffers[k]))
           /\ Parts(r)[r.tailBuffer + 1]
              = SubSeq(r.buffers[r.tailBuffer + 1], Begin(r, r.tailBuffer) + 1, r.tail)
           /\ Begin(r, r.tailBuffer) \in Nat /\ Begin(r, r.tailBuffer) <= r.tail
<1> DEFINE ps == Parts(r)
           tb == r.tailBuffer
<1>1. \A k \in 1..(tb + 1) :
         /\ End(r, k - 1) = IF k = tb + 1 THEN r.tail ELSE Len(r.buffers[k])
         /\ Begin(r, k - 1) \in Nat
         /\ Begin(r, k - 1) <= End(r, k - 1)
         /\ ps[k] = SubSeq(r.buffers[k], Begin(r, k - 1) + 1, End(r, k - 1))
  BY PartsAre DEF Ring
<1>2. tb + 1 \in 1..(tb + 1) /\ (tb + 1) - 1 = tb
  BY RingIs
<1>3. \A k \in 1..tb : k \in 1..(tb + 1) /\ k # tb + 1
  BY RingIs, Below
<1> HIDE DEF ps, tb
<1>4. ps[tb + 1] = SubSeq(r.buffers[tb + 1], Begin(r, tb) + 1, r.tail)
      /\ Begin(r, tb) \in Nat /\ Begin(r, tb) <= r.tail
  BY <1>1, <1>2
<1>5. \A k \in 1..tb : ps[k] = SubSeq(r.buffers[k], Begin(r, k - 1) + 1, Len(r.buffers[k]))
  BY <1>1, <1>3
<1> QED BY <1>4, <1>5 DEF ps, tb

\* Data are written to the last block of s, that of r made fit for them.
LEMMA Fit ==
    ASSUME NEW r, Ring(r), NEW data \in Seq(Bytes), data # <<>>,
           NEW s \in BufferType, NEW at \in Nat,
           s.tailBuffer = r.tailBuffer, s.head = r.head,
           s.bufferSize = r.bufferSize,
           Len(s.buffers) = r.tailBuffer + 1,
           at + Len(data) <= Len(s.buffers[r.tailBuffer + 1]),
           r.tailBuffer = 0 => r.head <= at,
           \A k \in 1..r.tailBuffer : s.buffers[k] = r.buffers[k],
           SubSeq(s.buffers[r.tailBuffer + 1], Begin(r, r.tailBuffer) + 1, at)
           = Parts(r)[r.tailBuffer + 1]
    PROVE  /\ Ring(WrittenAt(s, at, data))
           /\ Content(WrittenAt(s, at, data)) = Content(r) \o data
<1> DEFINE tb == r.tailBuffer
           w  == WrittenAt(s, at, data)
           ps == Parts(r)
<1>1. tb \in Nat /\ tb # 0 => r.head <= Len(r.buffers[1])
  BY RingIs
<1>2. tb # 0 => s.head <= Len(s.buffers[1])
  <2> SUFFICES ASSUME tb # 0 PROVE r.head <= Len(s.buffers[1])
    OBVIOUS
  <2>1. 1 \in 1..tb
    BY RingIs
  <2> QED BY <1>1, <2>1, RingIs
<1>3. /\ Shape(w)
      /\ w.tailBuffer = s.tailBuffer /\ w.bufferSize = s.bufferSize + Len(data)
      /\ \A k \in 1..tb : Parts(w)[k]
              = SubSeq(s.buffers[k], Begin(s, k - 1) + 1, Len(s.buffers[k]))
      /\ Parts(w)[tb + 1] = SubSeq(s.buffers[tb + 1], Begin(s, tb) + 1, at) \o data
  <2>1. /\ at + Len(data) <= Len(s.buffers[s.tailBuffer + 1])
        /\ s.tailBuffer = 0 => s.head <= at
        /\ s.tailBuffer # 0 => s.head <= Len(s.buffers[1])
        /\ Len(s.buffers) = s.tailBuffer + 1
        /\ s.tailBuffer = tb
    BY <1>2
  <2>2. /\ Shape(w)
        /\ w.tailBuffer = s.tailBuffer /\ w.bufferSize = s.bufferSize + Len(data)
        /\ \A k \in 1..s.tailBuffer : Parts(w)[k]
                = SubSeq(s.buffers[k], Begin(s, k - 1) + 1, Len(s.buffers[k]))
        /\ Parts(w)[s.tailBuffer + 1]
           = SubSeq(s.buffers[s.tailBuffer + 1], Begin(s, s.tailBuffer) + 1, at) \o data
    BY <2>1, WriteTail, Zenon
  <2> HIDE DEF w
  <2> QED BY <2>1, <2>2
<1>4. \A k : Begin(s, k) = Begin(r, k)
  BY DEF Begin
<1>5. \A k \in 1..tb : Parts(w)[k] = ps[k]
  <2> SUFFICES ASSUME NEW k \in 1..tb PROVE Parts(w)[k] = ps[k]
    OBVIOUS
  <2>1. Begin(s, k - 1) = Begin(r, k - 1) /\ s.buffers[k] = r.buffers[k]
    BY <1>4
  <2>2. ps[k] = SubSeq(r.buffers[k], Begin(r, k - 1) + 1, Len(r.buffers[k]))
    BY PartsByBlock
  <2>3. Parts(w)[k] = SubSeq(s.buffers[k], Begin(s, k - 1) + 1, Len(s.buffers[k]))
    BY <1>3
  <2>4. Parts(w)[k] = SubSeq(r.buffers[k], Begin(r, k - 1) + 1, Len(r.buffers[k]))
    BY <2>1, <2>3, Zenon
  <2> QED BY <2>2, <2>4, Zenon
<1>6. Parts(w)[tb + 1] = ps[tb + 1] \o data
  <2>1. Begin(s, tb) = Begin(r, tb)
    BY <1>4
  <2>2. SubSeq(s.buffers[tb + 1], Begin(r, tb) + 1, at) = ps[tb + 1]
    OBVIOUS
  <2> HIDE DEF w, ps, tb
  <2> QED BY <1>3, <2>1, <2>2
<1>7. w.tailBuffer = tb /\ w.bufferSize = r.bufferSize + Len(data)
  BY <1>3
<1>8. Ring(w) /\ Content(w) = Content(r) \o data
  <2> HIDE DEF w
  <2> QED BY <1>3, <1>5, <1>6, <1>7, Added
<1> QED BY <1>8


\* Blocks are resized and added.
LEMMA ResizeType ==
    ASSUME NEW block \in Seq(Stuff), NEW size \in Nat
    PROVE  Resize(block, size) \in Seq(Stuff) /\ Len(Resize(block, size)) = size
BY DEF Resize, Stuff

\* The members after a block was resized.
LEMMA ResizedIs ==
    ASSUME NEW r \in BufferType, NEW i \in Nat, i + 1 \in 1..Len(r.buffers),
           NEW size \in Nat
    PROVE  /\ Resized(r, i, size) \in BufferType
           /\ Resized(r, i, size).head = r.head
           /\ Resized(r, i, size).tail = r.tail
           /\ Resized(r, i, size).tailBuffer = r.tailBuffer
           /\ Resized(r, i, size).bufferSize = r.bufferSize
           /\ Len(Resized(r, i, size).buffers) = Len(r.buffers)
           /\ Resized(r, i, size).buffers[i + 1] = Resize(r.buffers[i + 1], size)
           /\ \A k \in 1..Len(r.buffers) :
                k # i + 1 => Resized(r, i, size).buffers[k] = r.buffers[k]
<1> DEFINE w     == Resized(r, i, size)
           block == Resize(r.buffers[i + 1], size)
           bs    == [r.buffers EXCEPT ![i + 1] = block]
<1>1. /\ r = Record(r.buffers, r.head, r.tail, r.tailBuffer, r.bufferSize)
      /\ r.buffers \in Seq(Seq(Stuff)) /\ r.head \in Nat /\ r.tail \in Nat
      /\ r.tailBuffer \in Nat /\ r.bufferSize \in Nat
  BY IsRecord
<1>2. block \in Seq(Stuff)
  <2>1. r.buffers[i + 1] \in Seq(Stuff)
    BY <1>1
  <2> QED BY <2>1, ResizeType
<1>3. w = [r EXCEPT !.buffers = bs]
  BY <1>1 DEF Resized
<1> HIDE DEF block
<1>4. /\ bs \in Seq(Seq(Stuff)) /\ Len(bs) = Len(r.buffers) /\ bs[i + 1] = block
      /\ \A k \in 1..Len(r.buffers) : k # i + 1 => bs[k] = r.buffers[k]
  BY <1>1, <1>2, BlockReplaced
<1> HIDE DEF w, bs
<1>5. w = Record(bs, r.head, r.tail, r.tailBuffer, r.bufferSize)
  BY <1>1, <1>3 DEF Record
<1>6. /\ w \in BufferType /\ w.buffers = bs /\ w.head = r.head /\ w.tail = r.tail
      /\ w.tailBuffer = r.tailBuffer /\ w.bufferSize = r.bufferSize
  BY <1>1, <1>4, <1>5 DEF Record, BufferType
<1> QED BY <1>4, <1>6 DEF block, w

\* The members after a block was added.
LEMMA WithBlockIs ==
    ASSUME NEW r \in BufferType, NEW size \in Nat
    PROVE  /\ WithBlock(r, size) \in BufferType
           /\ WithBlock(r, size).head = r.head
           /\ WithBlock(r, size).tailBuffer = r.tailBuffer + 1
           /\ WithBlock(r, size).bufferSize = r.bufferSize
           /\ Len(WithBlock(r, size).buffers) = Len(r.buffers) + 1
           /\ WithBlock(r, size).buffers[Len(r.buffers) + 1] \in Seq(Stuff)
           /\ Len(WithBlock(r, size).buffers[Len(r.buffers) + 1]) = size
           /\ \A k \in 1..Len(r.buffers) : WithBlock(r, size).buffers[k] = r.buffers[k]
<1> DEFINE w     == WithBlock(r, size)
           block == Resize(<<>>, size)
           bs    == Append(r.buffers, block)
<1>1. /\ r = Record(r.buffers, r.head, r.tail, r.tailBuffer, r.bufferSize)
      /\ r.buffers \in Seq(Seq(Stuff)) /\ r.head \in Nat /\ r.tail \in Nat
      /\ r.tailBuffer \in Nat /\ r.bufferSize \in Nat
  BY IsRecord
<1>2. block \in Seq(Stuff) /\ Len(block) = size
  <2>1. <<>> \in Seq(Stuff)
    OBVIOUS
  <2> QED BY <2>1, ResizeType
<1>3. w = [r EXCEPT !.buffers = bs, !.tailBuffer = r.tailBuffer + 1]
  BY <1>1 DEF WithBlock
<1> HIDE DEF block
<1>4. /\ bs \in Seq(Seq(Stuff)) /\ Len(bs) = Len(r.buffers) + 1
      /\ bs[Len(r.buffers) + 1] = block
      /\ \A k \in 1..Len(r.buffers) : bs[k] = r.buffers[k]
  BY <1>1, <1>2, AppendProperties
<1> HIDE DEF w, bs
<1>5. w = Record(bs, r.head, r.tail, r.tailBuffer + 1, r.bufferSize)
  BY <1>1, <1>3 DEF Record
<1>6. r.tailBuffer + 1 \in Nat
  BY <1>1
<1>7. /\ w \in BufferType /\ w.buffers = bs /\ w.head = r.head
      /\ w.tailBuffer = r.tailBuffer + 1 /\ w.bufferSize = r.bufferSize
  BY <1>1, <1>4, <1>5, <1>6 DEF Record, BufferType
<1> QED BY <1>2, <1>4, <1>7 DEF w

\* In each case of reserve.
LEMMA ReserveEmpty ==
    ASSUME NEW r, Ring(r), NEW data \in Seq(Bytes), data # <<>>, r.bufferSize = 0,
           NEW size \in Nat, size >= Len(data)
    PROVE  /\ Ring(WrittenAt(Resized(r, 0, size), 0, data))
           /\ Content(WrittenAt(Resized(r, 0, size), 0, data)) = Content(r) \o data
<1> DEFINE s == Resized(r, 0, size)
           block == r.buffers[1]
<1>1. r.tailBuffer = 0 /\ r.head = 0 /\ r.tail = 0
  BY EmptyRing
<1>2. r \in BufferType /\ Len(r.buffers) = 1 /\ block \in Seq(Stuff)
  <2>1. /\ r \in BufferType /\ Len(r.buffers) = r.tailBuffer + 1
        /\ r.buffers[r.tailBuffer + 1] \in Seq(Stuff)
    BY RingIs
  <2>2. r.tailBuffer + 1 = 1
    BY <1>1
  <2> QED BY <2>1, <2>2
<1>3. /\ s \in BufferType /\ s.head = r.head /\ s.tailBuffer = r.tailBuffer
      /\ s.bufferSize = r.bufferSize /\ Len(s.buffers) = 1
      /\ s.buffers[1] = Resize(block, size)
  <2>1. 0 + 1 \in 1..Len(r.buffers) /\ 0 \in Nat /\ 0 + 1 = 1
    BY <1>2
  <2> QED BY <1>2, <2>1, ResizedIs
<1>4. Len(s.buffers[1]) = size /\ Len(data) \in Nat
  <2>1. Len(data) \in Nat
    OBVIOUS
  <2>2. Len(Resize(block, size)) = size
    BY <1>2, ResizeType, Zenon
  <2> QED BY <1>3, <2>1, <2>2
<1>5. Begin(r, 0) = 0
  BY <1>1 DEF Begin
<1>6. SubSeq(s.buffers[1], 0 + 1, 0) = <<>> /\ SubSeq(block, 0 + 1, 0) = <<>>
  <2>1. s.buffers[1] \in Seq(Stuff)
    BY <1>2, <1>3, ResizeType
  <2> HIDE DEF s, block
  <2> QED BY <1>2, <2>1
<1>7. Parts(r)[1] = <<>>
  <2>1. Parts(r)[r.tailBuffer + 1]
        = SubSeq(r.buffers[r.tailBuffer + 1], Begin(r, r.tailBuffer) + 1, r.tail)
    BY PartsByBlock
  <2>2. r.tailBuffer + 1 = 1
    BY <1>1
  <2> QED BY <1>1, <1>5, <1>6, <2>1, <2>2
<1>8. /\ 0 + Len(data) <= Len(s.buffers[r.tailBuffer + 1])
      /\ Len(s.buffers) = r.tailBuffer + 1
      /\ r.tailBuffer = 0 => r.head <= 0
      /\ \A k \in 1..r.tailBuffer : s.buffers[k] = r.buffers[k]
      /\ SubSeq(s.buffers[r.tailBuffer + 1], Begin(r, r.tailBuffer) + 1, 0)
         = Parts(r)[r.tailBuffer + 1]
  <2>1. r.tailBuffer + 1 = 1
    BY <1>1
  <2>2. 0 + Len(data) <= size
    BY <1>4
  <2>3. \A k \in 1..r.tailBuffer : s.buffers[k] = r.buffers[k]
    BY <1>1
  <2>4. SubSeq(s.buffers[1], Begin(r, 0) + 1, 0) = Parts(r)[1]
    BY <1>5, <1>6, <1>7
  <2> HIDE DEF s
  <2>5. /\ 0 + Len(data) <= Len(s.buffers[1])
        /\ Len(s.buffers) = r.tailBuffer + 1
        /\ r.tailBuffer = 0 => r.head <= 0
    BY <1>1, <1>3, <1>4, <2>2
  <2> QED BY <1>1, <2>1, <2>3, <2>4, <2>5, Zenon
<1> QED
  <2>1. 0 \in Nat
    OBVIOUS
  <2> QED BY <1>3, <1>8, <2>1, Fit, ZenonT(60)

\* The data fit in the last block.
LEMMA ReserveFits ==
    ASSUME NEW r, Ring(r), NEW data \in Seq(Bytes), data # <<>>,
           r.tail + Len(data) <= Len(r.buffers[r.tailBuffer + 1])
    PROVE  /\ Ring(WrittenAt(r, r.tail, data))
           /\ Content(WrittenAt(r, r.tail, data)) = Content(r) \o data
<1>1. /\ r \in BufferType /\ r.tail \in Nat /\ Len(r.buffers) = r.tailBuffer + 1
      /\ r.tailBuffer = 0 => r.head <= r.tail
  BY RingIs
<1>2. SubSeq(r.buffers[r.tailBuffer + 1], Begin(r, r.tailBuffer) + 1, r.tail)
      = Parts(r)[r.tailBuffer + 1]
  BY PartsByBlock
<1> QED BY <1>1, <1>2, Fit, Zenon

\* The last block is enlarged.
LEMMA ReserveResized ==
    ASSUME NEW r, Ring(r), NEW data \in Seq(Bytes), data # <<>>
    PROVE  LET s == Resized(r, r.tailBuffer, r.tail + Len(data))
           IN  /\ Ring(WrittenAt(s, r.tail, data))
               /\ Content(WrittenAt(s, r.tail, data)) = Content(r) \o data
<1> DEFINE size  == r.tail + Len(data)
           s     == Resized(r, r.tailBuffer, size)
           block == r.buffers[r.tailBuffer + 1]
           from  == Begin(r, r.tailBuffer)
<1>1. /\ r \in BufferType /\ r.tail \in Nat /\ Len(r.buffers) = r.tailBuffer + 1
      /\ r.tailBuffer = 0 => r.head <= r.tail
      /\ block \in Seq(Stuff) /\ r.tail <= Len(block) /\ r.tailBuffer \in Nat
      /\ r.tailBuffer + 1 \in 1..Len(r.buffers)
  BY RingIs
<1>2. size \in Nat /\ r.tail <= size
  BY <1>1
<1>3. /\ s \in BufferType /\ s.head = r.head /\ s.tailBuffer = r.tailBuffer
      /\ s.bufferSize = r.bufferSize /\ Len(s.buffers) = r.tailBuffer + 1
      /\ s.buffers[r.tailBuffer + 1] = Resize(block, size)
      /\ \A k \in 1..Len(r.buffers) : k # r.tailBuffer + 1 => s.buffers[k] = r.buffers[k]
  <2> HIDE DEF size
  <2> QED BY <1>1, <1>2, ResizedIs, ZenonT(60)
<1>4. /\ Parts(r)[r.tailBuffer + 1] = SubSeq(block, from + 1, r.tail)
      /\ from \in Nat /\ from <= r.tail
  BY PartsByBlock
<1>5. /\ Len(s.buffers[r.tailBuffer + 1]) = size
      /\ SubSeq(s.buffers[r.tailBuffer + 1], from + 1, r.tail) = Parts(r)[r.tailBuffer + 1]
  <2> HIDE DEF size, block, s, from
  <2>1. /\ Len(Resize(block, size)) = size
        /\ SubSeq(Resize(block, size), from + 1, r.tail) = SubSeq(block, from + 1, r.tail)
    BY <1>1, <1>2, <1>4, ResizeKeeps
  <2> QED BY <1>3, <1>4, <2>1
<1>6. \A k \in 1..r.tailBuffer : s.buffers[k] = r.buffers[k]
  <2>1. \A k \in 1..r.tailBuffer : k \in 1..(r.tailBuffer + 1) /\ k # r.tailBuffer + 1
    BY <1>1, Below
  <2> HIDE DEF s
  <2> QED BY <1>1, <1>3, <2>1
<1>7. r.tail + Len(data) <= Len(s.buffers[r.tailBuffer + 1])
  <2> HIDE DEF s
  <2> QED BY <1>2, <1>5
<1> QED BY <1>1, <1>3, <1>5, <1>6, <1>7, Fit, Zenon

\* The last block is shrunk to what it holds and a new one is added.
LEMMA ReserveNew ==
    ASSUME NEW r, Ring(r), NEW data \in Seq(Bytes), data # <<>>,
           NEW size \in Nat, size >= Len(data)
    PROVE  LET s == WithBlock(Resized(r, r.tailBuffer, r.tail), size)
           IN  /\ Ring(WrittenAt(s, 0, data))
               /\ Content(WrittenAt(s, 0, data)) = Content(r) \o data
<1> DEFINE tb    == r.tailBuffer
           old   == Resized(r, tb, r.tail)
           s     == WithBlock(old, size)
           block == r.buffers[tb + 1]
           w     == WrittenAt(s, 0, data)
           ps    == Parts(r)
           new   == s.buffers[tb + 1 + 1]
<1>1. /\ r \in BufferType /\ r.tail \in Nat /\ Len(r.buffers) = tb + 1
      /\ tb = 0 => r.head <= r.tail
      /\ tb # 0 => r.head <= Len(r.buffers[1])
      /\ block \in Seq(Stuff) /\ r.tail <= Len(block) /\ tb \in Nat
      /\ tb + 1 \in 1..Len(r.buffers)
  BY RingIs
<1>2. /\ old \in BufferType /\ old.head = r.head /\ old.tailBuffer = tb
      /\ old.bufferSize = r.bufferSize /\ Len(old.buffers) = tb + 1
      /\ old.buffers[tb + 1] = Resize(block, r.tail)
      /\ \A k \in 1..Len(r.buffers) : k # tb + 1 => old.buffers[k] = r.buffers[k]
  <2> QED BY <1>1, ResizedIs, ZenonT(60)
<1>3. /\ s \in BufferType /\ s.head = r.head /\ s.tailBuffer = tb + 1
      /\ s.bufferSize = r.bufferSize /\ Len(s.buffers) = tb + 1 + 1
      /\ new \in Seq(Stuff) /\ Len(new) = size
      /\ \A k \in 1..(tb + 1) : s.buffers[k] = old.buffers[k]
  <2> HIDE DEF old
  <2>1. /\ s \in BufferType /\ s.head = old.head /\ s.tailBuffer = old.tailBuffer + 1
        /\ s.bufferSize = old.bufferSize /\ Len(s.buffers) = Len(old.buffers) + 1
        /\ s.buffers[Len(old.buffers) + 1] \in Seq(Stuff)
        /\ Len(s.buffers[Len(old.buffers) + 1]) = size
        /\ \A k \in 1..Len(old.buffers) : s.buffers[k] = old.buffers[k]
    BY <1>2, WithBlockIs, Zenon
  <2> QED BY <1>2, <2>1, Zenon
<1> HIDE DEF s, old
<1>4. /\ \A k \in 1..tb : s.buffers[k] = r.buffers[k]
      /\ s.buffers[tb + 1] = Resize(block, r.tail)
  <2>1. \A k \in 1..tb : k \in 1..(tb + 1) /\ k # tb + 1
    BY <1>1, Below
  <2> HIDE DEF tb, block
  <2> QED BY <1>1, <1>2, <1>3, <2>1
<1>5. /\ \A k \in 1..tb :
           ps[k] = SubSeq(r.buffers[k], Begin(r, k - 1) + 1, Len(r.buffers[k]))
      /\ ps[tb + 1] = SubSeq(block, Begin(r, tb) + 1, r.tail)
      /\ Begin(r, tb) \in Nat /\ Begin(r, tb) <= r.tail
  BY PartsByBlock
<1>6. /\ Len(s.buffers[tb + 1]) = r.tail
      /\ SubSeq(s.buffers[tb + 1], Begin(r, tb) + 1, r.tail) = ps[tb + 1]
  <2> HIDE DEF tb, block, ps
  <2>1. /\ Len(Resize(block, r.tail)) = r.tail
        /\ SubSeq(Resize(block, r.tail), Begin(r, tb) + 1, r.tail)
           = SubSeq(block, Begin(r, tb) + 1, r.tail)
    <3>1. r.tail <= r.tail
      BY <1>1
    <3> QED BY <1>1, <1>5, <3>1, ResizeKeeps, ZenonT(60)
  <2> QED BY <1>4, <1>5, <2>1
<1>7. s.head <= Len(s.buffers[1])
  <2>1. CASE tb = 0
    BY <1>1, <1>3, <1>6, <2>1
  <2>2. CASE tb # 0
    <3>1. 1 \in 1..tb
      BY <1>1, <2>2
    <3> QED BY <1>1, <1>3, <1>4, <2>2, <3>1
  <2> QED BY <2>1, <2>2
<1>8. \A k : Begin(s, k) = Begin(r, k)
  BY <1>3 DEF Begin
<1>9. /\ Shape(w)
      /\ w.tailBuffer = s.tailBuffer /\ w.bufferSize = s.bufferSize + Len(data)
      /\ \A k \in 1..s.tailBuffer : Parts(w)[k]
              = SubSeq(s.buffers[k], Begin(s, k - 1) + 1, Len(s.buffers[k]))
      /\ Parts(w)[s.tailBuffer + 1]
         = SubSeq(s.buffers[s.tailBuffer + 1], Begin(s, s.tailBuffer) + 1, 0) \o data
  <2>1. /\ 0 + Len(data) <= Len(s.buffers[s.tailBuffer + 1])
        /\ s.tailBuffer = 0 => s.head <= 0
        /\ s.tailBuffer # 0 => s.head <= Len(s.buffers[1])
        /\ Len(s.buffers) = s.tailBuffer + 1
        /\ 0 \in Nat
    <3>1. s.tailBuffer # 0
      BY <1>1, <1>3
    <3>2. 0 + Len(data) <= size
      OBVIOUS
    <3> QED BY <1>3, <1>7, <3>1, <3>2
  <2> QED BY <1>3, <2>1, WriteTail, Zenon
<1> HIDE DEF w
<1>10. ASSUME NEW k \in 1..(tb + 1) PROVE Parts(w)[k] = ps[k]
  <2>1. Parts(w)[k] = SubSeq(s.buffers[k], Begin(r, k - 1) + 1, Len(s.buffers[k]))
    BY <1>3, <1>8, <1>9
  <2>2. CASE k \in 1..tb
    <3>1. s.buffers[k] = r.buffers[k]
      BY <1>4, <2>2
    <3>2. ps[k] = SubSeq(r.buffers[k], Begin(r, k - 1) + 1, Len(r.buffers[k]))
      BY <1>5, <2>2
    <3> QED BY <2>1, <3>1, <3>2, Zenon
  <2>3. CASE k = tb + 1
    <3>1. k - 1 = tb
      BY <1>1, <2>3
    <3> QED BY <1>6, <2>1, <2>3, <3>1
  <2>4. k \in 1..tb \/ k = tb + 1
    BY <1>1
  <2> QED BY <2>2, <2>3, <2>4
<1>11. Parts(w)[tb + 1 + 1] = data
  <2>1. SubSeq(new, 0 + 1, 0) = <<>>
    <3> HIDE DEF new
    <3> QED BY <1>3
  <2>2. Begin(s, tb + 1) = 0
    BY <1>1 DEF Begin
  <2>3. Parts(w)[tb + 1 + 1] = <<>> \o data
    BY <1>3, <1>9, <2>1, <2>2
  <2> QED BY <2>3, ConcatEmptySeq
<1>12. w.tailBuffer = tb + 1 /\ w.bufferSize = r.bufferSize + Len(data)
  BY <1>3, <1>9
<1>13. Ring(w) /\ Content(w) = Content(r) \o data
  BY <1>9, <1>10, <1>11, <1>12, Added
<1> QED BY <1>13 DEF w, s, old

\* reserve adds the data to what is stored.
LEMMA ReserveKeeps ==
    ASSUME NEW r, Ring(r), NEW data \in Seq(Bytes), data # <<>>
    PROVE  /\ Ring(Reserve(r, data))
           /\ Content(Reserve(r, data)) = Content(r) \o data
<1> DEFINE size == Max({basicBlockSize, Len(data)})
           last == Len(r.buffers[r.tailBuffer + 1])
<1>1. size \in Nat /\ size >= Len(data)
  <2>1. Len(data) \in Int
    OBVIOUS
  <2> QED BY <2>1, MaxTwo, BlockAssumption
<1>2. Len(Block(r, r.tailBuffer)) = last
  BY DEF Block
<1>3. r.tail + Len(data) \in Int /\ last \in Int
  BY RingIs
<1> HIDE DEF size
<1>4. CASE r.bufferSize = 0
  <2>1. Reserve(r, data) = WrittenAt(Resized(r, 0, size), 0, data)
    BY <1>4 DEF Reserve, size
  <2> QED BY <1>1, <1>4, <2>1, ReserveEmpty
<1>5. CASE r.bufferSize # 0 /\ r.tail + Len(data) <= last
  <2>1. ~(r.tail + Len(data) > last)
    BY <1>3, <1>5
  <2>2. Reserve(r, data) = WrittenAt(r, r.tail, data)
    BY <1>2, <1>5, <2>1 DEF Reserve
  <2> QED BY <1>5, <2>2, ReserveFits
<1>6. CASE r.bufferSize # 0 /\ r.tail + Len(data) > last
  <2>1. ~(r.tail + Len(data) <= last)
    BY <1>3, <1>6
  <2>2. CASE r.tail < last \div 2
    <3>1. Reserve(r, data)
          = WrittenAt(Resized(r, r.tailBuffer, r.tail + Len(data)), r.tail, data)
      BY <1>2, <1>6, <2>1, <2>2 DEF Reserve
    <3> QED BY <3>1, ReserveResized
  <2>3. CASE ~(r.tail < last \div 2)
    <3>1. Reserve(r, data)
          = WrittenAt(WithBlock(Resized(r, r.tailBuffer, r.tail), size), 0, data)
      BY <1>2, <1>6, <2>1, <2>3 DEF Reserve, size
    <3> QED BY <1>1, <3>1, ReserveNew
  <2> QED BY <2>2, <2>3
<1>7. r.tail + Len(data) <= last \/ r.tail + Len(data) > last
  BY <1>3
<1> QED BY <1>4, <1>5, <1>6, <1>7

\* A byte is set in front of a piece.
LEMMA SetFound ==
    ASSUME NEW block \in Seq(Stuff), NEW c \in Stuff, NEW h \in Nat, NEW to \in Nat,
           h + 1 <= to, to <= Len(block)
    PROVE  /\ Written(block, h, <<c>>) \in Seq(Stuff)
           /\ Len(Written(block, h, <<c>>)) = Len(block)
           /\ SubSeq(Written(block, h, <<c>>), h + 1, to)
              = <<c>> \o SubSeq(block, (h + 1) + 1, to)
<1> DEFINE w == Written(block, h, <<c>>)
<1>1. /\ w \in Seq(Stuff) /\ Len(w) = Len(block)
      /\ \A i \in 1..Len(block) : w[i] = IF i = h + 1 THEN c ELSE block[i]
  <2>1. /\ Len(<<c>>) = 1 /\ <<c>>[1] = c
    OBVIOUS
  <2>2. \A i \in 1..Len(block) : (i > h /\ i <= h + Len(<<c>>)) <=> i = h + 1
    BY <2>1
  <2>3. \A i \in 1..Len(block) : i = h + 1 => <<c>>[i - h] = c
    BY <2>1
  <2>4. w = [i \in 1..Len(block) |-> IF i = h + 1 THEN c ELSE block[i]]
    BY <2>2, <2>3 DEF Written
  <2> QED BY <2>4
<1> HIDE DEF w
<1> DEFINE p == SubSeq(w, h + 1, to)
           a == SubSeq(block, (h + 1) + 1, to)
           q == <<c>> \o a
<1>2. p \in Seq(Stuff) /\ Len(p) = to - h /\ \A i \in 1..(to - h) : p[i] = w[h + i]
  BY <1>1, Piece
<1>3. /\ a \in Seq(Stuff) /\ Len(a) = to - (h + 1)
      /\ \A i \in 1..(to - (h + 1)) : a[i] = block[(h + 1) + i]
  <2>1. h + 1 \in Nat
    OBVIOUS
  <2> QED BY <2>1, Piece
<1> HIDE DEF p, a
<1>4. /\ q \in Seq(Stuff) /\ Len(q) = to - h
      /\ q[1] = c /\ \A i \in 2..(to - h) : q[i] = a[i - 1]
  <2>1. <<c>> \in Seq(Stuff) /\ Len(<<c>>) = 1 /\ <<c>>[1] = c
    OBVIOUS
  <2>2. /\ q \in Seq(Stuff) /\ Len(q) = Len(<<c>>) + Len(a)
        /\ \A i \in 1..(Len(<<c>>) + Len(a)) :
              q[i] = IF i <= Len(<<c>>) THEN <<c>>[i] ELSE a[i - Len(<<c>>)]
    BY <1>3, <2>1, ConcatProperties
  <2> HIDE DEF q
  <2>3. Len(q) = to - h
    BY <1>3, <2>1, <2>2
  <2>4. 1 \in 1..(Len(<<c>>) + Len(a)) /\ 1 <= Len(<<c>>)
    BY <1>3, <2>1
  <2>5. q[1] = c
    BY <2>1, <2>2, <2>4
  <2>6. ASSUME NEW i \in 2..(to - h) PROVE q[i] = a[i - 1]
    <3>1. i \in 1..(Len(<<c>>) + Len(a)) /\ ~(i <= Len(<<c>>)) /\ i - Len(<<c>>) = i - 1
      BY <1>3, <2>1
    <3> QED BY <2>2, <3>1
  <2> QED BY <2>2, <2>3, <2>5, <2>6
<1> HIDE DEF q
<1>5. ASSUME NEW i \in 1..(to - h) PROVE p[i] = q[i]
  <2>1. h + i \in 1..Len(block)
    OBVIOUS
  <2>2. CASE i = 1
    <3>1. h + i = h + 1
      BY <2>2
    <3> QED BY <1>1, <1>2, <1>4, <2>1, <2>2, <3>1
  <2>3. CASE i # 1
    <3>1. i \in 2..(to - h) /\ i - 1 \in 1..(to - (h + 1)) /\ (h + 1) + (i - 1) = h + i
          /\ h + i # h + 1
      BY <2>3
    <3>2. p[i] = block[h + i]
      BY <1>1, <1>2, <2>1, <3>1
    <3>3. q[i] = a[i - 1] /\ a[i - 1] = block[(h + 1) + (i - 1)]
      BY <1>3, <1>4, <3>1
    <3> QED BY <3>1, <3>2, <3>3
  <2> QED BY <2>2, <2>3
<1>6. p = q
  BY <1>2, <1>4, <1>5, SameSeq
<1> QED BY <1>1, <1>6 DEF w, p, q, a

\* A byte in the first part.
LEMMA FrontGrownParts ==
    ASSUME NEW ps \in Seq(Seq(Bytes)), NEW qs \in Seq(Seq(Stuff)), NEW n \in Nat,
           Len(ps) = n + 1, Len(qs) = n + 1, OneEmpty(ps), NEW c \in Bytes,
           \A k \in 2..(n + 1) : qs[k] = ps[k],
           qs[1] = <<c>> \o ps[1]
    PROVE  /\ qs \in Seq(Seq(Bytes))
           /\ OneEmpty(qs)
           /\ Len(qs[1]) # 0
           /\ FlattenSeq(qs) = <<c>> \o FlattenSeq(ps)
<1>1. /\ ps # <<>> /\ qs # <<>>
      /\ 1 \in 1..(n + 1) /\ \A k \in 1..(n + 1) : k = 1 \/ k \in 2..(n + 1)
      /\ \A k \in 1..(n + 1) : ps[k] \in Seq(Bytes)
  OBVIOUS
<1>2. PICK p \in Seq(Bytes) : p = ps[1]
  BY <1>1
<1>3. <<c>> \in Seq(Bytes) /\ Len(<<c>>) = 1
  OBVIOUS
<1>4. <<c>> \o p \in Seq(Bytes) /\ Len(<<c>> \o p) = 1 + Len(p) /\ Len(p) \in Nat
  BY <1>3, ConcatProperties
<1>5. qs[1] \in Seq(Bytes) /\ Len(qs[1]) # 0
  BY <1>2, <1>4
<1>6. qs \in Seq(Seq(Bytes))
  <2>1. ASSUME NEW k \in 1..(n + 1) PROVE qs[k] \in Seq(Bytes)
    <3>1. CASE k = 1
      BY <1>5, <3>1
    <3>2. CASE k \in 2..(n + 1)
      <4>1. qs[k] = ps[k] /\ ps[k] \in Seq(Bytes)
        BY <1>1, <3>2
      <4> QED BY <4>1
    <3> QED BY <1>1, <3>1, <3>2
  <2>2. qs = [k \in 1..(n + 1) |-> qs[k]]
    OBVIOUS
  <2>3. \A S : \A f \in [1..(n + 1) -> S] : f \in Seq(S)
    OBVIOUS
  <2>4. qs \in [1..(n + 1) -> Seq(Bytes)]
    BY <2>1, <2>2
  <2> QED BY <2>3, <2>4
<1>7. OneEmpty(qs)
  <2> SUFFICES ASSUME NEW j \in 1..(n + 1), NEW k \in 1..(n + 1),
                      Len(qs[j]) = 0, Len(qs[k]) = 0
               PROVE  j = k
    BY DEF OneEmpty
  <2>1. j \in 2..(n + 1) /\ k \in 2..(n + 1)
    BY <1>1, <1>5
  <2>2. Len(ps[j]) = 0 /\ Len(ps[k]) = 0
    BY <2>1
  <2> QED BY <2>2 DEF OneEmpty
<1>8. Tail(qs) = Tail(ps)
  <2>1. /\ Tail(qs) \in Seq(Seq(Bytes)) /\ Tail(ps) \in Seq(Seq(Bytes))
        /\ Len(Tail(qs)) = n /\ Len(Tail(ps)) = n
    BY <1>1, <1>6
  <2>2. \A k \in 1..n : Tail(qs)[k] = qs[k + 1] /\ Tail(ps)[k] = ps[k + 1]
    BY <1>1, <1>6
  <2>3. \A k \in 1..n : k + 1 \in 2..(n + 1)
    OBVIOUS
  <2>4. \A k \in 1..n : Tail(qs)[k] = Tail(ps)[k]
    BY <2>2, <2>3
  <2> QED BY <2>1, <2>4, SameSeq
<1>9. /\ FlattenSeq(qs) = qs[1] \o FlattenSeq(Tail(qs))
      /\ FlattenSeq(ps) = ps[1] \o FlattenSeq(Tail(ps))
      /\ FlattenSeq(Tail(ps)) \in Seq(Bytes)
  BY <1>1, <1>6, FlattenHead, FlattenType
<1>10. (<<c>> \o p) \o FlattenSeq(Tail(ps)) = <<c>> \o (p \o FlattenSeq(Tail(ps)))
  BY <1>3, <1>9, Reassociate, SMTT(60)
<1> QED BY <1>2, <1>5, <1>6, <1>7, <1>8, <1>9, <1>10

\* A byte in a part of its own.
LEMMA PrependedParts ==
    ASSUME NEW ps \in Seq(Seq(Bytes)), NEW qs \in Seq(Seq(Stuff)), NEW n \in Nat,
           Len(ps) = n, Len(qs) = n + 1, OneEmpty(ps), NEW c \in Bytes,
           \A k \in 1..n : qs[k + 1] = ps[k],
           qs[1] = <<c>>
    PROVE  /\ qs \in Seq(Seq(Bytes))
           /\ OneEmpty(qs)
           /\ Len(qs[1]) # 0
           /\ FlattenSeq(qs) = <<c>> \o FlattenSeq(ps)
<1>1. /\ qs # <<>>
      /\ 1 \in 1..(n + 1) /\ \A k \in 1..(n + 1) : k = 1 \/ (k - 1 \in 1..n /\ (k - 1) + 1 = k)
      /\ \A k \in 1..n : ps[k] \in Seq(Bytes)
  OBVIOUS
<1>5. qs[1] \in Seq(Bytes) /\ Len(qs[1]) # 0
  OBVIOUS
<1>6. qs \in Seq(Seq(Bytes))
  <2>1. \A k \in 1..(n + 1) : qs[k] \in Seq(Bytes)
    BY <1>1, <1>5
  <2>2. qs = [k \in 1..(n + 1) |-> qs[k]]
    OBVIOUS
  <2> QED BY <2>1, <2>2
<1>7. OneEmpty(qs)
  <2> SUFFICES ASSUME NEW j \in 1..(n + 1), NEW k \in 1..(n + 1),
                      Len(qs[j]) = 0, Len(qs[k]) = 0
               PROVE  j = k
    BY DEF OneEmpty
  <2>1. /\ j - 1 \in 1..n /\ (j - 1) + 1 = j
        /\ k - 1 \in 1..n /\ (k - 1) + 1 = k
    BY <1>1, <1>5
  <2>2. Len(ps[j - 1]) = 0 /\ Len(ps[k - 1]) = 0
    BY <2>1
  <2>3. j - 1 = k - 1
    BY <2>1, <2>2 DEF OneEmpty
  <2> QED BY <2>1, <2>3
<1>8. Tail(qs) = ps
  <2>1. Tail(qs) \in Seq(Seq(Bytes)) /\ Len(Tail(qs)) = n
    BY <1>1, <1>6
  <2>2. \A k \in 1..n : Tail(qs)[k] = qs[k + 1]
    BY <1>1, <1>6
  <2>4. \A k \in 1..n : Tail(qs)[k] = ps[k]
    BY <2>2
  <2> QED BY <2>1, <2>4, SameSeq
<1>9. FlattenSeq(qs) = qs[1] \o FlattenSeq(Tail(qs))
  BY <1>1, <1>6, FlattenHead
<1> QED BY <1>5, <1>6, <1>7, <1>8, <1>9

\* A byte is written before what is stored.
LEMMA SetAtIs ==
    ASSUME NEW s \in BufferType, Len(s.buffers) = s.tailBuffer + 1,
           s.tail <= Len(s.buffers[s.tailBuffer + 1]),
           NEW h \in Nat, h + 1 <= End(s, 0), NEW c \in Bytes
    PROVE  /\ Shape(SetAt(s, h, c))
           /\ SetAt(s, h, c).tailBuffer = s.tailBuffer
           /\ SetAt(s, h, c).bufferSize = s.bufferSize + 1
           /\ SetAt(s, h, c).head = h
           /\ SetAt(s, h, c).tail = s.tail
           /\ Parts(SetAt(s, h, c))[1]
              = <<c>> \o SubSeq(s.buffers[1], (h + 1) + 1, End(s, 0))
           /\ \A k \in 2..(s.tailBuffer + 1) :
                Parts(SetAt(s, h, c))[k] = SubSeq(s.buffers[k], 0 + 1, End(s, k - 1))
<1> DEFINE w     == SetAt(s, h, c)
           tb    == s.tailBuffer
           block == s.buffers[1]
           set   == Written(block, h, <<c>>)
           bs    == [s.buffers EXCEPT ![1] = set]
<1>1. /\ s = Record(s.buffers, s.head, s.tail, s.tailBuffer, s.bufferSize)
      /\ s.buffers \in Seq(Seq(Stuff)) /\ s.head \in Nat /\ s.tail \in Nat
      /\ tb \in Nat /\ s.bufferSize \in Nat
  BY IsRecord
<1>2. /\ 1 \in 1..Len(s.buffers) /\ block \in Seq(Stuff) /\ c \in Stuff
      /\ 1 \in 1..(tb + 1)
  BY <1>1 DEF Stuff
<1>3. End(s, 0) \in Nat /\ End(s, 0) <= Len(block)
      /\ End(s, 0) = IF tb = 0 THEN s.tail ELSE Len(block)
  BY <1>1, <1>2 DEF End, Block
<1>4. /\ set \in Seq(Stuff) /\ Len(set) = Len(block)
      /\ SubSeq(set, h + 1, End(s, 0)) = <<c>> \o SubSeq(block, (h + 1) + 1, End(s, 0))
  <2> HIDE DEF block
  <2> QED BY <1>2, <1>3, SetFound
<1> HIDE DEF set, block
<1>5. /\ bs \in Seq(Seq(Stuff)) /\ Len(bs) = Len(s.buffers) /\ bs[1] = set
      /\ \A k \in 1..Len(s.buffers) : k # 1 => bs[k] = s.buffers[k]
  BY <1>1, <1>2, <1>4, BlockReplaced, SMTT(60)
<1>6. w = [s EXCEPT !.buffers = bs, !.head = h, !.bufferSize = s.bufferSize + 1]
  BY <1>1 DEF SetAt, set, block
<1> HIDE DEF w, bs
<1>7. w = Record(bs, h, s.tail, tb, s.bufferSize + 1)
  BY <1>1, <1>6 DEF Record
<1>8. /\ w \in BufferType /\ w.buffers = bs /\ w.head = h /\ w.tail = s.tail
      /\ w.tailBuffer = tb /\ w.bufferSize = s.bufferSize + 1
  <2>1. s.bufferSize + 1 \in Nat
    BY <1>1
  <2> QED BY <1>1, <1>5, <1>7, <2>1 DEF Record, BufferType
<1>9. \A k \in 1..(tb + 1) : Len(bs[k]) = Len(s.buffers[k])
  <2> SUFFICES ASSUME NEW k \in 1..(tb + 1) PROVE Len(bs[k]) = Len(s.buffers[k])
    OBVIOUS
  <2>1. CASE k = 1
    BY <1>4, <1>5, <2>1 DEF block
  <2>2. CASE k # 1
    BY <1>5, <2>2
  <2> QED BY <2>1, <2>2
<1>10. \A k \in 1..(tb + 1) : End(w, k - 1) = End(s, k - 1)
  <2> SUFFICES ASSUME NEW k \in 1..(tb + 1) PROVE End(w, k - 1) = End(s, k - 1)
    OBVIOUS
  <2>1. (k - 1) + 1 = k
    BY <1>1
  <2>2. Len(bs[k]) = Len(s.buffers[k])
    BY <1>9
  <2> QED BY <1>8, <2>1, <2>2 DEF End, Block
<1>11. Shape(w)
  <2>1. tb + 1 \in 1..(tb + 1) /\ 1 - 1 = 0
    BY <1>1
  <2>2. w.tail <= Len(w.buffers[w.tailBuffer + 1])
    BY <1>8, <1>9, <2>1
  <2>3. End(w, 0) = End(s, 0)
    BY <1>2, <1>10, <2>1
  <2>4. w.head <= End(w, 0)
    BY <1>3, <1>8, <2>3
  <2> QED BY <1>5, <1>8, <2>2, <2>4 DEF Shape
<1>12. \A k \in 1..(tb + 1) :
          Parts(w)[k] = SubSeq(bs[k], Begin(w, k - 1) + 1, End(s, k - 1))
          /\ Begin(w, k - 1) = IF k = 1 THEN h ELSE 0
  <2>1. \A k \in 1..(w.tailBuffer + 1) :
           Parts(w)[k] = SubSeq(w.buffers[k], Begin(w, k - 1) + 1, End(w, k - 1))
           /\ Begin(w, k - 1) = IF k = 1 THEN w.head ELSE 0
    BY <1>11, PartsAre
  <2> SUFFICES ASSUME NEW k \in 1..(tb + 1)
               PROVE  Parts(w)[k] = SubSeq(bs[k], Begin(w, k - 1) + 1, End(s, k - 1))
                      /\ Begin(w, k - 1) = IF k = 1 THEN h ELSE 0
    OBVIOUS
  <2>2. k \in 1..(w.tailBuffer + 1)
    BY <1>8
  <2>3. /\ Parts(w)[k] = SubSeq(bs[k], Begin(w, k - 1) + 1, End(w, k - 1))
        /\ Begin(w, k - 1) = IF k = 1 THEN h ELSE 0
    BY <1>8, <2>1, <2>2
  <2>4. End(w, k - 1) = End(s, k - 1)
    BY <1>10
  <2> QED BY <2>3, <2>4
<1>13. Parts(w)[1] = <<c>> \o SubSeq(block, (h + 1) + 1, End(s, 0))
  <2>1. 1 - 1 = 0
    OBVIOUS
  <2>2. Parts(w)[1] = SubSeq(set, h + 1, End(s, 0))
    BY <1>2, <1>5, <1>12, <2>1
  <2> QED BY <1>4, <2>2
<1>14. \A k \in 2..(tb + 1) : Parts(w)[k] = SubSeq(s.buffers[k], 0 + 1, End(s, k - 1))
  <2>1. \A k \in 2..(tb + 1) : k \in 1..(tb + 1) /\ k # 1
    BY <1>1
  <2> QED BY <1>5, <1>12, <2>1
<1> QED BY <1>8, <1>11, <1>13, <1>14 DEF w, block

\* The block which is put before the others.
LEMMA WithFirstIs ==
    ASSUME NEW r \in BufferType
    PROVE  /\ WithFirst(r) \in BufferType
           /\ WithFirst(r).tail = r.tail
           /\ WithFirst(r).tailBuffer = r.tailBuffer + 1
           /\ WithFirst(r).bufferSize = r.bufferSize
           /\ Len(WithFirst(r).buffers) = Len(r.buffers) + 1
           /\ WithFirst(r).buffers[1] \in Seq(Stuff)
           /\ Len(WithFirst(r).buffers[1]) = basicBlockSize
           /\ \A k \in 1..Len(r.buffers) : WithFirst(r).buffers[k + 1] = r.buffers[k]
<1> DEFINE w     == WithFirst(r)
           block == Resize(<<>>, basicBlockSize)
           bs    == <<block>> \o r.buffers
<1>1. /\ r = Record(r.buffers, r.head, r.tail, r.tailBuffer, r.bufferSize)
      /\ r.buffers \in Seq(Seq(Stuff)) /\ r.head \in Nat /\ r.tail \in Nat
      /\ r.tailBuffer \in Nat /\ r.bufferSize \in Nat
  BY IsRecord
<1>2. block \in Seq(Stuff) /\ Len(block) = basicBlockSize
  <2>1. <<>> \in Seq(Stuff) /\ basicBlockSize \in Nat
    BY BlockAssumption
  <2> QED BY <2>1, ResizeType
<1>3. w = [r EXCEPT !.buffers = bs, !.tailBuffer = r.tailBuffer + 1]
  BY <1>1 DEF WithFirst
<1> HIDE DEF block
<1>4. /\ bs \in Seq(Seq(Stuff)) /\ Len(bs) = Len(r.buffers) + 1
      /\ bs[1] = block
      /\ \A k \in 1..Len(r.buffers) : bs[k + 1] = r.buffers[k]
  BY <1>1, <1>2
<1> HIDE DEF w, bs
<1>5. w = Record(bs, r.head, r.tail, r.tailBuffer + 1, r.bufferSize)
  BY <1>1, <1>3 DEF Record
<1>6. r.tailBuffer + 1 \in Nat
  BY <1>1
<1>7. /\ w \in BufferType /\ w.buffers = bs /\ w.tail = r.tail
      /\ w.tailBuffer = r.tailBuffer + 1 /\ w.bufferSize = r.bufferSize
  BY <1>1, <1>4, <1>5, <1>6 DEF Record, BufferType
<1> QED BY <1>2, <1>4, <1>7 DEF w

\* What is needed of a buffer whose parts are given.
LEMMA RingFrom ==
    ASSUME NEW w, Shape(w), NEW content \in Seq(Bytes),
           Parts(w) \in Seq(Seq(Bytes)), OneEmpty(Parts(w)), Len(Parts(w)[1]) # 0,
           FlattenSeq(Parts(w)) = content, w.bufferSize = Len(content)
    PROVE  Ring(w) /\ Content(w) = content
<1>1. ~(w.tailBuffer = 0 /\ w.head = w.tail)
  <2> SUFFICES ASSUME w.tailBuffer = 0, w.head = w.tail PROVE FALSE
    OBVIOUS
  <2>2. 1 \in 1..(w.tailBuffer + 1) /\ 1 = w.tailBuffer + 1
    OBVIOUS
  <2>3. /\ Len(Parts(w)[1]) = End(w, 1 - 1) - Begin(w, 1 - 1)
        /\ Begin(w, 1 - 1) = w.head /\ End(w, 1 - 1) = w.tail
        /\ Begin(w, 1 - 1) \in Nat
    BY <2>2, PartsAre
  <2> QED BY <2>3
<1> QED BY <1>1 DEF Ring, Stores, Content

\* ungetChar puts a byte before what is stored.
LEMMA UngetKeeps ==
    ASSUME NEW r, Ring(r), NEW c \in Bytes
    PROVE  Ring(UngetChar(r, c)) /\ Content(UngetChar(r, c)) = <<c>> \o Content(r)
<1> DEFINE w  == UngetChar(r, c)
           ps == Parts(r)
           qs == Parts(w)
           tb == r.tailBuffer
<1>1. /\ r \in BufferType /\ tb \in Nat /\ r.head \in Nat /\ r.bufferSize \in Nat
      /\ Len(r.buffers) = tb + 1
      /\ r.tail <= Len(r.buffers[tb + 1])
  BY RingIs
<1>2. /\ ps \in Seq(Seq(Bytes)) /\ OneEmpty(ps) /\ Len(ps) = tb + 1
      /\ r.bufferSize = Len(FlattenSeq(ps))
  BY PartsAre DEF Ring, Stores, Content
<1>3. \A k \in 1..(tb + 1) :
         /\ Begin(r, k - 1) = IF k = 1 THEN r.head ELSE 0
         /\ End(r, k - 1) \in Nat /\ End(r, k - 1) <= Len(r.buffers[k])
         /\ Begin(r, k - 1) <= End(r, k - 1)
         /\ End(r, k - 1) = IF k = tb + 1 THEN r.tail ELSE Len(r.buffers[k])
         /\ ps[k] = SubSeq(r.buffers[k], Begin(r, k - 1) + 1, End(r, k - 1))
  BY PartsAre DEF Ring
<1>4. 1 \in 1..(tb + 1) /\ 1 - 1 = 0
  BY <1>1
<1>5. /\ Shape(w) /\ w.bufferSize = r.bufferSize + 1
      /\ qs \in Seq(Seq(Bytes)) /\ OneEmpty(qs) /\ Len(qs[1]) # 0
      /\ FlattenSeq(qs) = <<c>> \o FlattenSeq(ps)
  <2>1. CASE r.head > 0
    <3> DEFINE h == r.head - 1
    <3>1. w = SetAt(r, h, c)
      BY <2>1 DEF UngetChar
    <3>2. h \in Nat /\ h + 1 = r.head
      BY <1>1, <2>1
    <3>3. r.head <= End(r, 0)
      BY <1>3, <1>4
    <3> HIDE DEF h
    <3>4. /\ Shape(w) /\ w.tailBuffer = tb /\ w.bufferSize = r.bufferSize + 1
          /\ qs[1] = <<c>> \o SubSeq(r.buffers[1], r.head + 1, End(r, 0))
          /\ \A k \in 2..(tb + 1) : qs[k] = SubSeq(r.buffers[k], 0 + 1, End(r, k - 1))
      <4>1. h + 1 <= End(r, 0)
        BY <3>2, <3>3
      <4>2. /\ Shape(w) /\ w.tailBuffer = tb /\ w.bufferSize = r.bufferSize + 1
            /\ qs[1] = <<c>> \o SubSeq(r.buffers[1], (h + 1) + 1, End(r, 0))
            /\ \A k \in 2..(tb + 1) : qs[k] = SubSeq(r.buffers[k], 0 + 1, End(r, k - 1))
        <5>1. Len(r.buffers) = r.tailBuffer + 1 /\ r.tail <= Len(r.buffers[r.tailBuffer + 1])
          BY <1>1
        <5>2. /\ Shape(SetAt(r, h, c)) /\ SetAt(r, h, c).tailBuffer = r.tailBuffer
              /\ SetAt(r, h, c).bufferSize = r.bufferSize + 1
              /\ Parts(SetAt(r, h, c))[1] = <<c>> \o SubSeq(r.buffers[1], (h + 1) + 1, End(r, 0))
              /\ \A k \in 2..(r.tailBuffer + 1) :
                   Parts(SetAt(r, h, c))[k] = SubSeq(r.buffers[k], 0 + 1, End(r, k - 1))
          BY <1>1, <3>2, <4>1, <5>1, SetAtIs, ZenonT(60)
        <5>3. UngetChar(r, c) = SetAt(r, h, c)
          BY <3>1
        <5> QED BY <5>2, <5>3
      <4> QED BY <3>2, <4>2
    <3>5. qs \in Seq(Seq(Stuff)) /\ Len(qs) = tb + 1
      BY <3>4, PartsAre
    <3> HIDE DEF qs, ps
    <3>6. qs[1] = <<c>> \o ps[1]
      BY <1>3, <1>4, <3>4
    <3>7. \A k \in 2..(tb + 1) : qs[k] = ps[k]
      <4>1. \A k \in 2..(tb + 1) : k \in 1..(tb + 1) /\ k # 1
        BY <1>1
      <4> QED BY <1>3, <3>4, <4>1, ZenonT(60)
    <3>8. /\ qs \in Seq(Seq(Bytes)) /\ OneEmpty(qs) /\ Len(qs[1]) # 0
          /\ FlattenSeq(qs) = <<c>> \o FlattenSeq(ps)
      BY <1>1, <1>2, <3>5, <3>6, <3>7, FrontGrownParts
    <3> QED BY <3>4, <3>8
  <2>2. CASE ~(r.head > 0)
    <3> DEFINE h == basicBlockSize - 1
               s == WithFirst(r)
    <3>1. w = SetAt(s, h, c) /\ r.head = 0
      BY <1>1, <2>2 DEF UngetChar
    <3>2. h \in Nat /\ h + 1 = basicBlockSize /\ basicBlockSize \in Nat
      BY BlockAssumption
    <3> HIDE DEF h
    <3>3. /\ s \in BufferType /\ s.tail = r.tail /\ s.tailBuffer = tb + 1
          /\ s.bufferSize = r.bufferSize /\ Len(s.buffers) = tb + 1 + 1
          /\ s.buffers[1] \in Seq(Stuff) /\ Len(s.buffers[1]) = basicBlockSize
          /\ \A k \in 1..(tb + 1) : s.buffers[k + 1] = r.buffers[k]
      BY <1>1, WithFirstIs, Zenon
    <3> HIDE DEF s
    <3>4. End(s, 0) = basicBlockSize
      <4>1. tb + 1 # 0 /\ 0 + 1 = 1
        BY <1>1
      <4> QED BY <3>3, <4>1 DEF End, Block
    <3>5. s.tail <= Len(s.buffers[s.tailBuffer + 1]) /\ h + 1 <= End(s, 0)
      <4>1. tb + 1 \in 1..(tb + 1)
        BY <1>1
      <4>2. s.buffers[(tb + 1) + 1] = r.buffers[tb + 1]
        BY <3>3, <4>1
      <4> QED BY <1>1, <3>2, <3>3, <3>4, <4>2
    <3>6. /\ Shape(w) /\ w.tailBuffer = tb + 1 /\ w.bufferSize = r.bufferSize + 1
          /\ qs[1] = <<c>> \o SubSeq(s.buffers[1], (h + 1) + 1, End(s, 0))
          /\ \A k \in 2..(tb + 1 + 1) : qs[k] = SubSeq(s.buffers[k], 0 + 1, End(s, k - 1))
      <4>1. /\ Shape(w) /\ w.tailBuffer = s.tailBuffer /\ w.bufferSize = s.bufferSize + 1
            /\ qs[1] = <<c>> \o SubSeq(s.buffers[1], (h + 1) + 1, End(s, 0))
            /\ \A k \in 2..(s.tailBuffer + 1) :
                  qs[k] = SubSeq(s.buffers[k], 0 + 1, End(s, k - 1))
        <5>1. Len(s.buffers) = s.tailBuffer + 1
          BY <3>3
        <5>2. /\ Shape(SetAt(s, h, c)) /\ SetAt(s, h, c).tailBuffer = s.tailBuffer
              /\ SetAt(s, h, c).bufferSize = s.bufferSize + 1
              /\ Parts(SetAt(s, h, c))[1] = <<c>> \o SubSeq(s.buffers[1], (h + 1) + 1, End(s, 0))
              /\ \A k \in 2..(s.tailBuffer + 1) :
                   Parts(SetAt(s, h, c))[k] = SubSeq(s.buffers[k], 0 + 1, End(s, k - 1))
          BY <3>2, <3>3, <3>5, <5>1, SetAtIs, ZenonT(60)
        <5>3. UngetChar(r, c) = SetAt(s, h, c)
          BY <3>1
        <5> QED BY <5>2, <5>3
      <4> QED BY <3>3, <4>1
    <3>7. qs[1] = <<c>>
      <4>1. SubSeq(s.buffers[1], basicBlockSize + 1, basicBlockSize) = <<>>
        BY <3>2, <3>3
      <4>2. <<c>> \o <<>> = <<c>>
        BY ConcatEmptySeq
      <4> HIDE DEF qs
      <4>3. qs[1] = <<c>> \o SubSeq(s.buffers[1], basicBlockSize + 1, basicBlockSize)
        BY <3>2, <3>4, <3>6
      <4> QED BY <4>1, <4>2, <4>3
    <3>8. ASSUME NEW k \in 1..(tb + 1) PROVE qs[k + 1] = ps[k]
      <4>1. k + 1 \in 2..(tb + 1 + 1) /\ (k + 1) - 1 = k /\ (k - 1) + 1 = k
            /\ (k = tb + 1 <=> k - 1 = tb)
        BY <1>1
      <4>2. qs[k + 1] = SubSeq(r.buffers[k], 0 + 1, End(s, k))
        <5> HIDE DEF qs
        <5> QED BY <3>3, <3>6, <4>1
      <4>3. End(s, k) = IF k = tb + 1 THEN r.tail ELSE Len(r.buffers[k])
        BY <3>3 DEF End, Block
      <4>4. End(r, k - 1) = End(s, k) /\ Begin(r, k - 1) = 0
        BY <1>3, <3>1, <4>3
      <4> HIDE DEF qs, ps
      <4> QED BY <1>3, <4>2, <4>4
    <3>9. qs \in Seq(Seq(Stuff)) /\ Len(qs) = tb + 1 + 1 /\ tb + 1 \in Nat
      <4>1. Shape(w) /\ w.tailBuffer = tb + 1 /\ tb + 1 \in Nat
        BY <1>1, <3>6
      <4> HIDE DEF w
      <4>2. qs \in Seq(Seq(Stuff)) /\ Len(qs) = w.tailBuffer + 1
        BY <4>1, PartsAre
      <4> QED BY <4>1, <4>2
    <3> HIDE DEF qs, ps
    <3>10. /\ qs \in Seq(Seq(Bytes)) /\ OneEmpty(qs) /\ Len(qs[1]) # 0
           /\ FlattenSeq(qs) = <<c>> \o FlattenSeq(ps)
      BY <1>2, <3>7, <3>8, <3>9, PrependedParts
    <3> QED BY <3>6, <3>10
  <2> QED BY <2>1, <2>2
<1>6. /\ <<c>> \o FlattenSeq(ps) \in Seq(Bytes)
      /\ Len(<<c>> \o FlattenSeq(ps)) = r.bufferSize + 1
  <2>1. FlattenSeq(ps) \in Seq(Bytes)
    BY <1>2, FlattenType
  <2>2. <<c>> \in Seq(Bytes) /\ Len(<<c>>) = 1
    OBVIOUS
  <2>3. /\ <<c>> \o FlattenSeq(ps) \in Seq(Bytes)
        /\ Len(<<c>> \o FlattenSeq(ps)) = 1 + Len(FlattenSeq(ps))
    BY <2>1, <2>2, ConcatProperties
  <2> QED BY <1>1, <1>2, <2>3
<1> HIDE DEF w
<1>7. Ring(w) /\ Content(w) = <<c>> \o FlattenSeq(ps)
  BY <1>5, <1>6, RingFrom
<1> QED BY <1>7 DEF w, Content

\* A set of numbers that is not empty and bounded has a largest element.
LEMMA Largest ==
    ASSUME NEW m \in Nat, NEW S, S \subseteq 0..m, S # {}
    PROVE  Max(S) \in S /\ \A y \in S : y <= Max(S)
<1> DEFINE T == {m - y : y \in S}
<1>1. T \subseteq Nat /\ T # {}
  <2>1. ASSUME NEW y \in S PROVE m - y \in Nat
    <3>1. y \in 0..m
      OBVIOUS
    <3> QED BY <3>1
  <2>2. T \subseteq Nat
    BY <2>1
  <2>3. PICK y \in S : TRUE
    OBVIOUS
  <2>4. m - y \in T
    BY <2>3
  <2> QED BY <2>2, <2>4
<1>2. PICK t \in T : \A y \in T : t <= y
  BY <1>1, Smallest
<1>3. PICK x \in S : t = m - x
  OBVIOUS
<1>4. \A y \in S : x >= y
  <2> SUFFICES ASSUME NEW y \in S PROVE x >= y
    OBVIOUS
  <2>1. t <= m - y
    BY <1>2
  <2>2. x \in 0..m /\ y \in 0..m
    OBVIOUS
  <2> QED BY <1>3, <2>1, <2>2
<1>5. Max(S) \in S /\ \A y \in S : Max(S) >= y
  BY <1>4 DEF Max
<1>6. ASSUME NEW y \in S PROVE y \in Int
  <2>1. y \in 0..m
    OBVIOUS
  <2> QED BY <2>1
<1> QED BY <1>5, <1>6

\* What is left of two sequences when the first and more, or a part of the
\* first, are taken away.
LEMMA SkipFirst ==
    ASSUME NEW S, NEW p \in Seq(S), NEW q \in Seq(S), NEW m \in 0..Len(q)
    PROVE  SubSeq(p \o q, (Len(p) + m) + 1, Len(p \o q)) = SubSeq(q, m + 1, Len(q))
<1> DEFINE w == p \o q
           n == Len(p) + m
<1>1. /\ w \in Seq(S) /\ Len(w) = Len(p) + Len(q)
      /\ \A i \in 1..Len(w) : w[i] = IF i <= Len(p) THEN p[i] ELSE q[i - Len(p)]
  BY ConcatProperties
<1>2. Len(p) \in Nat /\ Len(q) \in Nat /\ n \in Nat /\ n <= Len(w) /\ Len(w) \in Nat
  BY <1>1
<1> HIDE DEF w
<1>3. /\ SubSeq(w, n + 1, Len(w)) \in Seq(S) /\ Len(SubSeq(w, n + 1, Len(w))) = Len(w) - n
      /\ \A i \in 1..(Len(w) - n) : SubSeq(w, n + 1, Len(w))[i] = w[n + i]
  <2> HIDE DEF n
  <2>1. w \in Seq(S) /\ n \in Nat /\ n <= Len(w) /\ Len(w) \in Nat /\ Len(w) <= Len(w)
    BY <1>1, <1>2
  <2> QED BY <2>1, Piece
<1>4. /\ SubSeq(q, m + 1, Len(q)) \in Seq(S) /\ Len(SubSeq(q, m + 1, Len(q))) = Len(q) - m
      /\ \A i \in 1..(Len(q) - m) : SubSeq(q, m + 1, Len(q))[i] = q[m + i]
  BY <1>2, Piece
<1>5. Len(w) - n = Len(q) - m
  BY <1>1, <1>2
<1>6. ASSUME NEW i \in 1..(Len(q) - m) PROVE w[n + i] = q[m + i]
  <2>0. i \in Nat /\ i >= 1 /\ m + i <= Len(q) /\ m \in Nat
    BY <1>2
  <2>1. n + i \in 1..Len(w) /\ ~(n + i <= Len(p)) /\ (n + i) - Len(p) = m + i
    BY <1>1, <1>2, <2>0
  <2> QED BY <1>1, <2>1
<1> HIDE DEF n
<1>7. SubSeq(w, n + 1, Len(w)) = SubSeq(q, m + 1, Len(q))
  <2> DEFINE first == SubSeq(w, n + 1, Len(w))
             second == SubSeq(q, m + 1, Len(q))
  <2>1. first \in Seq(S) /\ second \in Seq(S) /\ Len(first) = Len(second)
    BY <1>3, <1>4, <1>5
  <2>2. ASSUME NEW i \in 1..Len(first) PROVE first[i] = second[i]
    <3>1. i \in 1..(Len(w) - n) /\ i \in 1..(Len(q) - m)
      BY <1>3, <1>5
    <3>2. first[i] = w[n + i] /\ second[i] = q[m + i] /\ w[n + i] = q[m + i]
      BY <1>3, <1>4, <1>6, <3>1
    <3> QED BY <3>2
  <2> HIDE DEF first, second
  <2>3. first = second
    BY <2>1, <2>2, SameSeq
  <2> QED BY <2>3 DEF first, second
<1> QED BY <1>7 DEF w, n

\* A part of the first is taken away.
LEMMA CutFirst ==
    ASSUME NEW S, NEW p \in Seq(S), NEW q \in Seq(S), NEW m \in 0..Len(p)
    PROVE  SubSeq(p \o q, m + 1, Len(p \o q)) = SubSeq(p, m + 1, Len(p)) \o q
<1> DEFINE w == p \o q
           a == SubSeq(p, m + 1, Len(p))
<1>1. /\ w \in Seq(S) /\ Len(w) = Len(p) + Len(q)
      /\ \A i \in 1..Len(w) : w[i] = IF i <= Len(p) THEN p[i] ELSE q[i - Len(p)]
  BY ConcatProperties
<1>2. Len(p) \in Nat /\ Len(q) \in Nat /\ m \in Nat /\ m <= Len(w) /\ Len(w) \in Nat
  BY <1>1
<1>3. /\ a \in Seq(S) /\ Len(a) = Len(p) - m
      /\ \A i \in 1..(Len(p) - m) : a[i] = p[m + i]
  BY <1>2, Piece
<1> HIDE DEF w, a
<1>4. /\ a \o q \in Seq(S) /\ Len(a \o q) = Len(a) + Len(q)
      /\ \A i \in 1..Len(a \o q) : (a \o q)[i] = IF i <= Len(a) THEN a[i] ELSE q[i - Len(a)]
  <2>1. a \in Seq(S) /\ q \in Seq(S)
    BY <1>3
  <2> QED BY <2>1, ConcatProperties
<1>5. /\ SubSeq(w, m + 1, Len(w)) \in Seq(S) /\ Len(SubSeq(w, m + 1, Len(w))) = Len(w) - m
      /\ \A i \in 1..(Len(w) - m) : SubSeq(w, m + 1, Len(w))[i] = w[m + i]
  BY <1>1, <1>2, Piece, SMTT(60)
<1>6. Len(w) - m = Len(a \o q)
  BY <1>1, <1>2, <1>3, <1>4
<1>7. ASSUME NEW i \in 1..(Len(w) - m) PROVE w[m + i] = (a \o q)[i]
  <2>0. i \in Nat /\ i >= 1 /\ m + i <= Len(w) /\ m \in Nat
    BY <1>2
  <2>1. m + i \in 1..Len(w) /\ i \in 1..Len(a \o q)
    BY <1>2, <1>6, <2>0
  <2>2. CASE i <= Len(a)
    <3>1. m + i <= Len(p) /\ i \in 1..(Len(p) - m)
      BY <1>2, <1>3, <2>2
    <3> QED BY <1>1, <1>3, <1>4, <2>1, <2>2, <3>1
  <2>3. CASE ~(i <= Len(a))
    <3>1. ~(m + i <= Len(p)) /\ (m + i) - Len(p) = i - Len(a)
      BY <1>2, <1>3, <2>3
    <3> QED BY <1>1, <1>4, <2>1, <2>3, <3>1
  <2> QED BY <2>2, <2>3
<1>8. SubSeq(w, m + 1, Len(w)) = a \o q
  BY <1>4, <1>5, <1>6, <1>7, SameSeq
<1> QED BY <1>8 DEF w, a

\* Bytes are taken from the first part.
LEMMA FrontCutParts ==
    ASSUME NEW ps \in Seq(Seq(Bytes)), NEW qs \in Seq(Seq(Stuff)), NEW n \in Nat,
           Len(ps) = n + 1, Len(qs) = n + 1, OneEmpty(ps), NEW m \in Nat, m < Len(ps[1]),
           \A k \in 2..(n + 1) : qs[k] = ps[k],
           qs[1] = SubSeq(ps[1], m + 1, Len(ps[1]))
    PROVE  /\ qs \in Seq(Seq(Bytes))
           /\ OneEmpty(qs)
           /\ Len(qs[1]) # 0
           /\ FlattenSeq(qs) = SubSeq(FlattenSeq(ps), m + 1, Len(FlattenSeq(ps)))
<1>1. /\ ps # <<>> /\ qs # <<>>
      /\ 1 \in 1..(n + 1) /\ \A k \in 1..(n + 1) : k = 1 \/ k \in 2..(n + 1)
      /\ \A k \in 1..(n + 1) : ps[k] \in Seq(Bytes)
  OBVIOUS
<1>2. PICK p \in Seq(Bytes) : p = ps[1]
  BY <1>1
<1>4. /\ Len(p) \in Nat /\ m \in 0..Len(p)
      /\ SubSeq(p, m + 1, Len(p)) \in Seq(Bytes) /\ Len(SubSeq(p, m + 1, Len(p))) = Len(p) - m
  <2>1. Len(p) \in Nat /\ m < Len(p)
    BY <1>2
  <2> QED BY <2>1, Piece
<1>5. qs[1] \in Seq(Bytes) /\ Len(qs[1]) # 0
  BY <1>2, <1>4
<1>6. qs \in Seq(Seq(Bytes))
  <2>1. ASSUME NEW k \in 1..(n + 1) PROVE qs[k] \in Seq(Bytes)
    <3>1. CASE k = 1
      BY <1>5, <3>1
    <3>2. CASE k \in 2..(n + 1)
      <4>1. qs[k] = ps[k] /\ ps[k] \in Seq(Bytes)
        BY <1>1, <3>2
      <4> QED BY <4>1
    <3> QED BY <1>1, <3>1, <3>2
  <2>2. qs = [k \in 1..(n + 1) |-> qs[k]]
    OBVIOUS
  <2>3. \A S : \A f \in [1..(n + 1) -> S] : f \in Seq(S)
    OBVIOUS
  <2>4. qs \in [1..(n + 1) -> Seq(Bytes)]
    BY <2>1, <2>2
  <2> QED BY <2>3, <2>4
<1>7. OneEmpty(qs)
  <2> SUFFICES ASSUME NEW j \in 1..(n + 1), NEW k \in 1..(n + 1),
                      Len(qs[j]) = 0, Len(qs[k]) = 0
               PROVE  j = k
    BY DEF OneEmpty
  <2>1. j \in 2..(n + 1) /\ k \in 2..(n + 1)
    BY <1>1, <1>5
  <2>2. Len(ps[j]) = 0 /\ Len(ps[k]) = 0
    BY <2>1
  <2> QED BY <2>2 DEF OneEmpty
<1>8. Tail(qs) = Tail(ps)
  <2>1. /\ Tail(qs) \in Seq(Seq(Bytes)) /\ Tail(ps) \in Seq(Seq(Bytes))
        /\ Len(Tail(qs)) = n /\ Len(Tail(ps)) = n
    BY <1>1, <1>6
  <2>2. \A k \in 1..n : Tail(qs)[k] = qs[k + 1] /\ Tail(ps)[k] = ps[k + 1]
    BY <1>1, <1>6
  <2>3. \A k \in 1..n : k + 1 \in 2..(n + 1)
    OBVIOUS
  <2>4. \A k \in 1..n : Tail(qs)[k] = Tail(ps)[k]
    BY <2>2, <2>3
  <2> QED BY <2>1, <2>4, SameSeq
<1>9. /\ FlattenSeq(qs) = qs[1] \o FlattenSeq(Tail(qs))
      /\ FlattenSeq(ps) = ps[1] \o FlattenSeq(Tail(ps))
      /\ FlattenSeq(Tail(ps)) \in Seq(Bytes)
  BY <1>1, <1>6, FlattenHead, FlattenType
<1>10. SubSeq(p \o FlattenSeq(Tail(ps)), m + 1, Len(p \o FlattenSeq(Tail(ps))))
       = SubSeq(p, m + 1, Len(p)) \o FlattenSeq(Tail(ps))
  BY <1>4, <1>9, CutFirst
<1> QED BY <1>2, <1>5, <1>6, <1>7, <1>8, <1>9, <1>10

\* The parts that are left when the first k are removed.
LEMMA RestOfParts ==
    ASSUME NEW ps \in Seq(Seq(Bytes)), OneEmpty(ps), NEW k \in 0..Len(ps)
    PROVE  /\ SubSeq(ps, k + 1, Len(ps)) \in Seq(Seq(Bytes))
           /\ Len(SubSeq(ps, k + 1, Len(ps))) = Len(ps) - k
           /\ \A i \in 1..(Len(ps) - k) : SubSeq(ps, k + 1, Len(ps))[i] = ps[k + i]
           /\ OneEmpty(SubSeq(ps, k + 1, Len(ps)))
<1> DEFINE qs == SubSeq(ps, k + 1, Len(ps))
<1>1. k \in Nat /\ Len(ps) \in Nat /\ k <= Len(ps)
  OBVIOUS
<1>2. /\ qs \in Seq(Seq(Bytes)) /\ Len(qs) = Len(ps) - k
      /\ \A i \in 1..(Len(ps) - k) : qs[i] = ps[k + i]
  BY <1>1, Piece
<1> HIDE DEF qs
<1>3. OneEmpty(qs)
  <2> SUFFICES ASSUME NEW i \in 1..Len(qs), NEW j \in 1..Len(qs),
                      Len(qs[i]) = 0, Len(qs[j]) = 0
               PROVE  i = j
    BY DEF OneEmpty
  <2>1. k + i \in 1..Len(ps) /\ k + j \in 1..Len(ps)
    BY <1>1, <1>2
  <2>2. Len(ps[k + i]) = 0 /\ Len(ps[k + j]) = 0
    BY <1>2
  <2>3. k + i = k + j
    BY <2>1, <2>2 DEF OneEmpty
  <2> QED BY <1>1, <2>3
<1> QED BY <1>2, <1>3 DEF qs

\* How many bytes are before the next part.
LEMMA NextBefore ==
    ASSUME NEW S, NEW ps \in Seq(Seq(S)), NEW k \in 0..(Len(ps) - 1)
    PROVE  /\ Len(FlattenSeq(SubSeq(ps, 1, k))) \in Nat
           /\ ps[k + 1] \in Seq(S)
           /\ Len(FlattenSeq(SubSeq(ps, 1, k + 1)))
              = Len(FlattenSeq(SubSeq(ps, 1, k))) + Len(ps[k + 1])
<1> DEFINE a == SubSeq(ps, 1, k)
           b1 == SubSeq(ps, 1, k + 1)
           p == ps[k + 1]
<1>1. k \in Nat /\ k + 1 \in Nat /\ k <= Len(ps) /\ k + 1 <= Len(ps) /\ Len(ps) \in Nat
      /\ k + 1 \in 1..Len(ps) /\ k \in 0..Len(ps) /\ k + 1 \in 0..Len(ps)
  OBVIOUS
<1>2. a \in Seq(Seq(S)) /\ b1 \in Seq(Seq(S)) /\ p \in Seq(S)
  <2>1. p \in Seq(S)
    BY <1>1
  <2>2. a \in Seq(Seq(S)) /\ b1 \in Seq(Seq(S))
    BY <1>1, FlattenSplit
  <2> QED BY <2>1, <2>2
<1>3. b1 = Append(a, p)
  <2>1. \A j \in 0..Len(ps) : SubSeq(ps, 1, j) \in Seq(Seq(S)) /\ Len(SubSeq(ps, 1, j)) = j
                             /\ \A i \in 1..j : SubSeq(ps, 1, j)[i] = ps[i]
    <3> SUFFICES ASSUME NEW j \in 0..Len(ps)
                 PROVE  /\ SubSeq(ps, 1, j) \in Seq(Seq(S)) /\ Len(SubSeq(ps, 1, j)) = j
                        /\ \A i \in 1..j : SubSeq(ps, 1, j)[i] = ps[i]
      OBVIOUS
    <3>1. 0 \in Nat /\ j \in Nat /\ 0 <= j /\ j <= Len(ps) /\ 0 + 1 = 1 /\ j - 0 = j
          /\ \A i \in 1..j : 0 + i = i
      OBVIOUS
    <3>2. /\ SubSeq(ps, 0 + 1, j) \in Seq(Seq(S))
          /\ Len(SubSeq(ps, 0 + 1, j)) = j - 0
          /\ \A i \in 1..(j - 0) : SubSeq(ps, 0 + 1, j)[i] = ps[0 + i]
      BY <3>1, Piece
    <3> QED BY <3>1, <3>2
  <2>2. /\ Len(a) = k /\ Len(b1) = k + 1
        /\ \A i \in 1..k : a[i] = ps[i]
        /\ \A i \in 1..(k + 1) : b1[i] = ps[i]
    BY <1>1, <2>1
  <2> HIDE DEF a, b1, p
  <2>3. Append(a, p) \in Seq(Seq(S)) /\ Len(Append(a, p)) = k + 1
        /\ \A i \in 1..k : Append(a, p)[i] = a[i]
        /\ Append(a, p)[k + 1] = p
    BY <1>2, <2>2
  <2>4. \A i \in 1..(k + 1) : b1[i] = Append(a, p)[i]
    <3> SUFFICES ASSUME NEW i \in 1..(k + 1) PROVE b1[i] = Append(a, p)[i]
      OBVIOUS
    <3>1. CASE i = k + 1
      BY <2>2, <2>3, <3>1 DEF p
    <3>2. CASE i # k + 1
      <4>1. i \in 1..k
        BY <1>1, <3>2
      <4> QED BY <2>2, <2>3, <4>1
    <3> QED BY <3>1, <3>2
  <2> QED BY <1>2, <2>2, <2>3, <2>4, SameSeq
<1> HIDE DEF a, b1, p
<1>4. FlattenSeq(b1) = FlattenSeq(a) \o p /\ FlattenSeq(a) \in Seq(S)
  BY <1>2, <1>3, FlattenAppend, FlattenType
<1>5. Len(FlattenSeq(b1)) = Len(FlattenSeq(a)) + Len(p) /\ Len(FlattenSeq(a)) \in Nat
  BY <1>2, <1>4, ConcatProperties
<1> QED BY <1>2, <1>5 DEF a, b1, p

\* The first blocks are removed, their parts with them.
LEMMA DropIs ==
    ASSUME NEW r, Shape(r), Parts(r) \in Seq(Seq(Bytes)), OneEmpty(Parts(r)),
           NEW k \in 0..r.tailBuffer
    PROVE  /\ Shape(Drop(r, k))
           /\ Drop(r, k).tailBuffer = r.tailBuffer - k
           /\ Drop(r, k).bufferSize = r.bufferSize
           /\ Parts(Drop(r, k)) = SubSeq(Parts(r), k + 1, Len(Parts(r)))
           /\ OneEmpty(Parts(Drop(r, k)))
<1> DEFINE d  == Drop(r, k)
           tb == r.tailBuffer
           h  == IF k = 0 THEN r.head ELSE 0
           bs == SubSeq(r.buffers, k + 1, Len(r.buffers))
           ps == Parts(r)
           qs == SubSeq(ps, k + 1, Len(ps))
<1>1. /\ r = Record(r.buffers, r.head, r.tail, tb, r.bufferSize)
      /\ r.buffers \in Seq(Seq(Stuff)) /\ r.head \in Nat /\ r.tail \in Nat
      /\ tb \in Nat /\ r.bufferSize \in Nat /\ Len(r.buffers) = tb + 1
      /\ r.tail <= Len(r.buffers[tb + 1])
  BY IsRecord DEF Shape
<1>2. /\ k \in Nat /\ k <= tb /\ tb - k \in Nat /\ h \in Nat
      /\ k <= Len(r.buffers) /\ Len(r.buffers) <= Len(r.buffers) /\ Len(r.buffers) \in Nat
      /\ (tb + 1) - k = (tb - k) + 1
  BY <1>1, SMTT(60)
<1>3. /\ bs \in Seq(Seq(Stuff)) /\ Len(bs) = (tb - k) + 1
      /\ \A i \in 1..((tb - k) + 1) : bs[i] = r.buffers[k + i]
  <2>1. /\ bs \in Seq(Seq(Stuff)) /\ Len(bs) = Len(r.buffers) - k
        /\ \A i \in 1..(Len(r.buffers) - k) : bs[i] = r.buffers[k + i]
    <3>1. /\ r.buffers \in Seq(Seq(Stuff)) /\ k \in Nat /\ Len(r.buffers) \in Nat
          /\ k <= Len(r.buffers) /\ Len(r.buffers) <= Len(r.buffers)
      BY <1>1, <1>2
    <3> QED BY <3>1, Piece
  <2> QED BY <1>1, <1>2, <2>1
<1>4. Len(ps) = tb + 1 /\ ps \in Seq(Seq(Bytes)) /\ k \in 0..Len(ps)
  BY <1>1, PartsAre
<1>5. /\ qs \in Seq(Seq(Bytes)) /\ Len(qs) = (tb - k) + 1 /\ OneEmpty(qs)
      /\ \A i \in 1..((tb - k) + 1) : qs[i] = ps[k + i]
  <2>1. /\ qs \in Seq(Seq(Bytes)) /\ Len(qs) = Len(ps) - k /\ OneEmpty(qs)
        /\ \A i \in 1..(Len(ps) - k) : qs[i] = ps[k + i]
    BY <1>4, RestOfParts
  <2> QED BY <1>2, <1>4, <2>1
<1>6. d = [r EXCEPT !.buffers = bs, !.tailBuffer = tb - k, !.head = h]
  BY <1>1 DEF Drop
<1> HIDE DEF d, h, bs, qs, ps
<1>7. d = Record(bs, h, r.tail, tb - k, r.bufferSize)
  BY <1>1, <1>6 DEF Record
<1>8. /\ d \in BufferType /\ d.buffers = bs /\ d.head = h /\ d.tail = r.tail
      /\ d.tailBuffer = tb - k /\ d.bufferSize = r.bufferSize
  BY <1>1, <1>2, <1>3, <1>7 DEF Record, BufferType
<1>9. \A i \in 1..(tb + 1) :
         /\ Begin(r, i - 1) = IF i = 1 THEN r.head ELSE 0
         /\ End(r, i - 1) = IF i = tb + 1 THEN r.tail ELSE Len(r.buffers[i])
         /\ Begin(r, i - 1) <= End(r, i - 1)
         /\ ps[i] = SubSeq(r.buffers[i], Begin(r, i - 1) + 1, End(r, i - 1))
  BY PartsAre DEF ps
<1>10. ASSUME NEW i \in 1..((tb - k) + 1)
       PROVE  /\ End(d, i - 1) = End(r, (k + i) - 1)
              /\ (IF i = 1 THEN h ELSE 0) = Begin(r, (k + i) - 1)
              /\ k + i \in 1..(tb + 1)
  <2>1. /\ i \in Nat /\ k + i \in 1..(tb + 1) /\ (i - 1) + 1 = i
        /\ (i - 1 = tb - k <=> k + i = tb + 1)
        /\ (k + i = 1 <=> k = 0 /\ i = 1)
    <3>1. tb \in Nat /\ k \in Nat /\ k <= tb
      BY <1>1, <1>2
    <3> HIDE DEF tb
    <3> QED BY <3>1
  <2>2. bs[i] = r.buffers[k + i]
    BY <1>3
  <2>3. End(d, i - 1) = IF k + i = tb + 1 THEN r.tail ELSE Len(r.buffers[k + i])
    BY <1>8, <2>1, <2>2 DEF End, Block
  <2>4. Begin(r, (k + i) - 1) = IF k + i = 1 THEN r.head ELSE 0
    BY <1>9, <2>1
  <2>5. (IF i = 1 THEN h ELSE 0) = IF k + i = 1 THEN r.head ELSE 0
    BY <2>1 DEF h
  <2>6. End(r, (k + i) - 1) = IF k + i = tb + 1 THEN r.tail ELSE Len(r.buffers[k + i])
    BY <1>9, <2>1
  <2> QED BY <2>1, <2>3, <2>4, <2>5, <2>6
<1>11. Shape(d)
  <2>1. 1 \in 1..((tb - k) + 1) /\ 1 - 1 = 0
    BY <1>2
  <2>2. (tb - k) + 1 \in 1..((tb - k) + 1) /\ k + ((tb - k) + 1) = tb + 1
    <3>1. tb \in Nat /\ k \in Nat /\ k <= tb
      BY <1>1, <1>2
    <3> HIDE DEF tb
    <3> QED BY <3>1
  <2>3. bs[(tb - k) + 1] = r.buffers[tb + 1]
    BY <1>3, <2>2
  <2>4. End(d, 0) = End(r, (k + 1) - 1) /\ h = Begin(r, (k + 1) - 1) /\ k + 1 \in 1..(tb + 1)
    BY <1>10, <2>1
  <2>5. h <= End(d, 0)
    BY <1>9, <2>4
  <2> QED BY <1>1, <1>3, <1>8, <2>3, <2>5 DEF Shape
<1>12. \A i \in 1..((tb - k) + 1) : Parts(d)[i] = qs[i]
  <2>1. \A i \in 1..(d.tailBuffer + 1) :
           /\ Begin(d, i - 1) = IF i = 1 THEN d.head ELSE 0
           /\ Parts(d)[i] = SubSeq(d.buffers[i], Begin(d, i - 1) + 1, End(d, i - 1))
    BY <1>11, PartsAre
  <2>2. ASSUME NEW i \in 1..((tb - k) + 1) PROVE Parts(d)[i] = qs[i]
    <3>1. /\ Begin(d, i - 1) = IF i = 1 THEN h ELSE 0
          /\ Parts(d)[i] = SubSeq(bs[i], Begin(d, i - 1) + 1, End(d, i - 1))
      BY <1>8, <2>1
    <3>2. Parts(d)[i] = SubSeq(r.buffers[k + i], Begin(r, (k + i) - 1) + 1, End(r, (k + i) - 1))
      BY <1>3, <1>10, <3>1
    <3>3. ps[k + i] = SubSeq(r.buffers[k + i], Begin(r, (k + i) - 1) + 1, End(r, (k + i) - 1))
      BY <1>9, <1>10
    <3> QED BY <1>5, <3>2, <3>3
  <2> QED BY <2>2
<1>13. Parts(d) = qs
  <2>1. /\ qs \in Seq(Seq(Bytes)) /\ Len(qs) = d.tailBuffer + 1
        /\ \A i \in 1..(d.tailBuffer + 1) : Parts(d)[i] = qs[i]
    BY <1>5, <1>8, <1>12
  <2> QED BY <1>11, <2>1, SameParts
<1> QED BY <1>5, <1>8, <1>11, <1>13 DEF d, qs, ps

\* The number of bytes of the first block.
LEMMA NextIs ==
    ASSUME NEW r, Shape(r)
    PROVE  /\ NextDataBlockSize(r) = Len(Parts(r)[1])
           /\ NextDataBlockSize(r) = End(r, 0) - r.head
           /\ Parts(r)[1] = SubSeq(Block(r, 0), r.head + 1, r.head + NextDataBlockSize(r))
           /\ Parts(r)[1] = SubSeq(r.buffers[1], r.head + 1, End(r, 0))
           /\ End(r, 0) \in Nat /\ r.head \in Nat /\ r.head <= End(r, 0)
           /\ r.buffers[1] \in Seq(Stuff) /\ End(r, 0) <= Len(r.buffers[1])
<1>1. 1 \in 1..(r.tailBuffer + 1) /\ 1 - 1 = 0 /\ 0 + 1 = 1
  BY IsRecord DEF Shape
<1>2. /\ Begin(r, 0) = r.head /\ Parts(r)[1] = SubSeq(r.buffers[1], Begin(r, 0) + 1, End(r, 0))
      /\ Begin(r, 0) \in Nat /\ End(r, 0) \in Nat /\ Begin(r, 0) <= End(r, 0)
      /\ r.buffers[1] \in Seq(Stuff) /\ End(r, 0) <= Len(r.buffers[1])
  <2>1. \A k \in 1..(r.tailBuffer + 1) :
                /\ r.buffers[k] \in Seq(Stuff)
                /\ Begin(r, k - 1) = IF k = 1 THEN r.head ELSE 0
                /\ Begin(r, k - 1) \in Nat /\ End(r, k - 1) \in Nat
                /\ Begin(r, k - 1) <= End(r, k - 1)
                /\ End(r, k - 1) <= Len(r.buffers[k])
                /\ Parts(r)[k] = SubSeq(r.buffers[k], Begin(r, k - 1) + 1, End(r, k - 1))
    BY PartsAre
  <2> QED BY <1>1, <2>1
<1>3. NextDataBlockSize(r) = End(r, 0) - r.head
  BY DEF NextDataBlockSize, End
<1>4. Len(Parts(r)[1]) = End(r, 0) - r.head
  BY <1>2, Piece
<1>5. r.head + (End(r, 0) - r.head) = End(r, 0)
  BY <1>2
<1> QED BY <1>1, <1>2, <1>3, <1>4, <1>5 DEF Block

\* head moves over bytes of the first block, not all of them.
LEMMA HeadMoved ==
    ASSUME NEW r, Shape(r), Parts(r) \in Seq(Seq(Bytes)), OneEmpty(Parts(r)),
           NEW m \in Nat, m < Len(Parts(r)[1])
    PROVE  LET w == [r EXCEPT !.head = @ + m]
           IN  /\ Shape(w) /\ w.tailBuffer = r.tailBuffer /\ w.bufferSize = r.bufferSize
               /\ Parts(w) \in Seq(Seq(Bytes)) /\ OneEmpty(Parts(w)) /\ Len(Parts(w)[1]) # 0
               /\ ~IsEmpty(w)
               /\ Content(w) = SubSeq(Content(r), m + 1, Len(Content(r)))
<1> DEFINE w  == [r EXCEPT !.head = @ + m]
           tb == r.tailBuffer
           h  == r.head + m
           ps == Parts(r)
           qs == Parts(w)
<1>1. /\ r = Record(r.buffers, r.head, r.tail, tb, r.bufferSize)
      /\ r.buffers \in Seq(Seq(Stuff)) /\ r.head \in Nat /\ r.tail \in Nat
      /\ tb \in Nat /\ r.bufferSize \in Nat /\ Len(r.buffers) = tb + 1
      /\ r.tail <= Len(r.buffers[tb + 1])
  BY IsRecord DEF Shape
<1>3. h \in Nat /\ w = [r EXCEPT !.head = h]
  BY <1>1
<1> HIDE DEF w, h
<1>2. w = Record(r.buffers, h, r.tail, tb, r.bufferSize)
  BY <1>1, <1>3 DEF Record
<1>4. /\ w \in BufferType /\ w.buffers = r.buffers /\ w.head = h /\ w.tail = r.tail
      /\ w.tailBuffer = tb /\ w.bufferSize = r.bufferSize
  BY <1>1, <1>2, <1>3 DEF Record, BufferType
<1>5. \A k \in 0..tb : End(w, k) = End(r, k)
  BY <1>4 DEF End, Block
<1>6. /\ ps[1] = SubSeq(r.buffers[1], r.head + 1, End(r, 0))
      /\ End(r, 0) \in Nat /\ r.buffers[1] \in Seq(Stuff) /\ End(r, 0) <= Len(r.buffers[1])
      /\ Len(ps[1]) = End(r, 0) - r.head
  BY NextIs
<1>7. h < End(r, 0)
  BY <1>1, <1>6 DEF h
<1>8. Shape(w)
  <2>1. 0 \in 0..tb
    BY <1>1
  <2>2. End(w, 0) = End(r, 0)
    BY <1>5, <2>1
  <2>3. h <= End(w, 0)
    BY <1>3, <1>6, <1>7, <2>2
  <2> QED BY <1>1, <1>4, <2>3 DEF Shape
<1>9. /\ qs \in Seq(Seq(Stuff)) /\ Len(qs) = tb + 1 /\ Len(ps) = tb + 1
      /\ qs[1] = SubSeq(r.buffers[1], h + 1, End(r, 0))
  <2>1. 0 \in 0..tb
    BY <1>1
  <2>2. qs[1] = SubSeq(w.buffers[1], w.head + 1, End(w, 0))
    BY <1>8, NextIs
  <2>3. qs \in Seq(Seq(Stuff)) /\ Len(qs) = w.tailBuffer + 1 /\ Len(ps) = tb + 1
    BY <1>8, PartsAre
  <2> QED BY <1>4, <1>5, <2>1, <2>2, <2>3
<1>10. ASSUME NEW k \in 2..(tb + 1) PROVE qs[k] = ps[k]
  <2>1. k \in 1..(tb + 1) /\ k # 1 /\ k - 1 \in 0..tb
    BY <1>1
  <2>2. /\ \A i \in 1..(w.tailBuffer + 1) :
              /\ Begin(w, i - 1) = IF i = 1 THEN w.head ELSE 0
              /\ qs[i] = SubSeq(w.buffers[i], Begin(w, i - 1) + 1, End(w, i - 1))
        /\ \A i \in 1..(tb + 1) :
              /\ Begin(r, i - 1) = IF i = 1 THEN r.head ELSE 0
              /\ ps[i] = SubSeq(r.buffers[i], Begin(r, i - 1) + 1, End(r, i - 1))
    BY <1>8, PartsAre
  <2> HIDE DEF qs, ps
  <2>3. qs[k] = SubSeq(r.buffers[k], 0 + 1, End(w, k - 1))
    BY <1>4, <2>1, <2>2
  <2>4. ps[k] = SubSeq(r.buffers[k], 0 + 1, End(r, k - 1))
    BY <2>1, <2>2
  <2> QED BY <1>5, <2>1, <2>3, <2>4
<1>11. qs[1] = SubSeq(ps[1], m + 1, Len(ps[1]))
  <2> DEFINE e == End(r, 0)
             x == r.buffers[1]
             p == SubSeq(x, r.head + 1, e)
             n == e - r.head
  <2>1. /\ p \in Seq(Stuff) /\ Len(p) = n /\ \A i \in 1..n : p[i] = x[r.head + i]
    <3>1. /\ x \in Seq(Stuff) /\ r.head \in Nat /\ e \in Nat /\ e <= Len(x)
          /\ r.head <= e
      BY <1>1, <1>6, <1>7 DEF h
    <3> HIDE DEF x, e
    <3> QED BY <3>1, Piece
  <2>2. /\ SubSeq(x, h + 1, e) \in Seq(Stuff) /\ Len(SubSeq(x, h + 1, e)) = e - h
        /\ \A i \in 1..(e - h) : SubSeq(x, h + 1, e)[i] = x[h + i]
    <3>1. h <= e /\ e \in Nat /\ e <= Len(x) /\ x \in Seq(Stuff)
      BY <1>3, <1>6, <1>7
    <3> QED BY <1>3, <3>1, Piece, ZenonT(60)
  <2> HIDE DEF p
  <2>3. m <= n /\ n \in Nat /\ n - m = e - h /\ n <= Len(p)
    <3>1. m < n /\ n \in Nat /\ e \in Nat /\ r.head \in Nat /\ Len(p) = n
      BY <1>1, <1>6, <1>7, <2>1 DEF h
    <3> HIDE DEF e
    <3> QED BY <3>1 DEF h
  <2> HIDE DEF n, e, x
  <2>4. /\ SubSeq(p, m + 1, n) \in Seq(Stuff) /\ Len(SubSeq(p, m + 1, n)) = n - m
        /\ \A i \in 1..(n - m) : SubSeq(p, m + 1, n)[i] = p[m + i]
    <3>1. p \in Seq(Stuff) /\ m \in Nat /\ m <= n /\ n \in Nat /\ n <= Len(p)
      BY <2>1, <2>3
    <3> QED BY <3>1, Piece
  <2>5. ASSUME NEW i \in 1..(n - m) PROVE p[m + i] = x[h + i]
    <3>1. m + i \in 1..n /\ r.head + (m + i) = h + i
      BY <1>1, <2>3 DEF h
    <3> QED BY <2>1, <3>1
  <2>6. SubSeq(p, m + 1, n) = SubSeq(x, h + 1, e)
    BY <2>2, <2>3, <2>4, <2>5, SameSeq
  <2> QED BY <1>6, <1>9, <2>1, <2>6 DEF p, x, e, n
<1>12. ~IsEmpty(w)
  <2>1. 0 \in 0..tb
    BY <1>1
  <2>2. CASE tb = 0
    <3>1. End(r, 0) = r.tail
      BY <2>2 DEF End
    <3> QED BY <1>1, <1>3, <1>4, <1>7, <3>1 DEF IsEmpty
  <2>3. CASE tb # 0
    BY <1>4, <2>3 DEF IsEmpty
  <2> QED BY <2>2, <2>3
<1>13. ps \in Seq(Seq(Bytes)) /\ OneEmpty(ps) /\ m < Len(ps[1])
  OBVIOUS
<1>14. Content(w) = FlattenSeq(qs) /\ Content(r) = FlattenSeq(ps)
  BY DEF Content
<1> HIDE DEF qs, ps
<1>15. /\ qs \in Seq(Seq(Bytes)) /\ OneEmpty(qs) /\ Len(qs[1]) # 0
       /\ FlattenSeq(qs) = SubSeq(FlattenSeq(ps), m + 1, Len(FlattenSeq(ps)))
  BY <1>1, <1>9, <1>10, <1>11, <1>13, FrontCutParts, ZenonT(60)
<1>16. Content(w) = SubSeq(Content(r), m + 1, Len(Content(r)))
  BY <1>14, <1>15
<1> QED BY <1>4, <1>8, <1>12, <1>15, <1>16 DEF w, qs

\* An empty buffer.
LEMMA ClearedRing ==
    Ring(Cleared) /\ Content(Cleared) = <<>> /\ Cleared.tailBuffer = 0
<1> DEFINE w == Cleared
<1>1. /\ w \in BufferType /\ w.buffers = << <<>> >> /\ w.head = 0 /\ w.tail = 0
      /\ w.tailBuffer = 0 /\ w.bufferSize = 0
  <2>1. << <<>> >> \in Seq(Seq(Stuff))
    OBVIOUS
  <2> QED BY <2>1 DEF Cleared, BufferType
<1> HIDE DEF w
<1>2. End(w, 0) = 0
  BY <1>1 DEF End
<1>3. Shape(w)
  <2>1. Len(w.buffers) = 1 /\ Len(w.buffers[1]) = 0
    BY <1>1
  <2> QED BY <1>1, <1>2, <2>1 DEF Shape
<1>4. Parts(w) = << <<>> >>
  <2>1. Parts(w)[1] = <<>>
    <3>1. Parts(w)[1] = SubSeq(w.buffers[1], w.head + 1, End(w, 0))
      BY <1>3, NextIs
    <3>2. SubSeq(<<>>, 1, 0) = <<>>
      OBVIOUS
    <3> QED BY <1>1, <1>2, <3>1, <3>2
  <2>2. << <<>> >> \in Seq(Seq(Bytes)) /\ Len(<< <<>> >>) = w.tailBuffer + 1
    BY <1>1
  <2>3. \A k \in 1..(w.tailBuffer + 1) : Parts(w)[k] = << <<>> >>[k]
    BY <1>1, <2>1
  <2> QED BY <1>3, <2>2, <2>3, SameParts
<1>5. Content(w) = <<>>
  <2>1. <<>> \in Seq(Bytes)
    OBVIOUS
  <2>2. FlattenSeq(<< <<>> >>) = <<>>
    BY <2>1, FlattenOne
  <2> QED BY <1>4, <2>2 DEF Content
<1>6. OneEmpty(<< <<>> >>) /\ << <<>> >> \in Seq(Seq(Bytes))
  BY DEF OneEmpty
<1> QED BY <1>1, <1>3, <1>4, <1>5, <1>6 DEF Ring, Stores, w

\* bufferSize is decreased first.
LEMMA LessIs ==
    ASSUME NEW r, Ring(r), NEW n \in 0..r.bufferSize
    PROVE  /\ Shape(Less(r, n)) /\ Less(r, n).tailBuffer = r.tailBuffer
           /\ Less(r, n).bufferSize = r.bufferSize - n
           /\ Len(Less(r, n).buffers) = r.tailBuffer + 1
           /\ Parts(Less(r, n)) = Parts(r)
<1> DEFINE s    == Less(r, n)
           size == r.bufferSize - n
<1>1. /\ r = Record(r.buffers, r.head, r.tail, r.tailBuffer, r.bufferSize)
      /\ r.buffers \in Seq(Seq(Stuff)) /\ r.head \in Nat /\ r.tail \in Nat
      /\ r.tailBuffer \in Nat /\ r.bufferSize \in Nat /\ Len(r.buffers) = r.tailBuffer + 1
  BY RingIs, IsRecord
<1>2. size \in Nat /\ Max({size, 0}) = size
  <2>1. size \in Nat
    BY <1>1
  <2> QED BY <2>1, MaxTwo
<1>3. s = [r EXCEPT !.bufferSize = size]
  BY <1>2 DEF Less
<1> HIDE DEF s, size
<1>4. s = Record(r.buffers, r.head, r.tail, r.tailBuffer, size)
  BY <1>1, <1>3 DEF Record
<1>5. /\ s \in BufferType /\ s.buffers = r.buffers /\ s.head = r.head /\ s.tail = r.tail
      /\ s.tailBuffer = r.tailBuffer /\ s.bufferSize = size
  BY <1>1, <1>2, <1>4 DEF Record, BufferType
<1>6. \A k : Begin(s, k) = Begin(r, k) /\ End(s, k) = End(r, k)
  BY <1>5 DEF Begin, End, Block
<1>7. Parts(s) = Parts(r)
  BY <1>5, <1>6 DEF Parts
<1>8. Shape(s)
  <2>1. r.tail <= Len(r.buffers[r.tailBuffer + 1]) /\ r.head <= End(r, 0)
    BY DEF Ring, Shape
  <2> QED BY <1>1, <1>5, <1>6, <2>1 DEF Shape
<1> QED BY <1>1, <1>5, <1>7, <1>8 DEF s, size

\* The number of bytes before each block and in all.
LEMMA BeforeIs ==
    ASSUME NEW r, Ring(r)
    PROVE  /\ Before(r, 0) = 0
           /\ \A k \in 0..r.tailBuffer :
                /\ Before(r, k) \in Nat /\ Parts(r)[k + 1] \in Seq(Bytes)
                /\ Before(r, k + 1) = Before(r, k) + Len(Parts(r)[k + 1])
           /\ Before(r, r.tailBuffer + 1) = r.bufferSize
           /\ Len(Content(r)) = r.bufferSize /\ Content(r) \in Seq(Bytes)
<1> DEFINE ps == Parts(r)
<1>1. /\ r.tailBuffer \in Nat /\ ps \in Seq(Seq(Bytes)) /\ Len(ps) = r.tailBuffer + 1
      /\ r.bufferSize = Len(FlattenSeq(ps))
  BY RingIs, PartsAre DEF Ring, Stores, Content
<1>2. \A k : Before(r, k) = Len(FlattenSeq(SubSeq(ps, 1, k)))
  BY DEF Before
<1> HIDE DEF ps
<1>3. ASSUME NEW k \in 0..r.tailBuffer
      PROVE  /\ Before(r, k) \in Nat /\ ps[k + 1] \in Seq(Bytes)
             /\ Before(r, k + 1) = Before(r, k) + Len(ps[k + 1])
  <2>1. k \in 0..(Len(ps) - 1)
    BY <1>1
  <2> QED BY <1>1, <1>2, <2>1, NextBefore
<1>4. Before(r, 0) = 0
  <2>1. SubSeq(ps, 1, 0) = <<>>
    BY <1>1
  <2>2. Len(<<>>) = 0
    OBVIOUS
  <2>3. FlattenSeq(SubSeq(ps, 1, 0)) = <<>>
    BY <2>1, FlattenNone
  <2> QED BY <1>2, <2>2, <2>3
<1>5. Before(r, r.tailBuffer + 1) = r.bufferSize
  <2>1. SubSeq(ps, 1, Len(ps)) = ps
    BY <1>1, SubSeqFull
  <2> QED BY <1>1, <1>2, <2>1
<1>6. FlattenSeq(ps) \in Seq(Bytes)
  BY <1>1, FlattenType
<1> QED BY <1>1, <1>3, <1>4, <1>5, <1>6 DEF ps, Content

\* free takes bytes from the front.
LEMMA FreeKeeps ==
    ASSUME NEW r, Ring(r), NEW n \in 0..r.bufferSize
    PROVE  /\ Ring(Free(r, n))
           /\ Content(Free(r, n)) = SubSeq(Content(r), n + 1, Len(Content(r)))
           /\ \A i \in 0..r.tailBuffer :
                Before(r, i) <= n => Free(r, n).tailBuffer <= r.tailBuffer - i
<1> DEFINE tb == r.tailBuffer
           s  == Less(r, n)
           ps == Parts(r)
           I  == {i \in 0..Len(s.buffers) - 1 : Before(s, i) <= n}
           k  == Max(I)
           d  == Drop(s, k)
           m  == n - Before(s, k)
           f  == FreeInBlock(d, m)
           a  == FlattenSeq(SubSeq(ps, 1, k))
           c  == Content(d)
<1>1. /\ Shape(s) /\ s.tailBuffer = tb /\ s.bufferSize = r.bufferSize - n
      /\ Len(s.buffers) = tb + 1 /\ Parts(s) = ps
  BY LessIs
<1>2. /\ tb \in Nat /\ r.bufferSize \in Nat /\ n \in Nat /\ n <= r.bufferSize
      /\ ps \in Seq(Seq(Bytes)) /\ OneEmpty(ps) /\ Len(ps) = tb + 1
  BY RingIs, PartsAre DEF Ring, Stores
<1>3. \A i : Before(s, i) = Before(r, i)
  BY <1>1 DEF Before
<1>4. /\ Before(r, 0) = 0
      /\ \A i \in 0..tb : /\ Before(r, i) \in Nat /\ ps[i + 1] \in Seq(Bytes)
                          /\ Before(r, i + 1) = Before(r, i) + Len(ps[i + 1])
      /\ Before(r, tb + 1) = r.bufferSize
      /\ Len(Content(r)) = r.bufferSize /\ Content(r) \in Seq(Bytes)
  BY BeforeIs
<1>5. I = {i \in 0..tb : Before(r, i) <= n}
  <2>1. Len(s.buffers) - 1 = tb
    BY <1>1, <1>2
  <2> QED BY <1>3, <2>1
<1>6. Free(r, n) = IF IsEmpty(f) THEN Cleared ELSE f
  BY DEF Free, FreeBlocks
<1> HIDE DEF I
<1>7. k \in 0..tb /\ Before(r, k) <= n
      /\ \A i \in 0..tb : Before(r, i) <= n => i <= k
  <2>1. 0 \in I
    BY <1>2, <1>4, <1>5
  <2>2. I \subseteq 0..tb
    BY <1>5
  <2>3. k \in I /\ \A y \in I : y <= k
    BY <1>2, <2>1, <2>2, Largest
  <2> QED BY <1>5, <2>3
<1> HIDE DEF k
<1>8. /\ Shape(d) /\ d.tailBuffer = tb - k /\ d.bufferSize = r.bufferSize - n
      /\ Parts(d) = SubSeq(ps, k + 1, Len(ps)) /\ OneEmpty(Parts(d))
  <2>1. Parts(s) \in Seq(Seq(Bytes)) /\ OneEmpty(Parts(s)) /\ k \in 0..s.tailBuffer
    BY <1>1, <1>2, <1>7
  <2> HIDE DEF s
  <2>2. /\ Shape(d) /\ d.tailBuffer = s.tailBuffer - k /\ d.bufferSize = s.bufferSize
        /\ Parts(d) = SubSeq(Parts(s), k + 1, Len(Parts(s))) /\ OneEmpty(Parts(d))
    BY <1>1, <2>1, DropIs
  <2> QED BY <1>1, <2>2
<1>9. m \in Nat /\ n = Before(r, k) + m /\ m = n - Before(r, k)
  BY <1>2, <1>3, <1>4, <1>7
<1> HIDE DEF s, d, m, ps, f
<1>10. /\ a \in Seq(Bytes) /\ c \in Seq(Bytes) /\ Content(r) = a \o c
       /\ Len(a) = Before(r, k) /\ Parts(d) \in Seq(Seq(Bytes)) /\ Len(Parts(d)) = (tb - k) + 1
       /\ Parts(d)[1] = ps[k + 1]
  <2>1. k \in 0..Len(ps)
    BY <1>2, <1>7
  <2>2. /\ SubSeq(ps, 1, k) \in Seq(Seq(Bytes)) /\ SubSeq(ps, k + 1, Len(ps)) \in Seq(Seq(Bytes))
        /\ FlattenSeq(ps) = a \o FlattenSeq(SubSeq(ps, k + 1, Len(ps)))
    BY <1>2, <2>1, FlattenSplit
  <2>3. a \in Seq(Bytes) /\ c \in Seq(Bytes)
    BY <1>8, <2>2, FlattenType DEF Content
  <2>4. Content(r) = a \o c
    BY <1>8, <2>2 DEF Content, ps
  <2>5. Len(a) = Before(r, k)
    BY DEF Before, ps
  <2>6. /\ Len(Parts(d)) = Len(ps) - k
        /\ \A i \in 1..(Len(ps) - k) : Parts(d)[i] = ps[k + i]
    BY <1>2, <1>8, <2>1, RestOfParts
  <2>7. Len(ps) - k = (tb - k) + 1 /\ 1 \in 1..(Len(ps) - k)
    <3>1. tb \in Nat /\ k \in 0..tb /\ Len(ps) = tb + 1
      BY <1>2, <1>7
    <3> HIDE DEF tb
    <3> QED BY <3>1
  <2> QED BY <1>8, <2>2, <2>3, <2>4, <2>5, <2>6, <2>7
<1> HIDE DEF a
<1>11. CASE m < Len(Parts(d)[1])
  <2> DEFINE w == [d EXCEPT !.head = @ + m]
             x == SubSeq(c, m + 1, Len(c))
  <2>1. f = w
    <3>1. /\ NextDataBlockSize(d) = Len(Parts(d)[1])
          /\ NextDataBlockSize(d) = End(d, 0) - d.head
          /\ End(d, 0) \in Nat /\ d.head \in Nat
      BY <1>8, NextIs
    <3>2. ~(d.head + m = d.tail /\ d.tailBuffer = 0)
      <4> SUFFICES ASSUME d.head + m = d.tail, d.tailBuffer = 0 PROVE FALSE
        OBVIOUS
      <4>1. End(d, 0) = d.tail
        BY DEF End
      <4>2. m < End(d, 0) - d.head
        BY <1>11, <3>1
      <4> QED BY <1>9, <3>1, <4>1, <4>2
    <3> QED BY <1>11, <3>1, <3>2 DEF FreeInBlock, f
  <2>2. /\ Shape(w) /\ w.tailBuffer = d.tailBuffer /\ w.bufferSize = d.bufferSize
        /\ Parts(w) \in Seq(Seq(Bytes)) /\ OneEmpty(Parts(w)) /\ Len(Parts(w)[1]) # 0
        /\ ~IsEmpty(w) /\ Content(w) = x
    BY <1>8, <1>9, <1>10, <1>11, HeadMoved
  <2> HIDE DEF w, c
  <2>3. Free(r, n) = w
    BY <1>6, <2>1, <2>2
  <2>4. m <= Len(c) /\ Len(c) \in Nat
    <3>1. 1 \in 1..Len(Parts(d)) /\ Len(Parts(d)[1]) \in Nat
      <4>1. tb \in Nat /\ k \in 0..tb /\ Len(Parts(d)) = (tb - k) + 1
        BY <1>2, <1>7, <1>10
      <4>2. Len(Parts(d)[1]) \in Nat
        <5>1. Parts(d)[1] \in Seq(Bytes)
          BY <1>4, <1>7, <1>10
        <5> QED BY <5>1
      <4> HIDE DEF tb
      <4> QED BY <4>1, <4>2
    <3>2. Len(Parts(d)[1]) <= Len(c)
      BY <1>10, <3>1, FlattenEmpty DEF Content, c
    <3> QED BY <1>9, <1>10, <1>11, <3>1, <3>2, SMTT(60)
  <2>5. /\ x = SubSeq(Content(r), (Len(a) + m) + 1, Len(Content(r)))
        /\ Len(Content(r)) = Len(a) + Len(c)
    <3>1. m \in 0..Len(c)
      BY <1>9, <2>4
    <3>2. SubSeq(a \o c, (Len(a) + m) + 1, Len(a \o c)) = x
      BY <1>10, <3>1, SkipFirst
    <3>3. Len(a \o c) = Len(a) + Len(c)
      BY <1>10, ConcatProperties
    <3> QED BY <1>10, <3>2, <3>3
  <2>6. x \in Seq(Bytes) /\ Len(x) = Len(c) - m
    <3>1. c \in Seq(Bytes) /\ m \in Nat /\ Len(c) \in Nat /\ m <= Len(c) /\ Len(c) <= Len(c)
      BY <1>9, <1>10, <2>4
    <3> QED BY <3>1, Piece
  <2>7. w.bufferSize = Len(x)
    <3>1. r.bufferSize = Len(a) + Len(c) /\ n = Len(a) + m /\ Len(a) \in Nat
      BY <1>4, <1>7, <1>9, <1>10, <2>5
    <3>2. w.bufferSize = r.bufferSize - n
      BY <1>8, <2>2
    <3> QED BY <1>9, <2>4, <2>6, <3>1, <3>2
  <2> HIDE DEF x
  <2>8. Ring(w) /\ Content(w) = x
    BY <2>2, <2>6, <2>7, RingFrom DEF Content
  <2>9. x = SubSeq(Content(r), n + 1, Len(Content(r)))
    BY <1>9, <1>10, <2>5
  <2>10. \A i \in 0..tb : Before(r, i) <= n => w.tailBuffer <= tb - i
    <3> SUFFICES ASSUME NEW i \in 0..tb, Before(r, i) <= n PROVE tb - k <= tb - i
      BY <1>8, <2>2
    <3>1. i <= k
      BY <1>7
    <3> QED BY <1>2, <1>7, <3>1
  <2> QED BY <2>3, <2>8, <2>9, <2>10
<1>12. CASE ~(m < Len(Parts(d)[1]))
  <2>1. Before(r, k + 1) <= n
    <3>1. /\ Before(r, k + 1) = Before(r, k) + Len(ps[k + 1]) /\ ps[k + 1] \in Seq(Bytes)
          /\ Before(r, k) \in Nat
      BY <1>4, <1>7
    <3>2. Len(ps[k + 1]) \in Nat /\ ~(m < Len(ps[k + 1]))
      BY <1>10, <1>12, <3>1
    <3> QED BY <1>9, <3>1, <3>2
  <2>2. k = tb
    <3> SUFFICES ASSUME k # tb PROVE FALSE
      OBVIOUS
    <3>1. k + 1 \in 0..tb /\ ~(k + 1 <= k)
      BY <1>2, <1>7
    <3> QED BY <1>7, <2>1, <3>1
  <2>3. n = r.bufferSize
    BY <1>2, <1>4, <2>1, <2>2
  <2>4. IsEmpty(f)
    <3>1. NextDataBlockSize(d) = Len(Parts(d)[1])
      BY <1>8, NextIs
    <3>2. f = [d EXCEPT !.buffers[1] = Resize(@, basicBlockSize),
                       !.head = 0, !.tail = 0, !.tailBuffer = 0]
      BY <1>12, <3>1 DEF f, FreeInBlock
    <3>3. d \in BufferType
      BY <1>8 DEF Shape
    <3>4. f.tail = 0 /\ f.tailBuffer = 0
      BY <3>2, <3>3 DEF BufferType
    <3> QED BY <3>4 DEF IsEmpty
  <2>5. Free(r, n) = Cleared
    BY <1>6, <2>4
  <2>6. SubSeq(Content(r), n + 1, Len(Content(r))) = <<>>
    <3>1. n <= n /\ n <= Len(Content(r)) /\ Len(Content(r)) = n
      BY <1>2, <1>4, <2>3
    <3>2. /\ SubSeq(Content(r), n + 1, n) \in Seq(Bytes)
          /\ Len(SubSeq(Content(r), n + 1, n)) = n - n
      BY <1>2, <1>4, <3>1, Piece
    <3>3. Len(SubSeq(Content(r), n + 1, n)) = 0
      BY <1>2, <3>2
    <3> QED BY <3>1, <3>2, <3>3
  <2>7. \A i \in 0..tb : 0 <= tb - i
    BY <1>2
  <2> QED BY <2>5, <2>6, <2>7, ClearedRing
<1> QED BY <1>11, <1>12

\* A piece of a piece, and two pieces that follow each other.
LEMMA PieceOfPiece ==
    ASSUME NEW S, NEW s \in Seq(S), NEW m \in Nat, NEW n \in Nat, m <= n, n <= Len(s),
           NEW i \in Nat, NEW j \in Nat, i <= j, j <= n - m
    PROVE  SubSeq(SubSeq(s, m + 1, n), i + 1, j) = SubSeq(s, (m + i) + 1, m + j)
<1> DEFINE p == SubSeq(s, m + 1, n)
<1>1. /\ p \in Seq(S) /\ Len(p) = n - m /\ \A x \in 1..(n - m) : p[x] = s[m + x]
  BY Piece
<1> HIDE DEF p
<1>2. /\ SubSeq(p, i + 1, j) \in Seq(S) /\ Len(SubSeq(p, i + 1, j)) = j - i
      /\ \A x \in 1..(j - i) : SubSeq(p, i + 1, j)[x] = p[i + x]
  <2>1. j <= Len(p)
    BY <1>1
  <2> QED BY <1>1, <2>1, Piece
<1>3. /\ SubSeq(s, (m + i) + 1, m + j) \in Seq(S)
      /\ Len(SubSeq(s, (m + i) + 1, m + j)) = (m + j) - (m + i)
      /\ \A x \in 1..((m + j) - (m + i)) :
            SubSeq(s, (m + i) + 1, m + j)[x] = s[(m + i) + x]
  <2>1. m + i \in Nat /\ m + j \in Nat /\ m + i <= m + j /\ m + j <= Len(s)
    <3>1. Len(s) \in Nat
      OBVIOUS
    <3> QED BY <3>1
  <2> QED BY <2>1, Piece
<1>4. (m + j) - (m + i) = j - i
  OBVIOUS
<1>5. ASSUME NEW x \in 1..(j - i) PROVE p[i + x] = s[(m + i) + x]
  <2>1. i + x \in 1..(n - m) /\ m + (i + x) = (m + i) + x
    OBVIOUS
  <2> QED BY <1>1, <2>1
<1>6. SubSeq(p, i + 1, j) = SubSeq(s, (m + i) + 1, m + j)
  <2> DEFINE a == SubSeq(p, i + 1, j)
             z == SubSeq(s, (m + i) + 1, m + j)
  <2>1. a \in Seq(S) /\ z \in Seq(S) /\ Len(a) = Len(z) /\ Len(a) = j - i
    BY <1>2, <1>3, <1>4
  <2>2. \A x \in 1..(j - i) : a[x] = z[x]
    BY <1>2, <1>3, <1>4, <1>5
  <2> HIDE DEF a, z
  <2>3. a = z
    BY <2>1, <2>2, SameSeq
  <2> QED BY <2>3 DEF a, z
<1> QED BY <1>6 DEF p

\* What is taken in two goes.
LEMMA Onward ==
    ASSUME NEW S, NEW s \in Seq(S), NEW m \in Nat, NEW j \in Nat, m + j <= Len(s)
    PROVE  LET rest == SubSeq(s, m + 1, Len(s))
           IN  /\ rest \in Seq(S) /\ Len(rest) = Len(s) - m
               /\ SubSeq(s, 1, m) \o SubSeq(rest, 1, j) = SubSeq(s, 1, m + j)
               /\ SubSeq(rest, j + 1, Len(rest)) = SubSeq(s, (m + j) + 1, Len(s))
<1> DEFINE l    == Len(s)
           rest == SubSeq(s, m + 1, l)
<1>1. l \in Nat /\ m <= l /\ l <= l /\ j <= l - m /\ m + j <= l /\ m + j \in Nat
  OBVIOUS
<1>2. rest \in Seq(S) /\ Len(rest) = l - m
  BY <1>1, Piece
<1>3. SubSeq(rest, 1, j) = SubSeq(s, m + 1, m + j)
  <2>1. SubSeq(rest, 0 + 1, j) = SubSeq(s, (m + 0) + 1, m + j)
    BY <1>1, PieceOfPiece
  <2>2. 0 + 1 = 1 /\ m + 0 = m
    OBVIOUS
  <2> QED BY <2>1, <2>2
<1>4. SubSeq(s, 1, m) \o SubSeq(s, m + 1, m + j) = SubSeq(s, 1, m + j)
  <2>1. 1 \in 1..(Len(s) + 1) /\ m \in (1 - 1)..Len(s) /\ m + j \in m..Len(s)
    BY <1>1
  <2> QED BY <2>1, ConcatAdjacentSubSeq
<1>5. SubSeq(rest, j + 1, l - m) = SubSeq(s, (m + j) + 1, l)
  <2>1. l - m \in Nat /\ l - m <= l - m /\ m + (l - m) = l
    BY <1>1
  <2>2. SubSeq(rest, j + 1, l - m) = SubSeq(s, (m + j) + 1, m + (l - m))
    BY <1>1, <2>1, PieceOfPiece
  <2> QED BY <2>1, <2>2
<1> QED BY <1>2, <1>3, <1>4, <1>5

\* The first elements of two sequences are those of the first one.
LEMMA TakeFirst ==
    ASSUME NEW S, NEW p \in Seq(S), NEW q \in Seq(S), NEW j \in 0..Len(p)
    PROVE  SubSeq(p \o q, 1, j) = SubSeq(p, 1, j)
<1> DEFINE w == p \o q
<1>1. /\ w \in Seq(S) /\ Len(w) = Len(p) + Len(q)
      /\ \A i \in 1..Len(w) : w[i] = IF i <= Len(p) THEN p[i] ELSE q[i - Len(p)]
  BY ConcatProperties
<1>2. /\ Len(p) \in Nat /\ Len(q) \in Nat /\ j \in Nat /\ 0 \in Nat /\ 0 <= j
      /\ j <= Len(p) /\ j <= Len(w)
  BY <1>1
<1> HIDE DEF w
<1>3. /\ SubSeq(w, 0 + 1, j) \in Seq(S) /\ Len(SubSeq(w, 0 + 1, j)) = j - 0
      /\ \A i \in 1..(j - 0) : SubSeq(w, 0 + 1, j)[i] = w[0 + i]
  BY <1>1, <1>2, Piece
<1>4. /\ SubSeq(p, 0 + 1, j) \in Seq(S) /\ Len(SubSeq(p, 0 + 1, j)) = j - 0
      /\ \A i \in 1..(j - 0) : SubSeq(p, 0 + 1, j)[i] = p[0 + i]
  BY <1>2, Piece
<1>5. ASSUME NEW i \in 1..(j - 0) PROVE w[0 + i] = p[0 + i]
  <2>1. i \in 1..Len(w) /\ 0 + i = i /\ i <= Len(p)
    BY <1>2
  <2> QED BY <1>1, <2>1
<1>6. SubSeq(w, 0 + 1, j) = SubSeq(p, 0 + 1, j)
  BY <1>3, <1>4, <1>5, SameSeq
<1>7. 0 + 1 = 1
  OBVIOUS
<1> QED BY <1>6, <1>7 DEF w

\* The first bytes are those of the first block.
LEMMA FirstBytes ==
    ASSUME NEW r, Ring(r), NEW j \in 0..NextDataBlockSize(r)
    PROVE  /\ SubSeq(Block(r, 0), r.head + 1, r.head + j) = SubSeq(Content(r), 1, j)
           /\ NextDataBlockSize(r) \in Nat /\ NextDataBlockSize(r) <= r.bufferSize
           /\ NextDataBlockSize(r) = Before(r, 1)
<1> DEFINE ps == Parts(r)
           p  == ps[1]
           k  == NextDataBlockSize(r)
           x  == Block(r, 0)
           h  == r.head
<1>1. /\ k = Len(p) /\ p = SubSeq(x, h + 1, h + k)
      /\ h \in Nat /\ x \in Seq(Stuff) /\ k \in Nat /\ h + k <= Len(x) /\ h + k \in Nat
  <2>1. /\ k = Len(p) /\ k = End(r, 0) - h /\ p = SubSeq(x, h + 1, h + k)
        /\ End(r, 0) \in Nat /\ h \in Nat /\ h <= End(r, 0)
        /\ r.buffers[1] \in Seq(Stuff) /\ End(r, 0) <= Len(r.buffers[1])
    BY NextIs DEF Ring
  <2>2. x = r.buffers[1]
    BY DEF Block
  <2> HIDE DEF k, p, x, h
  <2>3. k \in Nat /\ h + k = End(r, 0)
    BY <2>1, SMTT(60)
  <2> QED BY <2>1, <2>2, <2>3
<1>2. ps \in Seq(Seq(Bytes)) /\ ps # <<>> /\ Content(r) = FlattenSeq(ps)
  <2>1. Len(ps) = r.tailBuffer + 1 /\ r.tailBuffer \in Nat
    BY PartsAre, RingIs DEF Ring
  <2> QED BY <2>1 DEF Ring, Stores, Content
<1>3. p \in Seq(Bytes) /\ Tail(ps) \in Seq(Seq(Bytes)) /\ Content(r) = p \o FlattenSeq(Tail(ps))
      /\ FlattenSeq(Tail(ps)) \in Seq(Bytes)
  BY <1>2, FlattenHead, FlattenType
<1>4. k = Before(r, 1) /\ k <= r.bufferSize
  <2>1. 0 \in 0..r.tailBuffer /\ 0 + 1 = 1
    BY RingIs
  <2>2. Before(r, 0) = 0 /\ Before(r, 0 + 1) = Before(r, 0) + Len(ps[0 + 1])
    BY <2>1, BeforeIs
  <2>3. k = Before(r, 1)
    <3>1. Before(r, 1) = Len(p)
      <4> HIDE DEF ps
      <4>1. Before(r, 1) = 0 + Len(ps[1])
        BY <2>1, <2>2
      <4>2. Len(ps[1]) \in Nat
        BY <1>1
      <4> QED BY <4>1, <4>2
    <3> QED BY <1>1, <3>1
  <2>4. Len(Content(r)) = r.bufferSize
    BY BeforeIs
  <2>5. Len(Content(r)) = Len(p) + Len(FlattenSeq(Tail(ps)))
    BY <1>3, ConcatProperties
  <2>6. Len(FlattenSeq(Tail(ps))) \in Nat
    BY <1>3
  <2>7. k = Len(p) /\ k \in Nat
    BY <1>1
  <2> HIDE DEF k, p, ps
  <2>8. k <= r.bufferSize
    BY <2>4, <2>5, <2>6, <2>7
  <2> QED BY <2>3, <2>8
<1> HIDE DEF ps, p, k, x, h
<1>5. j \in 0..k
  BY DEF k
<1>6. SubSeq(p, 1, j) = SubSeq(x, h + 1, h + j)
  <2>1. /\ h <= h + k /\ 0 \in Nat /\ j \in Nat /\ 0 <= j /\ j <= (h + k) - h
        /\ 0 + 1 = 1 /\ h + 0 = h
    BY <1>1, <1>5
  <2>2. SubSeq(SubSeq(x, h + 1, h + k), 0 + 1, j) = SubSeq(x, (h + 0) + 1, h + j)
    BY <1>1, <2>1, PieceOfPiece
  <2> QED BY <1>1, <2>1, <2>2
<1>7. SubSeq(Content(r), 1, j) = SubSeq(p, 1, j)
  <2>1. j \in 0..Len(p)
    BY <1>1, <1>5
  <2> QED BY <1>3, <2>1, TakeFirst
<1> QED BY <1>1, <1>4, <1>6, <1>7 DEF x, h, k

\* k rounds of a read of n bytes from r have brought s about.
RoundOK(r, n, s, k) ==
    /\ Ring(s.r) /\ s.n \in 0..n /\ s.n <= s.r.bufferSize
    /\ s.data = SubSeq(Content(r), 1, n - s.n)
    /\ Content(s.r) = SubSeq(Content(r), (n - s.n) + 1, Len(Content(r)))
    /\ s.n = 0 \/ s.r.tailBuffer + k <= r.tailBuffer

\* The number of bytes, and the bytes.
LEMMA Counts ==
    ASSUME NEW r, Ring(r)
    PROVE  /\ r.bufferSize \in Nat /\ r.tailBuffer \in Nat
           /\ Len(Content(r)) = r.bufferSize /\ Content(r) \in Seq(Bytes)
<1>1. r.bufferSize \in Nat /\ r.tailBuffer \in Nat
  BY RingIs
<1>2. Len(Content(r)) = r.bufferSize /\ Content(r) \in Seq(Bytes)
  BY BeforeIs
<1> QED BY <1>1, <1>2

\* One more round of a read.
LEMMA CopyBlockKeeps ==
    ASSUME NEW r, Ring(r), NEW n \in 0..r.bufferSize, NEW k \in Nat,
           NEW s, RoundOK(r, n, s, k)
    PROVE  RoundOK(r, n, CopyBlock(s), k + 1)
<1> DEFINE t == s.r
           C == Content(r)
           D == Content(t)
           m == n - s.n
           z == NextDataBlockSize(t)
           j == Min({s.n, z})
           left == Free(t, j)
           v == CopyBlock(s)
<1>1. /\ Ring(t) /\ s.n \in 0..n /\ s.n <= t.bufferSize
      /\ s.data = SubSeq(C, 1, m) /\ D = SubSeq(C, m + 1, Len(C))
      /\ s.n = 0 \/ t.tailBuffer + k <= r.tailBuffer
  BY DEF RoundOK
<1>2. CASE s.n = 0
  BY <1>2 DEF RoundOK, CopyBlock
<1>3. CASE s.n # 0
  <2>1. /\ r.bufferSize \in Nat /\ n \in Nat /\ n <= r.bufferSize
        /\ Len(C) = r.bufferSize /\ C \in Seq(Bytes)
        /\ t.bufferSize \in Nat /\ t.tailBuffer \in Nat /\ r.tailBuffer \in Nat
        /\ Len(D) = t.bufferSize /\ D \in Seq(Bytes)
    <3>1. /\ r.bufferSize \in Nat /\ r.tailBuffer \in Nat
          /\ Len(C) = r.bufferSize /\ C \in Seq(Bytes)
      BY Counts
    <3>2. /\ t.bufferSize \in Nat /\ t.tailBuffer \in Nat
          /\ Len(D) = t.bufferSize /\ D \in Seq(Bytes)
      BY <1>1, Counts
    <3>3. n \in Nat /\ n <= r.bufferSize
      BY <3>1
    <3> QED BY <3>1, <3>2, <3>3
  <2>2. z \in Nat /\ z <= t.bufferSize /\ z = Before(t, 1)
    <3>1. 0 \in 0..z
      <4>1. z = Len(Parts(t)[1])
        BY <1>1, NextIs DEF Ring
      <4>2. Parts(t)[1] \in Seq(Bytes)
        <5>1. 0 \in 0..t.tailBuffer /\ 0 + 1 = 1
          BY <2>1
        <5>2. Parts(t)[0 + 1] \in Seq(Bytes)
          BY <1>1, <5>1, BeforeIs
        <5> QED BY <5>1, <5>2
      <4>3. Len(Parts(t)[1]) \in Nat
        BY <4>2
      <4> HIDE DEF z
      <4> QED BY <4>1, <4>3
    <3> QED BY <1>1, <3>1, FirstBytes
  <2>3. /\ s.n \in Nat /\ s.n <= n /\ m \in Nat
    BY <1>1, <2>1
  <2>4. j = (IF s.n <= z THEN s.n ELSE z) /\ j \in Nat /\ j <= s.n /\ j <= z
    <3>1. s.n \in Int /\ z \in Int
      BY <2>2, <2>3
    <3> HIDE DEF z
    <3>2. j = IF s.n <= z THEN s.n ELSE z
      BY <3>1, MaxTwo
    <3> HIDE DEF j
    <3> QED BY <2>2, <2>3, <3>2
  <2>5. v = [r |-> left, n |-> s.n - j,
             data |-> s.data \o SubSeq(Block(t, 0), t.head + 1, t.head + j)]
    BY <1>3 DEF CopyBlock
  <2>6. SubSeq(Block(t, 0), t.head + 1, t.head + j) = SubSeq(D, 1, j)
    <3>1. j \in 0..z
      BY <2>2, <2>4
    <3> HIDE DEF j
    <3> QED BY <1>1, <3>1, FirstBytes
  <2> HIDE DEF z, j
  <2>7. /\ Ring(left) /\ Content(left) = SubSeq(D, j + 1, Len(D))
        /\ \A i \in 0..t.tailBuffer :
              Before(t, i) <= j => left.tailBuffer <= t.tailBuffer - i
    <3>1. j \in 0..t.bufferSize
      BY <2>1, <2>2, <2>4
    <3> QED BY <1>1, <3>1, FreeKeeps
  <2>8. v.r = left /\ v.n = s.n - j /\ v.data = s.data \o SubSeq(D, 1, j)
    <3> HIDE DEF left, v, D, t
    <3> QED BY <2>5, <2>6
  <2> HIDE DEF left, v
  <2>9. v.n \in 0..n /\ n - v.n = m + j /\ m + j <= Len(C)
    <3> HIDE DEF C, D, t
    <3>1. j \in Nat /\ j <= s.n /\ s.n \in Nat /\ s.n <= n /\ v.n = s.n - j /\ n \in Nat
          /\ n <= Len(C) /\ Len(C) \in Nat
      BY <2>1, <2>3, <2>4, <2>8
    <3> QED BY <3>1
  <2>10. v.data = SubSeq(C, 1, n - v.n)
    <3>1. SubSeq(C, 1, m) \o SubSeq(SubSeq(C, m + 1, Len(C)), 1, j) = SubSeq(C, 1, m + j)
      <4> HIDE DEF C, m
      <4>1. C \in Seq(Bytes) /\ m \in Nat /\ j \in Nat /\ m + j <= Len(C)
        BY <2>1, <2>3, <2>4, <2>9
      <4> QED BY <4>1, Onward
    <3>2. v.data = SubSeq(C, 1, m) \o SubSeq(D, 1, j)
      BY <1>1, <2>8
    <3> HIDE DEF C, D, m
    <3> QED BY <1>1, <2>9, <3>1, <3>2
  <2>11. Content(v.r) = SubSeq(C, (n - v.n) + 1, Len(C)) /\ Len(D) = Len(C) - m
    <3> HIDE DEF C, m
    <3>1. /\ Len(SubSeq(C, m + 1, Len(C))) = Len(C) - m
          /\ SubSeq(SubSeq(C, m + 1, Len(C)), j + 1, Len(SubSeq(C, m + 1, Len(C))))
              = SubSeq(C, (m + j) + 1, Len(C))
      <4>1. C \in Seq(Bytes) /\ m \in Nat /\ j \in Nat /\ m + j <= Len(C)
        BY <2>1, <2>3, <2>4, <2>9
      <4> QED BY <4>1, Onward
    <3> HIDE DEF D
    <3> QED BY <1>1, <2>7, <2>8, <2>9, <3>1
  <2>12. v.n <= v.r.bufferSize
    <3>1. Len(Content(left)) = left.bufferSize
      BY <2>7, BeforeIs
    <3>2. Len(SubSeq(D, j + 1, Len(D))) = Len(D) - j
      <4>1. j <= Len(D) /\ Len(D) \in Nat /\ Len(D) <= Len(D)
        BY <2>1, <2>2, <2>4
      <4> HIDE DEF D
      <4> QED BY <2>1, <2>4, <4>1, Piece, SMTT(60)
    <3> HIDE DEF D
    <3>3. left.bufferSize = t.bufferSize - j
      BY <2>1, <2>7, <3>1, <3>2
    <3>4. v.n = s.n - j /\ v.r.bufferSize = t.bufferSize - j /\ s.n <= t.bufferSize
      BY <1>1, <2>8, <3>3
    <3>5. t.bufferSize \in Nat
      BY <2>1
    <3> HIDE DEF t, C, m
    <3> QED BY <2>3, <2>4, <3>4, <3>5
  <2>13. v.n = 0 \/ v.r.tailBuffer + (k + 1) <= r.tailBuffer
    <3> SUFFICES ASSUME v.n # 0 PROVE left.tailBuffer + (k + 1) <= r.tailBuffer
      BY <2>8
    <3>1. j = z /\ z < s.n
      BY <2>2, <2>3, <2>4, <2>8
    <3>2. t.tailBuffer # 0
      <4> SUFFICES ASSUME t.tailBuffer = 0 PROVE FALSE
        OBVIOUS
      <4>1. Before(t, t.tailBuffer + 1) = t.bufferSize /\ t.tailBuffer + 1 = 1
        BY <1>1, BeforeIs
      <4>2. z = t.bufferSize
        BY <2>2, <4>1
      <4> QED BY <1>1, <2>1, <2>3, <3>1, <4>2
    <3>3. 1 \in 0..t.tailBuffer /\ Before(t, 1) <= j
      BY <2>1, <2>2, <3>1, <3>2
    <3>4. left.tailBuffer <= t.tailBuffer - 1 /\ left.tailBuffer \in Nat
      BY <2>7, <3>3, RingIs
    <3>5. t.tailBuffer + k <= r.tailBuffer
      BY <1>1, <1>3
    <3> HIDE DEF t
    <3> QED BY <2>1, <3>4, <3>5
  <2>14. Ring(v.r)
    BY <2>7, <2>8
  <2> QED BY <2>9, <2>10, <2>11, <2>12, <2>13, <2>14 DEF RoundOK, v
<1> QED BY <1>2, <1>3

\* The rounds of a read, by their number.
Rounds(f, s, n) ==
    f = [k \in 0..n |-> IF k = 0 THEN s ELSE CopyBlock(f[k - 1])]

\* There are rounds of any number.
LEMMA RoundsExist ==
    ASSUME NEW s, NEW n \in Nat
    PROVE  \E f : Rounds(f, s, n)
<1> DEFINE S == {k \in Nat : \E f : Rounds(f, s, k)}
<1>1. 0 \in S
  <2> DEFINE f == [k \in 0..0 |-> s]
  <2>1. f = [k \in 0..0 |-> IF k = 0 THEN s ELSE CopyBlock(f[k - 1])]
    OBVIOUS
  <2>2. Rounds(f, s, 0)
    BY <2>1 DEF Rounds
  <2> QED BY <2>2
<1>2. ASSUME NEW k \in Nat, k \in S PROVE k + 1 \in S
  <2>1. PICK f : Rounds(f, s, k)
    BY <1>2
  <2> DEFINE g == [i \in 0..(k + 1) |-> IF i <= k THEN f[i] ELSE CopyBlock(f[k])]
  <2>2. \A i \in 0..k : f[i] = IF i = 0 THEN s ELSE CopyBlock(f[i - 1])
    BY <2>1 DEF Rounds
  <2>3. \A i \in 0..k : g[i] = f[i]
    OBVIOUS
  <2>4. g[k + 1] = CopyBlock(f[k])
    OBVIOUS
  <2>5. g = [i \in 0..(k + 1) |-> g[i]]
    OBVIOUS
  <2> HIDE DEF g
  <2>6. ASSUME NEW i \in 0..(k + 1)
        PROVE  g[i] = IF i = 0 THEN s ELSE CopyBlock(g[i - 1])
    <3>1. CASE i \in 0..k
      <4>1. i # 0 => i - 1 \in 0..k
        BY <3>1
      <4> QED BY <2>2, <2>3, <3>1, <4>1
    <3>2. CASE i = k + 1
      <4>1. g[i - 1] = f[k] /\ i # 0
        BY <2>3, <3>2
      <4> QED BY <2>4, <3>2, <4>1
    <3> QED BY <3>1, <3>2
  <2>7. Rounds(g, s, k + 1)
    BY <2>5, <2>6 DEF Rounds
  <2> QED BY <2>7
<1> HIDE DEF S
<1>3. n \in S
  BY <1>1, <1>2, Induction
<1> QED BY <1>3 DEF S

\* read takes the first bytes and returns them.
LEMMA ReadBlocksKeeps ==
    ASSUME NEW r, Ring(r), NEW n \in 0..r.bufferSize
    PROVE  /\ Ring(ReadBlocks(r, n).r)
           /\ ReadBlocks(r, n).data = SubSeq(Content(r), 1, n)
           /\ Content(ReadBlocks(r, n).r) = SubSeq(Content(r), n + 1, Len(Content(r)))
<1> DEFINE s == [r |-> r, n |-> n, data |-> <<>>]
           l == Len(r.buffers)
           f == CHOOSE f : Rounds(f, s, l)
<1>1. /\ l \in Nat /\ l = r.tailBuffer + 1 /\ r.tailBuffer \in Nat /\ r.bufferSize \in Nat
      /\ n \in Nat /\ n <= r.bufferSize /\ Len(Content(r)) = r.bufferSize
      /\ Content(r) \in Seq(Bytes)
  BY RingIs, BeforeIs
<1>2. ReadBlocks(r, n) = f[l]
  BY DEF ReadBlocks, Rounds
<1>3. Rounds(f, s, l)
  <2>1. \E g : Rounds(g, s, l)
    BY <1>1, RoundsExist
  <2> QED BY <2>1
<1>4. /\ s.r = r /\ s.n = n /\ s.data = <<>>
  OBVIOUS
<1> HIDE DEF f, s, l
<1>5. \A k \in 0..l : f[k] = IF k = 0 THEN s ELSE CopyBlock(f[k - 1])
  BY <1>3 DEF Rounds
<1>6. RoundOK(r, n, s, 0)
  <2> DEFINE C == Content(r)
  <2>1. n - n = 0 /\ SubSeq(C, 1, 0) = <<>> /\ SubSeq(C, 0 + 1, Len(C)) = C
    <3>1. C \in Seq(Bytes) /\ 0 + 1 = 1
      BY <1>1
    <3>2. SubSeq(C, 1, Len(C)) = C
      BY <3>1, SubSeqFull
    <3>3. SubSeq(C, 1, 0) = <<>>
      BY <3>1
    <3> HIDE DEF C
    <3> QED BY <1>1, <3>1, <3>2, <3>3
  <2>2. n \in 0..n /\ r.tailBuffer + 0 <= r.tailBuffer
    BY <1>1
  <2> QED BY <1>1, <1>4, <2>1, <2>2 DEF RoundOK
<1> DEFINE T == {k \in Nat : k \in 0..l => RoundOK(r, n, f[k], k)}
<1>7. 0 \in T
  <2>1. 0 \in 0..l
    BY <1>1
  <2>2. f[0] = s
    BY <1>5, <2>1
  <2> QED BY <1>6, <2>2
<1>8. ASSUME NEW k \in Nat, k \in T PROVE k + 1 \in T
  <2> SUFFICES ASSUME k + 1 \in 0..l PROVE RoundOK(r, n, f[k + 1], k + 1)
    OBVIOUS
  <2>1. k \in 0..l /\ k + 1 # 0 /\ (k + 1) - 1 = k
    BY <1>1
  <2>2. f[k + 1] = CopyBlock(f[k])
    BY <1>5, <2>1
  <2>3. RoundOK(r, n, f[k], k)
    BY <1>8, <2>1
  <2>4. RoundOK(r, n, CopyBlock(f[k]), k + 1)
    BY <2>3, CopyBlockKeeps
  <2> QED BY <2>2, <2>4
<1> HIDE DEF T
<1>9. l \in T
  BY <1>1, <1>7, <1>8, Induction
<1>10. RoundOK(r, n, f[l], l)
  BY <1>1, <1>9 DEF T
<1> DEFINE t == f[l]
<1>11. /\ Ring(t.r) /\ t.n \in 0..n
       /\ t.data = SubSeq(Content(r), 1, n - t.n)
       /\ Content(t.r) = SubSeq(Content(r), (n - t.n) + 1, Len(Content(r)))
       /\ t.n = 0 \/ t.r.tailBuffer + l <= r.tailBuffer
  BY <1>10 DEF RoundOK
<1> HIDE DEF t
<1>12. t.n = 0
  <2>1. t.r.tailBuffer \in Nat
    BY <1>11, RingIs
  <2> QED BY <1>1, <1>11, <2>1
<1>13. n - t.n = n
  BY <1>1, <1>12
<1> QED BY <1>2, <1>11, <1>13 DEF t

\* read returns no more bytes than there are.
LEMMA ReadKeeps ==
    ASSUME NEW r, Ring(r), NEW n \in Nat
    PROVE  \E k \in 0..r.bufferSize :
              /\ Ring(Read(r, n).r)
              /\ Read(r, n).data = SubSeq(Content(r), 1, k)
              /\ Content(Read(r, n).r) = SubSeq(Content(r), k + 1, Len(Content(r)))
<1> DEFINE k == Min({r.bufferSize, n})
<1>1. r.bufferSize \in Nat
  BY RingIs
<1>2. k \in 0..r.bufferSize
  <2>1. k = IF r.bufferSize <= n THEN r.bufferSize ELSE n
    <3>1. r.bufferSize \in Int /\ n \in Int
      BY <1>1
    <3> QED BY <3>1, MaxTwo
  <2> HIDE DEF k
  <2> QED BY <1>1, <2>1
<1>3. Read(r, n) = ReadBlocks(r, k)
  BY DEF Read
<1> HIDE DEF k
<1> QED BY <1>2, <1>3, ReadBlocksKeeps

\* The first k bytes of r are in data and the others in s.
Taken(r, s, data, k) ==
    /\ k \in 0..r.bufferSize
    /\ Ring(s)
    /\ data = SubSeq(Content(r), 1, k)
    /\ Content(s) = SubSeq(Content(r), k + 1, Len(Content(r)))

\* The members of a record.
LEMMA RecordParts ==
    ASSUME NEW bs, NEW h, NEW t, NEW tb, NEW size, NEW x, x = Record(bs, h, t, tb, size)
    PROVE  /\ x.buffers = bs /\ x.head = h /\ x.tail = t /\ x.tailBuffer = tb
           /\ x.bufferSize = size
BY DEF Record

\* Nothing is taken of an empty buffer.
LEMMA TakenNone ==
    ASSUME NEW r, Ring(r)
    PROVE  Taken(r, r, <<>>, 0)
<1> DEFINE C == Content(r)
<1>1. r.bufferSize \in Nat /\ C \in Seq(Bytes) /\ Len(C) = r.bufferSize
  BY Counts
<1>2. SubSeq(C, 1, 0) = <<>> /\ 0 + 1 = 1 /\ 0 \in 0..r.bufferSize
  BY <1>1
<1>3. SubSeq(C, 1, Len(C)) = C
  BY <1>1, SubSeqFull
<1> QED BY <1>2, <1>3 DEF Taken

\* read() takes the first block.
LEMMA ReadBlockKeeps ==
    ASSUME NEW r, Ring(r)
    PROVE  \E k \in Nat : Taken(r, ReadBlock(r).r, ReadBlock(r).data, k)
<1> DEFINE C     == Content(r)
           tb    == r.tailBuffer
           z     == NextDataBlockSize(r)
           first == SubSeq(Block(r, 0), r.head + 1, r.head + z)
           rest  == [r EXCEPT !.bufferSize = @ - Len(first), !.head = 0]
           one   == [rest EXCEPT !.buffers = << <<>> >>, !.tail = 0]
           more  == [rest EXCEPT !.buffers = Tail(@), !.tailBuffer = @ - 1]
           size  == r.bufferSize - z
<1>1. /\ r = Record(r.buffers, r.head, r.tail, tb, r.bufferSize)
      /\ r.buffers \in Seq(Seq(Stuff)) /\ r.head \in Nat /\ r.tail \in Nat
      /\ tb \in Nat /\ r.bufferSize \in Nat /\ Len(r.buffers) = tb + 1
  BY RingIs, IsRecord
<1>2. /\ C \in Seq(Bytes) /\ Len(C) = r.bufferSize
  BY Counts
<1>3. CASE r.bufferSize = 0
  <2>1. ReadBlock(r).r = r /\ ReadBlock(r).data = <<>>
    BY <1>3 DEF ReadBlock
  <2> QED BY <2>1, TakenNone
<1>4. CASE r.bufferSize # 0
  <2>1. ReadBlock(r).r = (IF tb = 0 THEN one ELSE more) /\ ReadBlock(r).data = first
    BY <1>4 DEF ReadBlock
  <2>2. /\ z = Len(Parts(r)[1]) /\ first = Parts(r)[1] /\ z = Len(first)
    BY NextIs DEF Ring
  <2>3. z \in Nat
    <3>1. 0 \in 0..tb /\ 0 + 1 = 1
      BY <1>1
    <3>2. Parts(r)[0 + 1] \in Seq(Bytes)
      BY <3>1, BeforeIs
    <3>3. Len(Parts(r)[1]) \in Nat
      BY <3>1, <3>2
    <3> HIDE DEF z
    <3> QED BY <2>2, <3>3
  <2>4. first = SubSeq(C, 1, z) /\ z <= r.bufferSize /\ z = Before(r, 1)
    <3>1. z \in 0..z
      BY <2>3
    <3> QED BY <3>1, FirstBytes
  <2> HIDE DEF z, first
  <2>5. rest = [r EXCEPT !.bufferSize = size, !.head = 0]
    BY <2>2
  <2>6. size \in Nat
    BY <1>1, <2>3, <2>4
  <2> HIDE DEF rest, size
  <2>7. rest = Record(r.buffers, 0, r.tail, tb, size)
    BY <1>1, <2>5 DEF Record
  <2>8. z \in 0..r.bufferSize
    BY <1>1, <2>3, <2>4
  <2>9. CASE tb = 0
    <3>1. z = r.bufferSize
      BY <2>4, <2>9, BeforeIs
    <3>2. one = Cleared
      <4>1. one = Record(<< <<>> >>, 0, 0, 0, size)
        <5>1. one = [rest EXCEPT !.buffers = << <<>> >>, !.tail = 0]
          OBVIOUS
        <5> HIDE DEF one
        <5> QED BY <2>7, <2>9, <5>1 DEF Record
      <4>2. size = 0
        BY <1>1, <3>1 DEF size
      <4> QED BY <4>1, <4>2 DEF Cleared, Record
    <3>3. SubSeq(C, z + 1, Len(C)) = <<>>
      <4> HIDE DEF C
      <4>1. z <= z /\ z <= Len(C) /\ z = Len(C)
        BY <1>1, <1>2, <3>1
      <4>2. SubSeq(C, z + 1, z) \in Seq(Bytes) /\ Len(SubSeq(C, z + 1, z)) = z - z
        BY <1>2, <2>3, <4>1, Piece
      <4>3. Len(SubSeq(C, z + 1, z)) = 0
        BY <2>3, <4>2
      <4> QED BY <4>1, <4>2, <4>3
    <3> QED BY <2>1, <2>3, <2>4, <2>8, <2>9, <3>2, <3>3, ClearedRing DEF Taken
  <2>10. CASE tb # 0
    <3> DEFINE s == Less(r, z)
               d == Drop(s, 1)
               a == FlattenSeq(SubSeq(Parts(r), 1, 1))
    <3>1. /\ Shape(s) /\ s.tailBuffer = tb /\ s.bufferSize = size /\ Parts(s) = Parts(r)
      BY <2>8, LessIs DEF size
    <3>2. more = d
      <4>1. s = [r EXCEPT !.bufferSize = size]
        <5>1. size \in Int /\ 0 \in Int /\ size >= 0
          BY <2>6
        <5>2. Max({size, 0}) = size
          BY <5>1, MaxTwo
        <5> QED BY <5>2 DEF Less, size
      <4> HIDE DEF s
      <4>2. s = Record(r.buffers, r.head, r.tail, tb, size)
        BY <1>1, <4>1 DEF Record
      <4>3. d = Record(SubSeq(r.buffers, 1 + 1, Len(r.buffers)), 0, r.tail, tb - 1, size)
        <5>1. s.buffers = r.buffers /\ s.tailBuffer = tb
          BY <4>2, RecordParts
        <5>2. d = [s EXCEPT !.buffers = SubSeq(r.buffers, 1 + 1, Len(r.buffers)),
                            !.tailBuffer = tb - 1, !.head = 0]
          BY <5>1 DEF Drop
        <5> DEFINE bs == SubSeq(r.buffers, 1 + 1, Len(r.buffers))
                   k  == tb - 1
        <5> HIDE DEF d, bs, k
        <5>3. d = [s EXCEPT !.buffers = bs, !.tailBuffer = k, !.head = 0]
          BY <5>2 DEF bs, k
        <5>4. d = Record(bs, 0, r.tail, k, size)
          BY <4>2, <5>3 DEF Record
        <5> QED BY <5>4 DEF bs, k
      <4>4. more = Record(Tail(r.buffers), 0, r.tail, tb - 1, size)
        <5>1. rest.buffers = r.buffers /\ rest.tailBuffer = tb
          BY <2>7, RecordParts
        <5> DEFINE bs == Tail(r.buffers)
                   k  == tb - 1
        <5>2. more = [rest EXCEPT !.buffers = bs, !.tailBuffer = k]
          BY <5>1
        <5> HIDE DEF more, bs, k
        <5>3. more = Record(bs, 0, r.tail, k, size)
          BY <2>7, <5>2 DEF Record
        <5> QED BY <5>3 DEF bs, k
      <4>5. Tail(r.buffers) = SubSeq(r.buffers, 1 + 1, Len(r.buffers))
        <5> DEFINE bs == r.buffers
        <5>1. bs \in Seq(Seq(Stuff)) /\ bs # <<>> /\ 1 <= Len(bs) /\ Len(bs) <= Len(bs)
              /\ Len(bs) \in Nat
          BY <1>1
        <5> HIDE DEF bs
        <5>2. /\ SubSeq(bs, 1 + 1, Len(bs)) \in Seq(Seq(Stuff))
              /\ Len(SubSeq(bs, 1 + 1, Len(bs))) = Len(bs) - 1
              /\ \A i \in 1..(Len(bs) - 1) : SubSeq(bs, 1 + 1, Len(bs))[i] = bs[1 + i]
          <6>1. 1 \in Nat
            OBVIOUS
          <6> QED BY <5>1, <6>1, Piece, ZenonT(60)
        <5>3. /\ Tail(bs) \in Seq(Seq(Stuff)) /\ Len(Tail(bs)) = Len(bs) - 1
              /\ \A i \in 1..(Len(bs) - 1) : Tail(bs)[i] = bs[1 + i]
          BY <5>1
        <5>4. Tail(bs) = SubSeq(bs, 1 + 1, Len(bs))
          BY <5>2, <5>3, SameSeq
        <5> QED BY <5>4 DEF bs
      <4> QED BY <4>3, <4>4, <4>5
    <3>3. /\ Parts(r) \in Seq(Seq(Bytes)) /\ OneEmpty(Parts(r)) /\ Len(Parts(r)) = tb + 1
          /\ 1 \in 0..tb /\ 1 \in 0..Len(Parts(r))
      BY <1>1, <2>10, PartsAre DEF Ring, Stores
    <3> HIDE DEF s
    <3>4. /\ Shape(d) /\ d.tailBuffer = tb - 1 /\ d.bufferSize = size
          /\ Parts(d) = SubSeq(Parts(r), 1 + 1, Len(Parts(r))) /\ OneEmpty(Parts(d))
      <4>1. Parts(s) \in Seq(Seq(Bytes)) /\ OneEmpty(Parts(s)) /\ 1 \in 0..s.tailBuffer
        BY <3>1, <3>3
      <4>2. /\ Shape(d) /\ d.tailBuffer = s.tailBuffer - 1 /\ d.bufferSize = s.bufferSize
            /\ Parts(d) = SubSeq(Parts(s), 1 + 1, Len(Parts(s))) /\ OneEmpty(Parts(d))
        BY <3>1, <4>1, DropIs
      <4> QED BY <3>1, <4>2
    <3>5. d.head = 0
      <4>1. s \in BufferType
        BY <3>1 DEF Shape
      <4> QED BY <4>1 DEF Drop, BufferType
    <3> HIDE DEF d, a, more
    <3>6. /\ SubSeq(Parts(r), 1, 1) \in Seq(Seq(Bytes)) /\ Parts(d) \in Seq(Seq(Bytes))
          /\ C = a \o Content(d)
      BY <3>3, <3>4, FlattenSplit DEF Content, a
    <3>7. a \in Seq(Bytes) /\ Content(d) \in Seq(Bytes) /\ Len(a) = z
      <4>1. a \in Seq(Bytes) /\ Content(d) \in Seq(Bytes)
        BY <3>6, FlattenType DEF a, Content
      <4> QED BY <2>4, <4>1 DEF a, Before
    <3> HIDE DEF C
    <3>8. Content(d) = SubSeq(C, z + 1, Len(C)) /\ Len(C) = z + Len(Content(d))
      <4>1. 0 \in 0..Len(Content(d)) /\ z + 0 = z /\ 0 + 1 = 1
        BY <2>3, <3>7
      <4>2. SubSeq(a \o Content(d), (Len(a) + 0) + 1, Len(a \o Content(d)))
            = SubSeq(Content(d), 0 + 1, Len(Content(d)))
        BY <3>7, <4>1, SkipFirst
      <4>3. SubSeq(Content(d), 1, Len(Content(d))) = Content(d)
        BY <3>7, SubSeqFull
      <4>4. Len(a \o Content(d)) = Len(a) + Len(Content(d))
        BY <3>7, ConcatProperties
      <4> QED BY <3>6, <3>7, <4>1, <4>2, <4>3, <4>4
    <3>9. d.bufferSize = Len(Content(d))
      <4>1. Len(Content(d)) \in Nat
        BY <3>7
      <4>2. r.bufferSize = z + Len(Content(d))
        BY <1>2, <3>8
      <4>3. d.bufferSize = r.bufferSize - z
        BY <3>4 DEF size
      <4> QED BY <2>3, <4>1, <4>2, <4>3
    <3>10. Ring(d)
      BY <3>4, <3>5, <3>6, <3>9 DEF Ring, Stores
    <3> QED BY <2>1, <2>3, <2>4, <2>8, <2>10, <3>2, <3>8, <3>10 DEF Taken, C
  <2> QED BY <2>9, <2>10
<1> QED BY <1>3, <1>4

\* The smallest element of a set of numbers.
LEMMA MinIs ==
    ASSUME NEW S, S \subseteq Nat, S # {}
    PROVE  Min(S) \in S
<1>1. \E x \in S : \A y \in S : x <= y
  BY Smallest
<1> QED BY <1>1 DEF Min

\* The position of a byte that is found.
LEMMA IndexIs ==
    ASSUME NEW r, Ring(r), NEW c
    PROVE  IndexOf(r, c) = -1 \/ IndexOf(r, c) \in Nat
<1> DEFINE ps    == Parts(r)
           hits  == {i \in 1..Len(ps) : \E k \in 1..Len(ps[i]) : ps[i][k] = c}
           first == Min(hits)
           here  == {k \in 1..Len(ps[first]) : ps[first][k] = c}
<1>1. IndexOf(r, c) = IF hits = {} THEN -1 ELSE Before(r, first - 1) + Min(here) - 1
  BY DEF IndexOf
<1>2. Len(ps) = r.tailBuffer + 1 /\ r.tailBuffer \in Nat
  BY PartsAre, RingIs DEF Ring
<1>3. CASE hits # {}
  <2>1. first \in hits
    <3>1. hits \subseteq Nat
      OBVIOUS
    <3> HIDE DEF hits
    <3> QED BY <1>3, <3>1, MinIs
  <2>2. first \in 1..Len(ps) /\ here # {}
    <3> HIDE DEF first
    <3> QED BY <2>1
  <2>3. Min(here) \in here
    <3>1. here \subseteq Nat
      OBVIOUS
    <3> HIDE DEF here
    <3> QED BY <2>2, <3>1, MinIs
  <2>4. Min(here) \in Nat /\ Min(here) >= 1
    <3>1. \A k \in here : k \in Nat /\ k >= 1
      OBVIOUS
    <3> HIDE DEF here
    <3> QED BY <2>3, <3>1
  <2> HIDE DEF here, first
  <2>5. Before(r, first - 1) \in Nat
    <3>1. first - 1 \in 0..r.tailBuffer
      BY <1>2, <2>2
    <3> QED BY <3>1, BeforeIs
  <2> HIDE DEF hits
  <2> QED BY <1>1, <1>3, <2>4, <2>5
<1> HIDE DEF hits
<1> QED BY <1>1, <1>3

\* readLine takes bytes from the front as well, how many the position says.
LEMMA ReadLineKeeps ==
    ASSUME NEW r, Ring(r), NEW n \in Nat, n >= 1
    PROVE  \E k \in Nat : Taken(r, ReadLine(r, n).r, ReadLine(r, n).data, k)
<1>1. ASSUME NEW m \in Nat
      PROVE  \E k \in Nat : Taken(r, Read(r, m).r, Read(r, m).data, k)
  <2>1. PICK k \in 0..r.bufferSize :
              /\ Ring(Read(r, m).r)
              /\ Read(r, m).data = SubSeq(Content(r), 1, k)
              /\ Content(Read(r, m).r) = SubSeq(Content(r), k + 1, Len(Content(r)))
    BY ReadKeeps
  <2>2. k \in Nat
    BY Counts
  <2> QED BY <2>1, <2>2 DEF Taken
<1> DEFINE index == IndexOf(r, Newline)
           k     == Min({index + 1, n - 1})
<1>2. ReadLine(r, n) = IF index = -1 THEN Read(r, n) ELSE Read(r, k)
  BY DEF ReadLine
<1>3. index = -1 \/ index \in Nat
  BY IndexIs
<1> HIDE DEF index
<1>4. index \in Nat => k \in Nat
  <2> SUFFICES ASSUME index \in Nat PROVE k \in Nat
    OBVIOUS
  <2>1. index + 1 \in Int /\ n - 1 \in Int /\ index + 1 \in Nat /\ n - 1 \in Nat
    OBVIOUS
  <2>2. k = IF index + 1 <= n - 1 THEN index + 1 ELSE n - 1
    BY <2>1, MaxTwo
  <2> HIDE DEF k
  <2> QED BY <2>1, <2>2
<1> HIDE DEF k
<1> QED BY <1>1, <1>2, <1>3, <1>4

\* What arrives.
LEMMA DataAre ==
    ASSUME NEW data \in Data
    PROVE  data \in Seq(Bytes) /\ data # <<>> /\ Len(data) \in Nat /\ Len(data) >= 1
<1>1. PICK n \in WriteSizes : data \in [1..n -> Bytes]
  BY DEF Data
<1>2. n \in Nat /\ n >= 1
  BY SizeAssumption
<1>3. data \in Seq(Bytes) /\ Len(data) = n
  BY <1>1, <1>2
<1> QED BY <1>2, <1>3

\* A new buffer is an empty queue.
LEMMA RingInit == BufferInit => Ring(b) /\ Content(b) = <<>> /\ out = <<>>
BY ClearedRing DEF BufferInit

\* What a call does to the queue.
RingStep == Ring(b') /\ Queue!Next

\* A call that takes bytes from the front and returns them is a step of the queue.
LEMMA TakeStep ==
    ASSUME Ring(b), NEW k \in Nat, NEW s, NEW data, Taken(b, s, data, k),
           b' = s, out' \in {data, <<>>}
    PROVE  RingStep
<1> DEFINE C == Content(b)
<1>1. /\ k \in 0..b.bufferSize /\ Ring(s)
      /\ data = SubSeq(C, 1, k) /\ Content(s) = SubSeq(C, k + 1, Len(C))
  BY DEF Taken
<1>2. Len(C) = b.bufferSize
  BY Counts
<1>3. Queue!Take
  <2>1. k \in 0..Len(C)
    BY <1>1, <1>2
  <2>2. Content(b') = SubSeq(C, k + 1, Len(C))
    BY <1>1
  <2>3. out' \in {SubSeq(C, 1, k), <<>>}
    BY <1>1
  <2> QED BY <2>1, <2>2, <2>3 DEF Queue!Take, Queue!Rest, Queue!First
<1> QED BY <1>1, <1>3 DEF RingStep, Queue!Next

\* Each call is a step of the queue: what arrives is put at the end.
LEMMA ReserveStep ==
    ASSUME Ring(b), DoReserve
    PROVE  RingStep
<1> DEFINE C == Content(b)
<1>1. PICK data \in Data : b' = Reserve(b, data) /\ out' = <<>>
  BY DEF DoReserve, Stored
<1>2. data \in Seq(Bytes) /\ data # <<>> /\ Len(data) \in Nat /\ Len(data) >= 1
  BY DataAre
<1>3. Ring(b') /\ Content(b') = C \o data
  <2>1. Ring(Reserve(b, data)) /\ Content(Reserve(b, data)) = C \o data
    BY <1>2, ReserveKeeps
  <2> QED BY <1>1, <2>1
<1>4. C \in Seq(Bytes)
  BY Counts
<1> DEFINE D == Content(b')
<1> HIDE DEF C, D
<1>5. Len(D) = Len(C) + Len(data) /\ D \in Seq(Bytes) /\ Len(C) \in Nat
  BY <1>2, <1>3, <1>4, ConcatProperties DEF D
<1>6. SubSeq(D, 1, Len(D) - Len(data)) = C
  <2>1. Len(D) - Len(data) = Len(C) /\ Len(C) \in 0..Len(C)
    BY <1>2, <1>5
  <2>2. SubSeq(C \o data, 1, Len(C)) = SubSeq(C, 1, Len(C))
    BY <1>2, <1>4, <2>1, TakeFirst
  <2>3. SubSeq(C, 1, Len(C)) = C
    BY <1>4, SubSeqFull
  <2> QED BY <1>3, <2>1, <2>2, <2>3 DEF D
<1>7. Len(data) \in 1..Len(D)
  BY <1>2, <1>5
<1>8. Queue!Put
  <2>1. \E n \in 1..Len(D) : SubSeq(D, 1, Len(D) - n) = C
    BY <1>6, <1>7
  <2> QED BY <1>1, <1>5, <2>1 DEF Queue!Put, C, D
<1> QED BY <1>3, <1>8 DEF RingStep, Queue!Next

\* A byte is put back.
LEMMA UngetStep ==
    ASSUME Ring(b), DoUngetChar
    PROVE  RingStep
<1> DEFINE C == Content(b)
           D == Content(b')
<1>1. PICK c \in Bytes : b' = UngetChar(b, c) /\ out' = <<>>
  BY DEF DoUngetChar, Stored
<1>2. Ring(b') /\ D = <<c>> \o C
  <2>1. Ring(UngetChar(b, c)) /\ Content(UngetChar(b, c)) = <<c>> \o C
    BY UngetKeeps
  <2> QED BY <1>1, <2>1
<1>3. C \in Seq(Bytes)
  BY Counts
<1> HIDE DEF C, D
<1>4. D # <<>> /\ Head(D) = c /\ Tail(D) = C
  BY <1>2, <1>3
<1>5. Queue!Unget
  BY <1>1, <1>4 DEF Queue!Unget, C, D
<1> QED BY <1>2, <1>5 DEF RingStep, Queue!Next

\* All is dropped.
LEMMA ClearStep ==
    ASSUME DoClear
    PROVE  RingStep
<1>1. b' = Cleared /\ out' = <<>>
  BY DEF DoClear, Stored
<1>2. Ring(b') /\ Content(b') = <<>>
  BY <1>1, ClearedRing
<1>3. Queue!Drop
  BY <1>1, <1>2 DEF Queue!Drop
<1> QED BY <1>2, <1>3 DEF RingStep, Queue!Next

\* Bytes are dropped from the front.
LEMMA FreeStep ==
    ASSUME Ring(b), DoFree
    PROVE  RingStep
<1>1. PICK n \in 0..b.bufferSize : b' = Free(b, n) /\ out' = <<>>
  BY DEF DoFree, Stored
<1>2. /\ Ring(Free(b, n))
      /\ Content(Free(b, n)) = SubSeq(Content(b), n + 1, Len(Content(b)))
  BY FreeKeeps
<1>3. n \in Nat
  BY Counts
<1>4. Taken(b, Free(b, n), SubSeq(Content(b), 1, n), n)
  BY <1>2 DEF Taken
<1> QED BY <1>1, <1>3, <1>4, TakeStep

\* Bytes are read.
LEMMA ReadStep ==
    ASSUME Ring(b), DoRead
    PROVE  RingStep
<1>1. PICK n \in 1..MaxSize : b' = Read(b, n).r /\ out' = Read(b, n).data
  BY DEF DoRead, Returned
<1>2. n \in Nat
  BY SizeAssumption
<1>3. PICK k \in 0..b.bufferSize :
              /\ Ring(Read(b, n).r)
              /\ Read(b, n).data = SubSeq(Content(b), 1, k)
              /\ Content(Read(b, n).r) = SubSeq(Content(b), k + 1, Len(Content(b)))
  BY <1>2, ReadKeeps
<1>4. k \in Nat
  BY Counts
<1>5. Taken(b, Read(b, n).r, Read(b, n).data, k)
  BY <1>3 DEF Taken
<1> QED BY <1>1, <1>4, <1>5, TakeStep

\* A block is read.
LEMMA ReadBlockStep ==
    ASSUME Ring(b), DoReadBlock
    PROVE  RingStep
<1>1. b' = ReadBlock(b).r /\ out' = ReadBlock(b).data
  BY DEF DoReadBlock, Returned
<1>2. PICK k \in Nat : Taken(b, ReadBlock(b).r, ReadBlock(b).data, k)
  BY ReadBlockKeeps
<1> QED BY <1>1, <1>2, TakeStep

\* A line is read.
LEMMA ReadLineStep ==
    ASSUME Ring(b), DoReadLine
    PROVE  RingStep
<1>1. PICK n \in 1..MaxSize : b' = ReadLine(b, n).r /\ out' = ReadLine(b, n).data
  BY DEF DoReadLine, Returned
<1>2. n \in Nat /\ n >= 1
  BY SizeAssumption
<1>3. PICK k \in Nat : Taken(b, ReadLine(b, n).r, ReadLine(b, n).data, k)
  BY <1>2, ReadLineKeeps
<1> QED BY <1>1, <1>3, TakeStep

\* Every call keeps the invariant and is a step of the queue.
LEMMA StepKeeps == Ring(b) /\ BufferNext => RingStep
BY ReserveStep, UngetStep, ClearStep, FreeStep, ReadStep, ReadBlockStep, ReadLineStep
   DEF BufferNext

\* The blocks and the positions in them fit together whatever the calls, and
\* bufferSize counts what is stored.
THEOREM RingAlways == BufferSpec => []Ring(b)
<1>1. BufferInit => Ring(b)
  BY RingInit
<1>2. Ring(b) /\ [BufferNext]_bufferVars => Ring(b)'
  <2> SUFFICES ASSUME Ring(b), [BufferNext]_bufferVars PROVE Ring(b')
    OBVIOUS
  <2>1. CASE BufferNext
    BY <2>1, StepKeeps DEF RingStep
  <2>2. CASE UNCHANGED bufferVars
    <3>1. b' = b
      BY <2>2 DEF bufferVars
    <3> QED BY <3>1
  <2> QED BY <2>1, <2>2
<1> QED BY <1>1, <1>2, PTL DEF BufferSpec

\* No byte is lost, repeated, reordered or made up.
THEOREM BytesInOrder == BufferSpec => Implements
<1>1. BufferInit => Queue!Init
  BY RingInit DEF Queue!Init
<1>2. Ring(b) /\ [BufferNext]_bufferVars => [Queue!Next]_(Queue!vars)
  <2> SUFFICES ASSUME Ring(b), [BufferNext]_bufferVars PROVE [Queue!Next]_(Queue!vars)
    OBVIOUS
  <2>1. CASE BufferNext
    BY <2>1, StepKeeps DEF RingStep
  <2>2. CASE UNCHANGED bufferVars
    <3>1. b' = b /\ out' = out
      BY <2>2 DEF bufferVars
    <3>2. Content(b') = Content(b)
      BY <3>1
    <3> QED BY <3>1, <3>2 DEF Queue!vars
  <2> QED BY <2>1, <2>2
<1> QED BY <1>1, <1>2, RingAlways, PTL DEF BufferSpec, Implements, Queue!Spec
=============================================================================
