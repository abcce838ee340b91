------------------------ MODULE ModbusTcpClientProofs ------------------------
(***************************************************************************)
(* Lemmas about ModbusTcpClient: what its methods do to the queue of       *)
(* timers and to the replies that have not finished. They are stated for   *)
(* any set of requests, and used for both users of the client, in          *)
(* SunspecUpdaterProofs and SMAUpdaterProofs.                              *)
(***************************************************************************)
EXTENDS ModbusTcpClient, SequenceTheorems, TLAPS

Running(c) == ToSet(c.timers)

\* Every timer is in the queue once, every reply that has not finished has one,
\* with an identifier of its own, and the server is to answer nothing else.
Queue(c) ==
    /\ IsInjective(c.timers)
    /\ Running(c) \cap Ids = {r.id : r \in Outstanding(c)}
    /\ \A r, q \in Outstanding(c) : r.id = q.id => r = q
    /\ c.sent \subseteq {r.id : r \in Outstanding(c)}

Sound(c, R) == c \in ClientType(R) /\ Queue(c)

\* The client d has other timers and is otherwise as c.
SameButTimers(c, d) ==
    /\ d.socket = c.socket
    /\ d.closing = c.closing
    /\ d.pending = c.pending
    /\ d.dropped = c.dropped
    /\ d.sent = c.sent

----------------------------------------------------------------------------
(* The queue of timers.                                                    *)

\* The elements of a sequence, by their positions.
LEMMA InToSet ==
    ASSUME NEW S, NEW q \in Seq(S)
    PROVE  /\ \A x : x \in ToSet(q) <=> \E i \in 1..Len(q) : q[i] = x
           /\ ToSet(q) \subseteq S
<1>1. DOMAIN q = 1..Len(q) /\ \A i \in 1..Len(q) : q[i] \in S
  OBVIOUS
<1> QED BY <1>1 DEF ToSet

\* What is removed is no longer there, and the others keep their order.
LEMMA RemovedAt ==
    ASSUME NEW S, NEW q \in Seq(S), NEW k \in 1..Len(q), IsInjective(q)
    PROVE  /\ RemoveAt(q, k) \in Seq(S)
           /\ Len(RemoveAt(q, k)) = Len(q) - 1
           /\ \A i \in 1..Len(q) - 1 :
                 RemoveAt(q, k)[i] = IF i < k THEN q[i] ELSE q[i + 1]
<1> DEFINE a == SubSeq(q, 1, k - 1)
           b == SubSeq(q, k + 1, Len(q))
<1>1. a \in Seq(S) /\ Len(a) = k - 1 /\ \A i \in 1..k - 1 : a[i] = q[i]
  OBVIOUS
<1>2. b \in Seq(S) /\ Len(b) = Len(q) - k /\ \A i \in 1..Len(q) - k : b[i] = q[k + i]
  OBVIOUS
<1>3. RemoveAt(q, k) = a \o b
  BY DEF RemoveAt
<1> HIDE DEF a, b
<1>4. a \o b \in Seq(S) /\ Len(a \o b) = Len(q) - 1
  <2>1. a \o b \in Seq(S) /\ Len(a \o b) = Len(a) + Len(b)
    BY <1>1, <1>2, ConcatProperties
  <2>2. (k - 1) + (Len(q) - k) = Len(q) - 1
    OBVIOUS
  <2> QED BY <1>1, <1>2, <2>1, <2>2
<1>5. ASSUME NEW i \in 1..Len(q) - 1
      PROVE  (a \o b)[i] = IF i < k THEN q[i] ELSE q[i + 1]
  <2>1. CASE i < k
    BY <1>1, <1>2, <2>1
  <2>2. CASE ~(i < k)
    <3>1. (a \o b)[i] = b[i - Len(a)]
      BY <1>1, <1>2, <2>2
    <3>2. i - Len(a) \in 1..Len(q) - k /\ k + (i - Len(a)) = i + 1
      BY <1>1, <2>2
    <3> QED BY <1>2, <2>2, <3>1, <3>2
  <2> QED BY <2>1, <2>2
<1> QED BY <1>3, <1>4, <1>5

\* Stopping a timer takes it out of a queue that has each timer once.
LEMMA StoppedTimer ==
    ASSUME NEW S, NEW q \in Seq(S), NEW t, IsInjective(q)
    PROVE  /\ RemoveFirst(q, t) \in Seq(S)
           /\ IsInjective(RemoveFirst(q, t))
           /\ ToSet(RemoveFirst(q, t)) = ToSet(q) \ {t}
           /\ t \in ToSet(q) => Len(RemoveFirst(q, t)) = Len(q) - 1
           /\ t \notin ToSet(q) => RemoveFirst(q, t) = q
<1>1. CASE t \notin ToSet(q)
  <2>1. RemoveFirst(q, t) = q
    BY <1>1, InToSet DEF RemoveFirst
  <2> QED BY <1>1, <2>1
<1>2. CASE t \in ToSet(q)
  <2>1. PICK k \in 1..Len(q) : q[k] = t
    BY <1>2, InToSet
  <2>2. \A i \in 1..Len(q) : q[i] = t <=> i = k
    BY <2>1 DEF IsInjective
  <2>3. {i \in 1..Len(q) : q[i] = t} = {k}
    BY <2>2
  <2>4. SelectInSeq(q, LAMBDA x : x = t) = k
    <3> DEFINE I == {i \in 1..Len(q) : q[i] = t}
    <3>1. SelectInSeq(q, LAMBDA x : x = t) = IF I # {} THEN Min(I) ELSE 0
      BY DEF SelectInSeq
    <3>2. Min({k}) = k
      BY DEF Min
    <3> QED BY <2>3, <3>1, <3>2
  <2>5. RemoveFirst(q, t) = RemoveAt(q, k)
    BY <2>1, <2>4 DEF RemoveFirst
  <2> DEFINE w == RemoveAt(q, k)
  <2>6. /\ w \in Seq(S)
        /\ Len(w) = Len(q) - 1
        /\ \A i \in 1..Len(q) - 1 : w[i] = IF i < k THEN q[i] ELSE q[i + 1]
    BY RemovedAt
  <2> HIDE DEF w
  <2>7. IsInjective(w)
    BY <2>6, SMTT(30) DEF IsInjective
  <2>8. ToSet(w) = ToSet(q) \ {t}
    <3>1. ASSUME NEW x \in ToSet(w) PROVE x \in ToSet(q) \ {t}
      <4>1. PICK i \in 1..Len(q) - 1 : w[i] = x
        BY <2>6, <3>1, InToSet
      <4>2. PICK j \in 1..Len(q) : j # k /\ q[j] = x
        BY <2>6, <4>1
      <4> QED BY <2>2, <4>2, InToSet
    <3>2. ASSUME NEW x \in ToSet(q) \ {t} PROVE x \in ToSet(w)
      <4>1. PICK j \in 1..Len(q) : q[j] = x /\ j # k
        BY <2>1, <3>2, InToSet
      <4>2. \E i \in 1..Len(q) - 1 : w[i] = x
        <5>1. CASE j < k
          BY <2>6, <4>1, <5>1
        <5>2. CASE j > k
          <6>1. j - 1 \in 1..Len(q) - 1 /\ ~(j - 1 < k) /\ (j - 1) + 1 = j
            BY <5>2
          <6> QED BY <2>6, <4>1, <6>1
        <5> QED BY <4>1, <5>1, <5>2
      <4> QED BY <2>6, <4>2, InToSet
    <3> QED BY <3>1, <3>2
  <2> QED BY <1>2, <2>5, <2>6, <2>7, <2>8 DEF w
<1> QED BY <1>1, <1>2

\* A timer that does not run is started.
LEMMA StartedTimer ==
    ASSUME NEW S, NEW q \in Seq(S), NEW t \in S, IsInjective(q), t \notin ToSet(q)
    PROVE  /\ Append(q, t) \in Seq(S)
           /\ IsInjective(Append(q, t))
           /\ ToSet(Append(q, t)) = ToSet(q) \cup {t}
           /\ Len(Append(q, t)) = Len(q) + 1
           /\ Last(Append(q, t)) = t
<1>0. PICK w : w = Append(q, t)
  OBVIOUS
<1>1. /\ w \in Seq(S)
      /\ Len(w) = Len(q) + 1
      /\ \A i \in 1..Len(q) : w[i] = q[i]
      /\ w[Len(q) + 1] = t
  BY <1>0
<1>2. \A i \in 1..Len(q) : q[i] # t
  BY InToSet
<1>3. IsInjective(w)
  BY <1>1, <1>2 DEF IsInjective
<1>4. ToSet(w) = ToSet(q) \cup {t}
  <2>1. \A x : x \in ToSet(w) <=> \E i \in 1..Len(w) : w[i] = x
    BY <1>1, InToSet
  <2>2. \A x : x \in ToSet(q) <=> \E i \in 1..Len(q) : q[i] = x
    BY InToSet
  <2> QED BY <1>1, <2>1, <2>2
<1>5. Last(w) = t
  BY <1>1 DEF Last
<1> QED BY <1>0, <1>1, <1>3, <1>4, <1>5

----------------------------------------------------------------------------
(* The methods. A timer other than that of a reply is ConnectTimer or      *)
(* UserTimer.                                                              *)

OwnTimers == {ConnectTimer, UserTimer}

\* The fields of a client.
LEMMA ClientFields ==
    ASSUME NEW R, NEW c \in ClientType(R)
    PROVE  /\ c.timers \in Seq(Timers)
           /\ c.pending \subseteq R
           /\ c.dropped \subseteq R
           /\ c.sent \subseteq Ids
           /\ Running(c) \subseteq Timers
           /\ Len(c.timers) \in Nat
<1>1. c.timers \in Seq(Timers)
  BY DEF ClientType
<1>2. ToSet(c.timers) \subseteq Timers
  BY <1>1, InToSet
<1> QED BY <1>1, <1>2 DEF ClientType, Running

\* A change of the queue only.
LEMMA NewTimers ==
    ASSUME NEW R, NEW c \in ClientType(R), NEW q \in Seq(Timers)
    PROVE  LET d == [c EXCEPT !.timers = q]
           IN  d \in ClientType(R) /\ d.timers = q /\ SameButTimers(c, d)
  BY DEF ClientType, SameButTimers

\* A timer of another kind than that of a reply stops.
LEMMA StopTimerSound ==
    ASSUME NEW R, NEW c, Sound(c, R), NEW t \in OwnTimers
    PROVE  /\ Sound(StopTimer(c, t), R)
           /\ SameButTimers(c, StopTimer(c, t))
           /\ Running(StopTimer(c, t)) = Running(c) \ {t}
           /\ t \in Running(c) => Len(StopTimer(c, t).timers) = Len(c.timers) - 1
           /\ t \notin Running(c) => StopTimer(c, t).timers = c.timers
<1> DEFINE q == RemoveFirst(c.timers, t)
           d == StopTimer(c, t)
<1>1. c \in ClientType(R) /\ c.timers \in Seq(Timers) /\ IsInjective(c.timers)
  BY ClientFields DEF Sound, Queue
<1>2. /\ q \in Seq(Timers)
      /\ IsInjective(q)
      /\ ToSet(q) = ToSet(c.timers) \ {t}
      /\ t \in ToSet(c.timers) => Len(q) = Len(c.timers) - 1
      /\ t \notin ToSet(c.timers) => q = c.timers
  BY <1>1, StoppedTimer
<1>3. d = [c EXCEPT !.timers = q]
  BY DEF StopTimer
<1> HIDE DEF q, d
<1>4. d \in ClientType(R) /\ d.timers = q /\ SameButTimers(c, d)
  BY <1>1, <1>2, <1>3, NewTimers
<1>5. t \notin Ids
  BY OutstandingAssumption DEF OwnTimers, Ids, ConnectTimer, UserTimer
<1>6. Queue(d)
  BY <1>2, <1>4, <1>5 DEF Sound, Queue, SameButTimers, Running, Outstanding
<1> QED BY <1>2, <1>4, <1>6 DEF Sound, Running, d

\* A timer of another kind than that of a reply starts, or starts anew.
LEMMA StartTimerSound ==
    ASSUME NEW R, NEW c, Sound(c, R), NEW t \in OwnTimers
    PROVE  /\ Sound(StartTimer(c, t), R)
           /\ SameButTimers(c, StartTimer(c, t))
           /\ Running(StartTimer(c, t)) = Running(c) \cup {t}
           /\ t \in Running(c) => Len(StartTimer(c, t).timers) = Len(c.timers)
           /\ t \notin Running(c) => Len(StartTimer(c, t).timers) = Len(c.timers) + 1
           /\ Last(StartTimer(c, t).timers) = t
<1> DEFINE q == RemoveFirst(c.timers, t)
           a == Append(q, t)
           d == StartTimer(c, t)
<1>1. /\ c \in ClientType(R)
      /\ c.timers \in Seq(Timers)
      /\ IsInjective(c.timers)
      /\ Len(c.timers) \in Nat
  BY ClientFields DEF Sound, Queue
<1>2. t \in Timers /\ t \notin Ids
  BY OutstandingAssumption DEF OwnTimers, Timers, Ids, ConnectTimer, UserTimer
<1>3. /\ q \in Seq(Timers)
      /\ IsInjective(q)
      /\ ToSet(q) = ToSet(c.timers) \ {t}
      /\ t \in ToSet(c.timers) => Len(q) = Len(c.timers) - 1
      /\ t \notin ToSet(c.timers) => q = c.timers
  BY <1>1, StoppedTimer
<1>4. d = [c EXCEPT !.timers = a]
  BY DEF StartTimer
<1> HIDE DEF q, d
<1>5. /\ a \in Seq(Timers)
      /\ IsInjective(a)
      /\ ToSet(a) = ToSet(c.timers) \cup {t}
      /\ Len(a) = Len(q) + 1
      /\ Last(a) = t
  BY <1>2, <1>3, StartedTimer
<1> HIDE DEF a
<1>6. d \in ClientType(R) /\ d.timers = a /\ SameButTimers(c, d)
  BY <1>1, <1>4, <1>5, NewTimers
<1>7. Queue(d)
  BY <1>2, <1>5, <1>6 DEF Sound, Queue, SameButTimers, Running, Outstanding
<1>8. /\ t \in ToSet(c.timers) => Len(a) = Len(c.timers)
      /\ t \notin ToSet(c.timers) => Len(a) = Len(c.timers) + 1
  <2> DEFINE n == Len(c.timers)
             m == Len(q)
  <2>1. n \in Nat /\ (t \in ToSet(c.timers) => m = n - 1)
    BY <1>1, <1>3
  <2>2. t \notin ToSet(c.timers) => m = n
    BY <1>3
  <2> HIDE DEF n, m
  <2>3. /\ t \in ToSet(c.timers) => m + 1 = n
        /\ t \notin ToSet(c.timers) => m + 1 = n + 1
    BY <2>1, <2>2
  <2> QED BY <1>5, <2>3 DEF n, m
<1> QED BY <1>5, <1>6, <1>7, <1>8 DEF Sound, Running, d

\* The reply r of the client c has finished in d.
HasFinished(c, d, r) ==
    /\ d.socket = c.socket
    /\ d.closing = c.closing
    /\ d.pending = c.pending \ {r}
    /\ d.dropped = c.dropped \ {r}
    /\ d.sent = c.sent \ {r.id}
    /\ Running(d) = Running(c) \ {r.id}
    /\ Len(d.timers) = Len(c.timers) - 1

\* A reply finishes: it is forgotten, and its timer stops.
LEMMA FinishedSound ==
    ASSUME NEW R, NEW c, Sound(c, R), NEW r \in Outstanding(c), r.id \in Ids
    PROVE  Sound(Finished(c, r), R) /\ HasFinished(c, Finished(c, r), r)
<1> DEFINE q == RemoveFirst(c.timers, r.id)
           d == Finished(c, r)
<1>1. /\ c \in ClientType(R)
      /\ c.timers \in Seq(Timers)
      /\ IsInjective(c.timers)
      /\ c.pending \subseteq R /\ c.dropped \subseteq R /\ c.sent \subseteq Ids
  BY ClientFields DEF Sound, Queue
<1>2. r.id \in ToSet(c.timers)
  BY DEF Sound, Queue, Running
<1>3. /\ q \in Seq(Timers)
      /\ IsInjective(q)
      /\ ToSet(q) = ToSet(c.timers) \ {r.id}
      /\ Len(q) = Len(c.timers) - 1
  BY <1>1, <1>2, StoppedTimer
<1>4. d = [c EXCEPT !.timers = q, !.pending = c.pending \ {r},
                    !.dropped = c.dropped \ {r}, !.sent = c.sent \ {r.id}]
  BY <1>1 DEF Finished, StopTimer, ClientType
<1> HIDE DEF q, d
<1>5. /\ d \in ClientType(R)
      /\ d.socket = c.socket /\ d.closing = c.closing
      /\ d.timers = q
      /\ d.pending = c.pending \ {r}
      /\ d.dropped = c.dropped \ {r}
      /\ d.sent = c.sent \ {r.id}
  BY <1>1, <1>3, <1>4 DEF ClientType
<1>6. Outstanding(d) = Outstanding(c) \ {r}
  BY <1>5 DEF Outstanding
<1>7. Queue(d)
  <2>1. \A x, y \in Outstanding(c) : x.id = y.id => x = y
    BY DEF Sound, Queue
  <2>2. Running(d) \cap Ids = {x.id : x \in Outstanding(d)}
    <3>1. Running(d) = Running(c) \ {r.id}
      BY <1>3, <1>5 DEF Running
    <3>2. Running(c) \cap Ids = {x.id : x \in Outstanding(c)}
      BY DEF Sound, Queue
    <3> QED BY <1>6, <2>1, <3>1, <3>2
  <2>3. d.sent \subseteq {x.id : x \in Outstanding(d)}
    <3>1. c.sent \subseteq {x.id : x \in Outstanding(c)}
      BY DEF Sound, Queue
    <3> QED BY <1>5, <1>6, <3>1
  <2> QED BY <1>3, <1>5, <1>6, <2>1, <2>2, <2>3 DEF Queue
<1> QED BY <1>3, <1>5, <1>7 DEF Sound, HasFinished, Running, d

\* Of three identifiers one is free when two timers run.
LEMMA FreshIdExists ==
    ASSUME NEW R, NEW c, Sound(c, R), Len(c.timers) <= 2, MaxOutstanding >= 3
    PROVE  FreshId(c) \in Ids /\ FreshId(c) \notin Running(c)
<1>1. c.timers \in Seq(Timers) /\ Len(c.timers) \in Nat
  BY ClientFields DEF Sound
<1>2. 1 \in Ids /\ 2 \in Ids /\ 3 \in Ids
  BY OutstandingAssumption DEF Ids
<1>3. \A x \in Running(c) : x = c.timers[1] \/ x = c.timers[2]
  BY <1>1, InToSet DEF Running
<1>4. \E n \in Ids : n \notin Running(c)
  BY <1>2, <1>3
<1>5. \A n \in Ids : (\A r \in Outstanding(c) : r.id # n) <=> n \notin Running(c)
  BY DEF Sound, Queue
<1> QED BY <1>4, <1>5 DEF FreshId

NewRequest(c, kind, value) == [id |-> FreshId(c), kind |-> kind, value |-> value]

\* The client d has sent the request r, and is otherwise as c.
HasSent(c, d, r) ==
    /\ r.id \in Ids \ Running(c)
    /\ d.socket = c.socket
    /\ d.closing = c.closing
    /\ d.pending = c.pending \cup {r}
    /\ d.dropped = c.dropped
    /\ d.sent = IF c.socket \in {"Connecting", "Connected"}
                THEN c.sent \cup {r.id} ELSE c.sent
    /\ Running(d) = Running(c) \cup {r.id}
    /\ Len(d.timers) = Len(c.timers) + 1
    /\ Last(d.timers) = r.id

\* A request with a new identifier is sent, and its timer is the last to expire.
LEMMA SendFrameSound ==
    ASSUME NEW R, NEW c, Sound(c, R), Len(c.timers) <= 2, MaxOutstanding >= 3,
           NEW kind, NEW value,
           \A n \in Ids : [id |-> n, kind |-> kind, value |-> value] \in R
    PROVE  /\ Sound(SendFrame(c, kind, value), R)
           /\ HasSent(c, SendFrame(c, kind, value), NewRequest(c, kind, value))
           /\ NewRequest(c, kind, value).kind = kind
<1> DEFINE id   == FreshId(c)
           r    == [id |-> id, kind |-> kind, value |-> value]
           a    == Append(c.timers, id)
           sent == IF c.socket \in {"Connecting", "Connected"} THEN c.sent \cup {id} ELSE c.sent
           d    == SendFrame(c, kind, value)
<1>1. /\ c \in ClientType(R)
      /\ c.timers \in Seq(Timers)
      /\ IsInjective(c.timers)
      /\ c.pending \subseteq R /\ c.dropped \subseteq R /\ c.sent \subseteq Ids
  BY ClientFields DEF Sound, Queue
<1>2. id \in Ids /\ id \notin ToSet(c.timers) /\ id \in Timers
  BY FreshIdExists DEF Running, Timers
<1>3. RemoveFirst(c.timers, id) = c.timers
  BY <1>1, <1>2, StoppedTimer
<1>4. d = [c EXCEPT !.timers = a, !.pending = c.pending \cup {r}, !.sent = sent]
  BY <1>1, <1>3 DEF SendFrame, StartTimer, ClientType
<1>5. r \in R /\ r.id = id
  BY <1>2
<1> HIDE DEF id, r, d
<1>6. /\ a \in Seq(Timers)
      /\ IsInjective(a)
      /\ ToSet(a) = ToSet(c.timers) \cup {id}
      /\ Len(a) = Len(c.timers) + 1
      /\ Last(a) = id
  BY <1>1, <1>2, StartedTimer
<1>7. sent \subseteq Ids /\ sent \subseteq c.sent \cup {id}
  BY <1>1, <1>2
<1> HIDE DEF a, sent
<1>8. /\ d \in ClientType(R)
      /\ d.socket = c.socket /\ d.closing = c.closing
      /\ d.timers = a
      /\ d.pending = c.pending \cup {r}
      /\ d.dropped = c.dropped
      /\ d.sent = sent
  BY <1>1, <1>4, <1>5, <1>6, <1>7 DEF ClientType
<1>9. Outstanding(d) = Outstanding(c) \cup {r}
  BY <1>8 DEF Outstanding
<1>10. Queue(d)
  <2>1. Running(c) \cap Ids = {x.id : x \in Outstanding(c)}
    BY DEF Sound, Queue
  <2>2. Running(d) = Running(c) \cup {id} /\ id \notin Running(c)
    BY <1>2, <1>6, <1>8 DEF Running
  <2>3. \A x, y \in Outstanding(c) : x.id = y.id => x = y
    BY DEF Sound, Queue
  <2>4. \A x \in Outstanding(c) : x.id # id
    BY <2>1, <2>2
  <2>5. \A x, y \in Outstanding(d) : x.id = y.id => x = y
    BY <1>5, <1>9, <2>3, <2>4
  <2>6. Running(d) \cap Ids = {x.id : x \in Outstanding(d)}
    BY <1>2, <1>5, <1>9, <2>1, <2>2
  <2>7. d.sent \subseteq {x.id : x \in Outstanding(d)}
    <3>1. c.sent \subseteq {x.id : x \in Outstanding(c)}
      BY DEF Sound, Queue
    <3> QED BY <1>5, <1>7, <1>8, <1>9, <3>1
  <2> QED BY <1>6, <1>8, <2>5, <2>6, <2>7 DEF Queue
<1>11. HasSent(c, d, r)
  BY <1>2, <1>5, <1>6, <1>8 DEF HasSent, Running, sent
<1>12. r.kind = kind /\ r = NewRequest(c, kind, value)
  BY DEF r, id, NewRequest
<1> QED BY <1>8, <1>10, <1>11, <1>12 DEF Sound, d

\* An attempt to connect adds the connect timer, which does not run yet.
LEMMA ConnectToServerSound ==
    ASSUME NEW R, NEW c, Sound(c, R), ConnectTimer \notin Running(c)
    PROVE  LET d == ConnectToServer(c)
           IN  /\ Sound(d, R)
               /\ d.socket = IF c.socket = "Unconnected" THEN "Connecting" ELSE c.socket
               /\ d.closing = IF c.socket = "Unconnected" THEN FALSE ELSE c.closing
               /\ d.pending = c.pending
               /\ d.dropped = c.dropped
               /\ d.sent = c.sent
               /\ Running(d) = Running(c) \cup {ConnectTimer}
               /\ Len(d.timers) = Len(c.timers) + 1
<1> DEFINE a  == Append(c.timers, ConnectTimer)
           so == IF c.socket = "Unconnected" THEN "Connecting" ELSE c.socket
           cl == IF c.socket = "Unconnected" THEN FALSE ELSE c.closing
           d  == ConnectToServer(c)
<1>1. /\ c \in ClientType(R)
      /\ c.timers \in Seq(Timers)
      /\ IsInjective(c.timers)
      /\ c.socket \in SocketState /\ c.closing \in BOOLEAN
  BY ClientFields DEF Sound, Queue, ClientType
<1>2. ConnectTimer \in Timers /\ ConnectTimer \notin Ids
  BY OutstandingAssumption DEF Timers, Ids, ConnectTimer
<1>3. d = [c EXCEPT !.timers = a, !.closing = cl, !.socket = so]
  BY <1>1 DEF ConnectToServer, ClientType
<1>4. so \in SocketState /\ cl \in BOOLEAN
  BY <1>1 DEF SocketState
<1> HIDE DEF d
<1>5. /\ a \in Seq(Timers)
      /\ IsInjective(a)
      /\ ToSet(a) = ToSet(c.timers) \cup {ConnectTimer}
      /\ Len(a) = Len(c.timers) + 1
  BY <1>1, <1>2, StartedTimer DEF Running
<1> HIDE DEF a, so, cl
<1>6. /\ d \in ClientType(R)
      /\ d.socket = so /\ d.closing = cl
      /\ d.timers = a
      /\ d.pending = c.pending /\ d.dropped = c.dropped /\ d.sent = c.sent
  BY <1>1, <1>3, <1>4, <1>5 DEF ClientType
<1>7. Queue(d)
  BY <1>2, <1>5, <1>6 DEF Sound, Queue, Running, Outstanding
<1> QED BY <1>5, <1>6, <1>7 DEF Sound, Running, d, so, cl

\* The socket is gone: nothing will be answered, and the timers run on.
LEMMA SocketClosedSound ==
    ASSUME NEW R, NEW c, Sound(c, R)
    PROVE  LET d == SocketClosed(c)
           IN  /\ Sound(d, R)
               /\ d.socket = "Unconnected" /\ d.closing = FALSE /\ d.sent = {}
               /\ d.pending = c.pending /\ d.dropped = c.dropped
               /\ d.timers = c.timers
<1> DEFINE d == SocketClosed(c)
<1>1. c \in ClientType(R) /\ Queue(c)
  BY DEF Sound
<1>2. /\ d \in ClientType(R)
      /\ d.socket = "Unconnected" /\ d.closing = FALSE /\ d.sent = {}
      /\ d.pending = c.pending /\ d.dropped = c.dropped
      /\ d.timers = c.timers
  BY <1>1 DEF SocketClosed, ClientType, SocketState
<1> HIDE DEF d
<1>3. Queue(d)
  BY <1>1, <1>2 DEF Queue, Running, Outstanding
<1> QED BY <1>2, <1>3 DEF Sound, d

\* Pending replies are forgotten, yet their timers run on.
LEMMA PendingClearedSound ==
    ASSUME NEW R, NEW c, Sound(c, R)
    PROVE  LET d == PendingCleared(c)
           IN  /\ Sound(d, R)
               /\ d.socket = c.socket /\ d.closing = c.closing /\ d.sent = c.sent
               /\ d.pending = {} /\ d.dropped = c.dropped \cup c.pending
               /\ d.timers = c.timers
<1> DEFINE d == PendingCleared(c)
<1>1. c \in ClientType(R) /\ Queue(c)
  BY DEF Sound
<1>2. /\ d \in ClientType(R)
      /\ d.socket = c.socket /\ d.closing = c.closing /\ d.sent = c.sent
      /\ d.pending = {} /\ d.dropped = c.dropped \cup c.pending
      /\ d.timers = c.timers
  BY <1>1 DEF PendingCleared, ClientType
<1> HIDE DEF d
<1>3. Queue(d)
  <2>1. Outstanding(d) = Outstanding(c)
    BY <1>2 DEF Outstanding
  <2> QED BY <1>1, <1>2, <2>1 DEF Queue, Running
<1> QED BY <1>2, <1>3 DEF Sound, d

\* The connect timer expires.
LEMMA ConnectTimeoutSound ==
    ASSUME NEW R, NEW c, Sound(c, R)
    PROVE  LET d == ConnectTimeout(c)
           IN  /\ Sound(d, R)
               /\ d.socket = IF c.socket = "Connecting" THEN "Connecting" ELSE "Unconnected"
               /\ d.closing = (c.socket = "Connecting")
               /\ d.sent = IF c.socket = "Connecting" THEN c.sent ELSE {}
               /\ d.pending = c.pending /\ d.dropped = c.dropped
               /\ d.timers = StopTimer(c, ConnectTimer).timers
<1> DEFINE e == StopTimer(c, ConnectTimer)
<1>1. Sound(e, R) /\ SameButTimers(c, e)
  BY StopTimerSound DEF OwnTimers
<1> HIDE DEF e
<1>2. CASE c.socket = "Connecting"
  <2> DEFINE d == [e EXCEPT !.closing = TRUE]
  <2>1. ConnectTimeout(c) = d
    BY <1>2 DEF ConnectTimeout, e
  <2>2. e \in ClientType(R) /\ Queue(e)
    BY <1>1 DEF Sound
  <2>3. /\ d \in ClientType(R)
        /\ d.closing = TRUE /\ d.socket = e.socket /\ d.sent = e.sent
        /\ d.pending = e.pending /\ d.dropped = e.dropped
        /\ d.timers = e.timers
    BY <2>2 DEF ClientType
  <2> HIDE DEF d
  <2>4. Queue(d)
    BY <2>2, <2>3 DEF Queue, Running, Outstanding
  <2> QED BY <1>1, <1>2, <2>1, <2>3, <2>4 DEF Sound, SameButTimers, e
<1>3. CASE c.socket # "Connecting"
  <2>1. ConnectTimeout(c) = SocketClosed(e)
    BY <1>3 DEF ConnectTimeout, e
  <2>2. /\ Sound(SocketClosed(e), R)
        /\ SocketClosed(e).socket = "Unconnected" /\ SocketClosed(e).closing = FALSE
        /\ SocketClosed(e).sent = {} /\ SocketClosed(e).pending = e.pending
        /\ SocketClosed(e).dropped = e.dropped /\ SocketClosed(e).timers = e.timers
    BY <1>1, SocketClosedSound
  <2>3. e.pending = c.pending /\ e.dropped = c.dropped
    BY <1>1 DEF SameButTimers
  <2> QED BY <1>3, <2>1, <2>2, <2>3 DEF e
<1> QED BY <1>2, <1>3

\* The socket is connected, and the connect timer stops.
LEMMA SocketConnectedSound ==
    ASSUME NEW R, NEW c, Sound(c, R)
    PROVE  LET d == SocketConnected(c)
           IN  /\ Sound(d, R)
               /\ d.socket = "Connected"
               /\ d.closing = c.closing /\ d.sent = c.sent
               /\ d.pending = c.pending /\ d.dropped = c.dropped
               /\ d.timers = StopTimer(c, ConnectTimer).timers
<1> DEFINE e == StopTimer(c, ConnectTimer)
           d == [e EXCEPT !.socket = "Connected"]
<1>1. Sound(e, R) /\ SameButTimers(c, e)
  BY StopTimerSound DEF OwnTimers
<1>2. SocketConnected(c) = d
  BY DEF SocketConnected
<1> HIDE DEF e
<1>3. e \in ClientType(R) /\ Queue(e)
  BY <1>1 DEF Sound
<1>4. /\ d \in ClientType(R)
      /\ d.socket = "Connected" /\ d.closing = e.closing /\ d.sent = e.sent
      /\ d.pending = e.pending /\ d.dropped = e.dropped
      /\ d.timers = e.timers
  BY <1>3 DEF ClientType, SocketState
<1> HIDE DEF d
<1>5. Queue(d)
  BY <1>3, <1>4 DEF Queue, Running, Outstanding
<1> QED BY <1>1, <1>2, <1>4, <1>5 DEF Sound, SameButTimers, e

----------------------------------------------------------------------------
(* Short queues.                                                           *)

\* A queue without timers: no reply is outstanding.
LEMMA EmptyQueue ==
    ASSUME NEW R, NEW c, Sound(c, R), Len(c.timers) = 0
    PROVE  Running(c) = {} /\ Outstanding(c) = {} /\ c.sent = {}
<1>1. c.timers \in Seq(Timers)
  BY ClientFields DEF Sound
<1>2. Running(c) = {}
  BY <1>1, InToSet DEF Running
<1>3. {r.id : r \in Outstanding(c)} = {}
  BY <1>2 DEF Sound, Queue
<1>4. Outstanding(c) = {}
  BY <1>3
<1> QED BY <1>2, <1>3, <1>4 DEF Sound, Queue

\* A queue with one timer: that of the one reply outstanding, or there is none.
LEMMA SingleTimer ==
    ASSUME NEW R, NEW c, Sound(c, R), Len(c.timers) <= 1, NEW t \in Running(c)
    PROVE  /\ Running(c) = {t}
           /\ Len(c.timers) = 1
           /\ t \notin Ids => Outstanding(c) = {} /\ c.sent = {}
           /\ \A r \in Outstanding(c) : r.id = t /\ Outstanding(c) = {r}
<1>1. c.timers \in Seq(Timers) /\ Len(c.timers) \in Nat
  BY ClientFields DEF Sound
<1>2. PICK i \in 1..Len(c.timers) : c.timers[i] = t
  BY <1>1, InToSet DEF Running
<1>3. Len(c.timers) = 1 /\ i = 1
  <2> DEFINE n == Len(c.timers)
  <2>1. n \in Nat /\ n <= 1 /\ i \in 1..n
    BY <1>1
  <2> HIDE DEF n
  <2>2. n = 1 /\ i = 1
    BY <2>1
  <2> QED BY <2>2 DEF n
<1>4. \A x \in Running(c) : x = t
  BY <1>1, <1>2, <1>3, InToSet DEF Running
<1>5. Running(c) = {t}
  BY <1>4
<1>6. ASSUME t \notin Ids PROVE Outstanding(c) = {} /\ c.sent = {}
  <2>1. {r.id : r \in Outstanding(c)} = {}
    BY <1>5, <1>6 DEF Sound, Queue
  <2>2. Outstanding(c) = {}
    BY <2>1
  <2> QED BY <2>1, <2>2 DEF Sound, Queue
<1>7. \A r \in Outstanding(c) : r.id = t
  BY <1>5 DEF Sound, Queue
<1>8. \A r \in Outstanding(c) : Outstanding(c) = {r}
  BY <1>7 DEF Sound, Queue
<1> QED BY <1>3, <1>5, <1>6, <1>7, <1>8

\* The timer that expires next runs; it is the only one if it is the last, too.
LEMMA HeadTimer ==
    ASSUME NEW R, NEW c, Sound(c, R), NEW t, Expires(c, t)
    PROVE  /\ t \in Running(c)
           /\ Last(c.timers) = t => Len(c.timers) = 1
<1>1. c.timers \in Seq(Timers) /\ Len(c.timers) \in Nat /\ IsInjective(c.timers)
  BY ClientFields DEF Sound, Queue
<1>2. c.timers # <<>> /\ c.timers[1] = t
  BY <1>1 DEF Expires
<1>3. 1 \in 1..Len(c.timers) /\ Len(c.timers) \in 1..Len(c.timers)
  BY <1>1, <1>2
<1>4. Last(c.timers) = t => 1 = Len(c.timers)
  <2> DEFINE n == Len(c.timers)
             q == c.timers
  <2>1. DOMAIN q = 1..n /\ 1 \in 1..n /\ n \in 1..n /\ IsInjective(q) /\ q[1] = t
    BY <1>1, <1>2, <1>3
  <2> HIDE DEF n, q
  <2>2. q[n] = t => 1 = n
    BY <2>1 DEF IsInjective
  <2> QED BY <2>2 DEF n, q, Last
<1> QED BY <1>1, <1>2, <1>3, <1>4, InToSet DEF Running

\* A queue is not shorter before a timer stops, and not empty when one runs.
LEMMA QueueLengths ==
    ASSUME NEW R, NEW c, Sound(c, R)
    PROVE  /\ Len(c.timers) \in Nat
           /\ \A t \in OwnTimers : Len(StopTimer(c, t).timers) \in 0..Len(c.timers)
           /\ Len(c.timers) = 0 <=> Running(c) = {}
<1>1. Len(c.timers) \in Nat /\ c.timers \in Seq(Timers)
  BY ClientFields DEF Sound
<1>2. Len(c.timers) = 0 => Running(c) = {}
  BY EmptyQueue
<1>3. Len(c.timers) # 0 => c.timers[1] \in Running(c)
  BY <1>1, InToSet DEF Running
<1>4. ASSUME NEW t \in OwnTimers PROVE Len(StopTimer(c, t).timers) \in 0..Len(c.timers)
  <2> DEFINE m == Len(StopTimer(c, t).timers)
             n == Len(c.timers)
  <2>1. StopTimer(c, t).timers \in Seq(Timers)
    BY StopTimerSound, ClientFields DEF Sound
  <2>2. m \in Nat
    BY <2>1
  <2>3. m = n - 1 \/ m = n
    BY StopTimerSound
  <2>4. n \in Nat
    BY <1>1
  <2> HIDE DEF m, n
  <2>5. m \in 0..n
    BY <2>2, <2>3, <2>4
  <2> QED BY <2>5 DEF m, n
<1> QED BY <1>1, <1>2, <1>3, <1>4

\* A timer that starts, or starts anew, is the last of a queue without it.
LEMMA RestartedQueue ==
    ASSUME NEW R, NEW c, Sound(c, R), NEW t \in OwnTimers
    PROVE  Len(StartTimer(c, t).timers) = Len(StopTimer(c, t).timers) + 1
<1> DEFINE n == Len(c.timers)
           m == Len(StopTimer(c, t).timers)
           k == Len(StartTimer(c, t).timers)
<1>1. n \in Nat
  BY QueueLengths
<1>2. CASE t \in Running(c)
  <2>1. m = n - 1 /\ k = n
    BY <1>2, StopTimerSound, StartTimerSound
  <2> HIDE DEF n, m, k
  <2>2. k = m + 1
    BY <1>1, <2>1
  <2> QED BY <2>2 DEF k, m
<1>3. CASE t \notin Running(c)
  <2>1. StopTimer(c, t).timers = c.timers /\ k = n + 1
    BY <1>3, StopTimerSound, StartTimerSound
  <2> QED BY <2>1
<1> QED BY <1>2, <1>3

\* The queue without a timer depends on the queue alone.
LEMMA SameQueue ==
    ASSUME NEW R, NEW c, NEW d, Sound(c, R), Sound(d, R), NEW t,
           c.timers = d.timers
    PROVE  StopTimer(c, t).timers = StopTimer(d, t).timers
<1>1. /\ StopTimer(c, t).timers = RemoveFirst(c.timers, t)
      /\ StopTimer(d, t).timers = RemoveFirst(d.timers, t)
  BY DEF Sound, ClientType, StopTimer
<1> QED BY <1>1

----------------------------------------------------------------------------
(* A user of a client with the members v, and the client.                  *)

Pair(v, c) == [u |-> v, c |-> c]

\* A handler replaces one part of a pair.
LEMMA PairUpdate ==
    \A v, c, w : /\ [Pair(v, c) EXCEPT !.u = w] = Pair(w, c)
                 /\ [Pair(v, c) EXCEPT !.c = w] = Pair(v, w)
                 /\ Pair(v, c).u = v
                 /\ Pair(v, c).c = c
  BY DEF Pair
=============================================================================
