--------------------------- MODULE InverterProofs ---------------------------
(***************************************************************************)
(* Theorems about what the program keeps of an inverter: that the mediator *)
(* runs the inverter that was detected (InverterMediator), for any set of  *)
(* identities and any devices detection may report, how the energy of the  *)
(* inverter is shared out over its phases (DataProcessor), for any weights *)
(* and any length of a run, and that the copies of its settings agree      *)
(* (InverterSettings), for any names and any number of messages under way. *)
(* The three have no state in common.                                      *)
(*                                                                         *)
(* InverterFollowsDevice is not inductive as it stands: a device that is   *)
(* met for the first time sets mDeviceInfo without touching mInverter,     *)
(* which is safe since only an inverter with a mediator runs (Owned).      *)
(*                                                                         *)
(* That nothing is lost or gained when energy is shared out is arithmetic  *)
(* of rationals. It is done here on numerators over a common denominator   *)
(* (Value); that reducing a fraction does not change its value rests on    *)
(* Euclid's algorithm, which is a recursive function, dividing both        *)
(* arguments.                                                              *)
(*                                                                         *)
(* NamesAgree speaks of a quiet moment only. What leads there says, of any *)
(* moment, that what localsettings holds is the last the program will hear *)
(* (CopiesFollow), and that a name that differs from the local copy is     *)
(* still on its way (RenameUnderWay).                                      *)
(***************************************************************************)
EXTENDS InverterMediator, DataProcessor, InverterSettings, WellFoundedInduction, TLAPS

----------------------------------------------------------------------------
(* The mediators.                                                          *)

\* An inverter runs only under its mediator.
Owned == \A u \in UniqueId : Running(u) # {} => u \in Mediators

\* The inverter i is one for the device d.
Follows(i, d) ==
    /\ i.hostName = d.hostName
    /\ i.port = d.port
    /\ i.retrievalMode = d.retrievalMode

Inverters == DeviceInfo \cup {NoInverter}

IInv ==
    /\ TypeOK
    /\ Owned
    /\ InverterFollowsDevice

----------------------------------------------------------------------------
\* TypeOK names the devices twice.
LEMMA Devices ==
    /\ DeviceInfos \subseteq DeviceInfo
    /\ DeviceInfos \cup DeviceInfo \cup {NoInverter} = Inverters
  BY DeviceAssumption DEF Inverters

\* The mediators after one has been added.
LEMMA MediatorsAppend ==
    ASSUME NEW s \in Seq(UniqueId), NEW u \in UniqueId
    PROVE  /\ Append(s, u) \in Seq(UniqueId)
           /\ Range(s) \subseteq Range(Append(s, u))
           /\ u \in Range(Append(s, u))
<1>1. /\ Append(s, u) \in Seq(UniqueId)
      /\ Len(Append(s, u)) = Len(s) + 1
      /\ \A i \in 1..Len(s) : Append(s, u)[i] = s[i]
      /\ Append(s, u)[Len(s) + 1] = u
  OBVIOUS
<1>2. DOMAIN s = 1..Len(s) /\ DOMAIN Append(s, u) = 1..Len(s) + 1
  OBVIOUS
<1> QED BY <1>1, <1>2 DEF Range

\* processNewInverter makes an inverter for the device that was found, if any.
LEMMA ProcessedFollows ==
    ASSUME TypeOK, InverterFollowsDevice, NEW info \in DeviceInfos,
           NEW registered \in BOOLEAN
    PROVE  /\ ProcessNewInverter(info, registered) \in Inverters
           /\ ProcessNewInverter(info, registered) # NoInverter
                => Follows(ProcessNewInverter(info, registered), info)
<1> DEFINE u == info.uniqueId
           i == mInverter[u]
           moved == [i EXCEPT !.hostName = info.hostName, !.port = info.port]
<1>1. info \in DeviceInfo /\ u \in UniqueId
  BY Devices DEF DeviceInfo
<1>2. i \in Inverters
  BY <1>1, Devices DEF TypeOK
<1>3. CASE i # NoInverter /\ mDeviceInfo[u].retrievalMode = info.retrievalMode
  <2>1. i \in DeviceInfo /\ i.retrievalMode = info.retrievalMode
    BY <1>1, <1>2, <1>3 DEF Inverters, InverterFollowsDevice
  <2>2. moved \in DeviceInfo /\ Follows(moved, info)
    BY <1>1, <2>1 DEF DeviceInfo, Follows
  <2>3. ProcessNewInverter(info, registered) = moved
    BY <1>3 DEF ProcessNewInverter
  <2> QED BY <2>2, <2>3 DEF Inverters
<1>4. CASE ~(i # NoInverter /\ mDeviceInfo[u].retrievalMode = info.retrievalMode)
  <2>1. ProcessNewInverter(info, registered) \in {info, NoInverter}
    BY <1>4 DEF ProcessNewInverter, CreateInverter
  <2> QED BY <1>1, <2>1 DEF Inverters, Follows
<1> QED BY <1>3, <1>4

----------------------------------------------------------------------------
(* The mediators: the inductive invariant.                                 *)

\* There are no mediators at first.
LEMMA InitInv == Init => IInv
<1> SUFFICES ASSUME Init PROVE IInv
  OBVIOUS
<1>1. TypeOK
  <2>1. mMediators \in Seq(UniqueId)
    BY DEF Init
  <2>2. /\ mDeviceInfo \in [UniqueId -> DeviceInfos \cup {NoDevice}]
        /\ mInverter \in [UniqueId -> DeviceInfos \cup DeviceInfo \cup {NoInverter}]
    BY DEF Init, NoDevice
  <2>3. /\ items \in [UniqueId -> {"requested", "isActive", "initialized"}]
        /\ store \in [UniqueId -> [isActive : BOOLEAN, multiPhase : BOOLEAN]]
        /\ overwritten \in [UniqueId -> DeviceInfos \cup DeviceInfo \cup {NoInverter}]
        /\ scanRequested \in BOOLEAN
    BY DEF Init
  <2> QED BY <2>1, <2>2, <2>3 DEF TypeOK
<1>2. Owned /\ InverterFollowsDevice
  BY DEF Init, Owned, Running, InverterFollowsDevice
<1> QED BY <1>1, <1>2 DEF IInv

\* A detected device, which may be new, may move or may displace others.
LEMMA FoundInv ==
    ASSUME IInv, NEW info \in DeviceInfos, NEW registered \in BOOLEAN,
           InverterFound(info, registered)
    PROVE  IInv'
<1> DEFINE u == info.uniqueId
           made == ProcessNewInverter(info, registered)
<1>0. TypeOK /\ Owned /\ InverterFollowsDevice
  BY DEF IInv
<1>1. info \in DeviceInfo /\ u \in UniqueId
  BY Devices DEF DeviceInfo
<1>2. /\ mDeviceInfo' = [mDeviceInfo EXCEPT ![u] = info]
      /\ \A m \in UniqueId :
            mInverter'[m] = IF m = u /\ u \in Mediators THEN made
                            ELSE IF m \in Displaced(info) THEN NoInverter
                            ELSE mInverter[m]
      /\ mInverter' \in [UniqueId -> {mInverter'[m] : m \in UniqueId}]
      /\ mMediators' = IF u \in Mediators THEN mMediators ELSE Append(mMediators, u)
      /\ UNCHANGED <<items, store, overwritten, scanRequested>>
  BY DEF InverterFound
<1>3. made \in Inverters /\ (made # NoInverter => Follows(made, info))
  BY <1>0, ProcessedFollows
<1>4. mMediators' \in Seq(UniqueId) /\ Mediators \subseteq Mediators'
  BY <1>0, <1>1, <1>2, MediatorsAppend DEF TypeOK, Mediators
<1>5. \A m \in UniqueId : mInverter[m] \in Inverters /\ mInverter'[m] \in Inverters
  BY <1>0, <1>2, <1>3, Devices DEF TypeOK, Inverters
<1>6. TypeOK'
  <2>1. mDeviceInfo' \in [UniqueId -> DeviceInfos \cup {NoDevice}]
    BY <1>0, <1>1, <1>2 DEF TypeOK
  <2>2. mInverter' \in [UniqueId -> Inverters]
    BY <1>2, <1>5
  <2> QED BY <1>0, <1>2, <1>4, <2>1, <2>2, Devices DEF TypeOK
<1>7. Owned'
  <2> SUFFICES ASSUME NEW m \in UniqueId, Running(m)' # {} PROVE m \in Mediators'
    BY DEF Owned
  <2>1. mInverter'[m] # NoInverter \/ overwritten[m] # NoInverter
    BY <1>2 DEF Running
  <2>2. (m = u /\ u \in Mediators) \/ Running(m) # {}
    BY <1>2, <2>1 DEF Running
  <2> QED BY <1>0, <1>4, <2>2 DEF Owned
<1>8. InverterFollowsDevice'
  <2> SUFFICES ASSUME NEW m \in UniqueId, mInverter'[m] # NoInverter
               PROVE  Follows(mInverter'[m], mDeviceInfo'[m])
    BY DEF InverterFollowsDevice, Follows
  <2>1. CASE m = u
    <3>1. u \in Mediators /\ mInverter'[m] = made
      BY <1>0, <1>1, <1>2, <2>1 DEF Owned, Running
    <3>2. mDeviceInfo'[m] = info
      BY <1>0, <1>1, <1>2, <2>1 DEF TypeOK
    <3> QED BY <1>3, <3>1, <3>2
  <2>2. CASE m # u
    <3>1. mInverter'[m] = mInverter[m] /\ mDeviceInfo'[m] = mDeviceInfo[m]
      BY <1>0, <1>1, <1>2, <2>2 DEF TypeOK
    <3> QED BY <1>0, <3>1 DEF InverterFollowsDevice, Follows
  <2> QED BY <2>1, <2>2
<1> QED BY <1>6, <1>7, <1>8 DEF IInv

\* The settings of an inverter are complete.
LEMMA SettingsInv ==
    ASSUME IInv, NEW u \in UniqueId, NEW registered \in BOOLEAN,
           SettingsInitialized(u, registered)
    PROVE  IInv'
<1>0. TypeOK /\ Owned /\ InverterFollowsDevice
  BY DEF IInv
<1>1. /\ u \in Mediators
      /\ UNCHANGED <<mMediators, mDeviceInfo, scanRequested>>
      /\ items' = [items EXCEPT ![u] = "initialized"]
  BY DEF SettingsInitialized
<1>2. /\ mInverter' \in [UniqueId -> {mInverter'[m] : m \in UniqueId}]
      /\ mInverter'[u] \in {mDeviceInfo[u], NoInverter}
      /\ \A m \in UniqueId \ {u} : mInverter'[m] = mInverter[m]
  BY <1>0 DEF SettingsInitialized, CreateInverter, TypeOK
<1>3. /\ store' \in [UniqueId -> [isActive : BOOLEAN, multiPhase : BOOLEAN]]
      /\ overwritten' \in [UniqueId -> DeviceInfos \cup DeviceInfo \cup {NoInverter}]
  <2> DEFINE multi == store[u].multiPhase \/ mDeviceInfo[u].phaseCount > 1
  <2>1. multi \in BOOLEAN
    OBVIOUS
  <2>2. store' \in {store, [store EXCEPT ![u].multiPhase = multi]}
    BY DEF SettingsInitialized
  <2>3. store' \in [UniqueId -> [isActive : BOOLEAN, multiPhase : BOOLEAN]]
    BY <1>0, <2>1, <2>2 DEF TypeOK
  <2>4. overwritten' \in {overwritten, [overwritten EXCEPT ![u] = mInverter[u]]}
    BY DEF SettingsInitialized
  <2>5. overwritten' \in [UniqueId -> DeviceInfos \cup DeviceInfo \cup {NoInverter}]
    BY <1>0, <2>4 DEF TypeOK
  <2> QED BY <2>3, <2>5
<1>4. TypeOK'
  <2>1. \A m \in UniqueId : mInverter'[m] \in DeviceInfos \cup DeviceInfo \cup {NoInverter}
    BY <1>0, <1>2 DEF TypeOK, NoDevice
  <2>2. mInverter' \in [UniqueId -> DeviceInfos \cup DeviceInfo \cup {NoInverter}]
    BY <1>2, <2>1
  <2> QED BY <1>0, <1>1, <1>3, <2>2 DEF TypeOK
<1>5. Owned'
  <2>1. \A m \in UniqueId \ {u} : overwritten'[m] = overwritten[m]
    BY <1>0 DEF SettingsInitialized, TypeOK
  <2> QED BY <1>0, <1>1, <1>2, <2>1 DEF Owned, Running, Mediators
<1>6. InverterFollowsDevice'
  BY <1>0, <1>1, <1>2 DEF InverterFollowsDevice
<1> QED BY <1>4, <1>5, <1>6 DEF IInv

\* Every action keeps the invariant.
LEMMA NextInv == IInv /\ [Next]_vars => IInv'
<1> SUFFICES ASSUME IInv, [Next]_vars PROVE IInv'
  OBVIOUS
<1>0. TypeOK /\ Owned /\ InverterFollowsDevice
  BY DEF IInv
<1>1. ASSUME NEW info \in DeviceInfos, NEW registered \in BOOLEAN,
             InverterFound(info, registered)
      PROVE  IInv'
  BY <1>1, FoundInv
<1>2. ASSUME NEW u \in UniqueId, IsActiveArrives(u) PROVE IInv'
  BY <1>0, <1>2 DEF IsActiveArrives, IInv, TypeOK, Owned, Running, Mediators,
        InverterFollowsDevice
<1>3. ASSUME NEW u \in UniqueId, NEW registered \in BOOLEAN,
             SettingsInitialized(u, registered)
      PROVE  IInv'
  BY <1>3, SettingsInv
<1>4. ASSUME NEW u \in UniqueId, IsActiveChanged(u) PROVE IInv'
  <2>1. /\ UNCHANGED <<mMediators, mDeviceInfo, items, overwritten>>
        /\ mInverter' \in {mInverter, [mInverter EXCEPT ![u] = NoInverter]}
        /\ scanRequested' \in {scanRequested, TRUE}
    BY <1>4 DEF IsActiveChanged
  <2>2. store' \in [UniqueId -> [isActive : BOOLEAN, multiPhase : BOOLEAN]]
    <3> DEFINE active == ~store[u].isActive
    <3>1. active \in BOOLEAN
      OBVIOUS
    <3>2. store' = [store EXCEPT ![u].isActive = active]
      BY <1>4 DEF IsActiveChanged
    <3> HIDE DEF active
    <3>3. store \in [UniqueId -> [isActive : BOOLEAN, multiPhase : BOOLEAN]]
      BY <1>0 DEF TypeOK
    <3>4. [store[u] EXCEPT !.isActive = active] \in [isActive : BOOLEAN, multiPhase : BOOLEAN]
      <4>1. store[u] \in [isActive : BOOLEAN, multiPhase : BOOLEAN]
        BY <3>3
      <4> QED BY <3>1, <4>1
    <3>5. store' = [store EXCEPT ![u] = [store[u] EXCEPT !.isActive = active]]
      BY <3>2
    <3> QED BY <3>3, <3>4, <3>5
  <2>3. TypeOK'
    BY <1>0, <2>1, <2>2 DEF TypeOK
  <2>4. Owned' /\ InverterFollowsDevice'
    BY <1>0, <2>1 DEF TypeOK, Owned, Running, Mediators, InverterFollowsDevice
  <2> QED BY <2>3, <2>4 DEF IInv
<1>5. ASSUME NEW u \in UniqueId, ConnectionLost(u) PROVE IInv'
  <2>1. TypeOK'
    BY <1>0, <1>5 DEF ConnectionLost, TypeOK
  <2>2. Owned' /\ InverterFollowsDevice'
    BY <1>0, <1>5 DEF ConnectionLost, TypeOK, Owned, Running, Mediators,
          InverterFollowsDevice
  <2> QED BY <2>1, <2>2 DEF IInv
<1>6. ASSUME NEW u \in UniqueId, Crash(u) PROVE IInv'
  <2>1. /\ mDeviceInfo' \in [UniqueId -> DeviceInfos \cup {NoDevice}]
        /\ mInverter' \in [UniqueId -> DeviceInfos \cup DeviceInfo \cup {NoInverter}]
        /\ overwritten' \in [UniqueId -> DeviceInfos \cup DeviceInfo \cup {NoInverter}]
    BY <1>6 DEF Crash, NoDevice
  <2>2. /\ items' \in [UniqueId -> {"requested", "isActive", "initialized"}]
        /\ scanRequested' \in BOOLEAN /\ store' = store
    BY <1>6 DEF Crash
  <2>3. mMediators' \in Seq(UniqueId)
    BY <1>6 DEF Crash
  <2>4. store \in [UniqueId -> [isActive : BOOLEAN, multiPhase : BOOLEAN]]
    BY <1>0 DEF TypeOK
  <2>5. TypeOK'
    BY <2>1, <2>2, <2>3, <2>4 DEF TypeOK
  <2>6. Owned' /\ InverterFollowsDevice'
    BY <1>6 DEF Crash, Owned, Running, InverterFollowsDevice
  <2> QED BY <2>5, <2>6 DEF IInv
<1>7. CASE ScanServed
  BY <1>0, <1>7 DEF ScanServed, IInv, TypeOK, Owned, Running, Mediators,
        InverterFollowsDevice
<1>8. CASE UNCHANGED vars
  BY <1>0, <1>8 DEF vars, IInv, TypeOK, Owned, Running, Mediators, InverterFollowsDevice
<1> QED BY <1>1, <1>2, <1>3, <1>4, <1>5, <1>6, <1>7, <1>8 DEF Next

\* The invariant holds throughout.
LEMMA Invariance == Spec => []IInv
  BY InitInv, NextInv, PTL DEF Spec

----------------------------------------------------------------------------
(* The mediators: theorems.                                                *)

\* Type correctness, whatever devices are detected in whatever order.
THEOREM TypeCorrect == Spec => []TypeOK
<1>1. IInv => TypeOK
  BY DEF IInv
<1> QED BY <1>1, Invariance, PTL

\* An inverter runs, also one that was overwritten, only under a mediator that
\* DBusFronius knows, so that a device found again is offered to its owner.
THEOREM RunningIsOwned == Spec => []Owned
<1>1. IInv => Owned
  BY DEF IInv
<1> QED BY <1>1, Invariance, PTL

\* The inverter of a mediator is asked at the host and port, and by the protocol,
\* that detection last reported, for any number of inverters, hosts and
\* displacements.
THEOREM FollowsDevice == Spec => []InverterFollowsDevice
<1>1. IInv => InverterFollowsDevice
  BY DEF IInv
<1> QED BY <1>1, Invariance, PTL

\* Of an inverter that is switched off nothing runs but what was overwritten.
THEOREM SwitchedOff == Spec => []SwitchedOffNotRunning
<1> DEFINE Off == \A u \in UniqueId : items[u] = "initialized" /\ ~store[u].isActive
                                          => mInverter[u] = NoInverter
<1>1. Init => Off
  BY DEF Init
<1>2. IInv /\ Off /\ [Next]_vars => Off'
  <2> SUFFICES ASSUME IInv, Off, [Next]_vars,
                      NEW m \in UniqueId,
                      items'[m] = "initialized", ~store'[m].isActive
               PROVE  mInverter'[m] = NoInverter
    OBVIOUS
  <2>0. TypeOK /\ Owned
    BY DEF IInv
  <2>1. ASSUME NEW info \in DeviceInfos, NEW registered \in BOOLEAN,
               InverterFound(info, registered)
        PROVE  mInverter'[m] = NoInverter
    <3>1. mInverter[m] = NoInverter /\ ~IsActive(m)
      BY <2>1 DEF InverterFound, IsActive
    <3>2. m = info.uniqueId => ProcessNewInverter(info, registered) = NoInverter
      BY <3>1 DEF ProcessNewInverter
    <3>3. mInverter'[m] \in {ProcessNewInverter(info, registered), NoInverter, mInverter[m]}
          /\ (m # info.uniqueId => mInverter'[m] \in {NoInverter, mInverter[m]})
      BY <2>1 DEF InverterFound
    <3> QED BY <3>1, <3>2, <3>3
  <2>2. ASSUME NEW u \in UniqueId, IsActiveArrives(u)
        PROVE  mInverter'[m] = NoInverter
    BY <2>0, <2>2 DEF IsActiveArrives, TypeOK
  <2>3. ASSUME NEW u \in UniqueId, NEW registered \in BOOLEAN,
               SettingsInitialized(u, registered)
        PROVE  mInverter'[m] = NoInverter
    <3>1. CASE u = m
      <4>1. ~store[m].isActive
        BY <2>0, <2>3, <3>1 DEF SettingsInitialized, TypeOK
      <4> QED BY <2>0, <2>3, <3>1, <4>1 DEF SettingsInitialized, TypeOK
    <3>2. CASE u # m
      <4>1. items[m] = "initialized" /\ ~store[m].isActive
        BY <2>0, <2>3, <3>2 DEF SettingsInitialized, TypeOK
      <4>2. mInverter'[m] = mInverter[m]
        BY <2>0, <2>3, <3>2 DEF SettingsInitialized, TypeOK
      <4> QED BY <4>1, <4>2
    <3> QED BY <3>1, <3>2
  <2>4. ASSUME NEW u \in UniqueId, IsActiveChanged(u)
        PROVE  mInverter'[m] = NoInverter
    <3>1. CASE u = m
      BY <2>0, <2>4, <3>1 DEF IsActiveChanged, TypeOK
    <3>2. CASE u # m
      BY <2>0, <2>4, <3>2 DEF IsActiveChanged, TypeOK
    <3> QED BY <3>1, <3>2
  <2>5. ASSUME NEW u \in UniqueId, ConnectionLost(u)
        PROVE  mInverter'[m] = NoInverter
    BY <2>0, <2>5 DEF ConnectionLost, TypeOK
  <2>6. ASSUME NEW u \in UniqueId, Crash(u)
        PROVE  mInverter'[m] = NoInverter
    BY <2>6 DEF Crash
  <2>7. CASE ScanServed \/ UNCHANGED vars
    BY <2>7 DEF ScanServed, vars
  <2> QED BY <2>1, <2>2, <2>3, <2>4, <2>5, <2>6, <2>7 DEF Next
<1>3. Off => SwitchedOffNotRunning
  BY DEF SwitchedOffNotRunning, Running
<1> QED BY <1>1, <1>2, <1>3, Invariance, PTL DEF Spec

----------------------------------------------------------------------------
(* Induction, by the least counterexample.                                 *)

\* A set of natural numbers that is not empty has a smallest element.
LEMMA Smallest ==
    ASSUME NEW S, S \subseteq Nat, S # {}
    PROVE  \E x \in S : \A y \in S : x <= y
<1> DEFINE R == {ss \in Nat \X Nat : ss[1] < ss[2]}
<1>1. IsWellFoundedOn(R, Nat)
  BY NatLessThanWellFounded DEF OpToRel
<1>2. \A x, y \in Nat : <<y, x>> \in R <=> y < x
  OBVIOUS
<1> HIDE DEF R
<1>3. PICK x \in S : \A y \in S : ~(<<y, x>> \in R)
  BY <1>1, WFMin
<1>4. ASSUME NEW y \in S PROVE x <= y
  <2>1. x \in Nat /\ y \in Nat /\ ~(y < x)
    BY <1>2, <1>3
  <2> QED BY <2>1
<1> QED BY <1>4

\* What holds of 0 and of the successor of whatever it holds of holds of all.
LEMMA Induction ==
    ASSUME NEW S, 0 \in S, \A k \in Nat : k \in S => k + 1 \in S
    PROVE  Nat \subseteq S
<1> DEFINE T == Nat \ S
<1>1. CASE T # {}
  <2>1. PICK x \in T : \A y \in T : x <= y
    BY <1>1, Smallest
  <2>2. x \in Nat \ {0}
    BY <2>1
  <2>3. x - 1 \in Nat /\ x - 1 \notin T
    BY <2>1, <2>2
  <2>4. x - 1 \in S
    BY <2>3
  <2> QED BY <2>2, <2>3, <2>4
<1> QED BY <1>1

----------------------------------------------------------------------------
(* Rationals.                                                              *)

\* h is the table of common divisors that Gcd computes, up to the divisor k.
Euclid(h, k) ==
    h = [y \in 0..k |-> [x \in Nat |-> IF y = 0 THEN x ELSE h[x % y][y]]]

Divides(g, x) == \E q \in Nat : x = g * q

\* There is such a table.
LEMMA EuclidExists ==
    ASSUME NEW b \in Nat
    PROVE  \E h : Euclid(h, b)
<1> DEFINE S == {k \in Nat : \E h : Euclid(h, k)}
<1>1. 0 \in S
  <2> DEFINE h == [y \in 0..0 |-> [x \in Nat |-> x]]
  <2>1. Euclid(h, 0)
    BY DEF Euclid
  <2> QED BY <2>1
<1>2. ASSUME NEW k \in Nat, k \in S PROVE k + 1 \in S
  <2>1. PICK h : Euclid(h, k)
    BY <1>2
  <2> DEFINE f == [y \in 0..(k + 1) |->
                      IF y <= k THEN h[y] ELSE [x \in Nat |-> h[x % (k + 1)][k + 1]]]
  <2>2. \A y \in 0..k : h[y] = [x \in Nat |-> IF y = 0 THEN x ELSE h[x % y][y]]
    BY <2>1 DEF Euclid
  <2>3. \A y \in 0..k : f[y] = h[y]
    OBVIOUS
  <2>4. f[k + 1] = [x \in Nat |-> h[x % (k + 1)][k + 1]]
    OBVIOUS
  <2>5. \A x \in Nat, y \in Nat \ {0} : x % y \in 0..(y - 1)
    OBVIOUS
  <2>6. ASSUME NEW y \in 0..(k + 1)
        PROVE  f[y] = [x \in Nat |-> IF y = 0 THEN x ELSE f[x % y][y]]
    <3>1. CASE y \in 0..k
      <4> HIDE DEF f
      <4>1. \A x \in Nat : y # 0 => f[x % y] = h[x % y]
        <5> SUFFICES ASSUME NEW x \in Nat, y # 0 PROVE f[x % y] = h[x % y]
          OBVIOUS
        <5>1. x % y \in 0..(y - 1)
          BY <2>5, <3>1
        <5>2. x % y \in 0..k
          BY <3>1, <5>1
        <5> QED BY <2>3, <5>2
      <4> QED BY <2>2, <2>3, <3>1, <4>1
    <3>2. CASE y = k + 1
      <4> HIDE DEF f
      <4>1. \A x \in Nat : f[x % (k + 1)] = h[x % (k + 1)]
        <5> SUFFICES ASSUME NEW x \in Nat PROVE f[x % (k + 1)] = h[x % (k + 1)]
          OBVIOUS
        <5>1. x % (k + 1) \in 0..k
          OBVIOUS
        <5> QED BY <2>3, <5>1
      <4> QED BY <2>4, <3>2, <4>1
    <3> QED BY <3>1, <3>2
  <2>7. Euclid(f, k + 1)
    <3>1. f = [y \in 0..(k + 1) |-> f[y]]
      OBVIOUS
    <3> HIDE DEF f
    <3> QED BY <2>6, <3>1 DEF Euclid
  <2> QED BY <2>7
<1> HIDE DEF S
<1>3. b \in S
  BY <1>1, <1>2, Induction
<1> QED BY <1>3 DEF S

\* What divides y and x % y divides x.
LEMMA DividesRemainder ==
    ASSUME NEW g \in Nat, NEW x \in Nat, NEW y \in Nat \ {0},
           Divides(g, y), Divides(g, x % y)
    PROVE  Divides(g, x)
<1>1. PICK i \in Nat : y = g * i
  BY DEF Divides
<1>2. PICK j \in Nat : x % y = g * j
  BY DEF Divides
<1>3. x \div y \in Nat /\ x = y * (x \div y) + (x % y)
  OBVIOUS
<1> DEFINE q == x \div y
<1>4. q \in Nat /\ x = (g * i) * q + g * j
  BY <1>1, <1>2, <1>3
<1> HIDE DEF q
<1>5. (g * i) * q + g * j = g * (i * q + j) /\ i * q + j \in Nat
  BY <1>4
<1> QED BY <1>4, <1>5 DEF Divides

\* Its entries are positive common divisors.
LEMMA EuclidDivides ==
    ASSUME NEW h, NEW b \in Nat, Euclid(h, b), NEW y \in 0..b, NEW x \in Nat,
           y # 0 \/ x # 0
    PROVE  /\ h[y][x] \in Nat \ {0}
           /\ Divides(h[y][x], x) /\ Divides(h[y][x], y)
<1> DEFINE Good(k, n) == /\ h[k][n] \in Nat \ {0}
                         /\ Divides(h[k][n], n) /\ Divides(h[k][n], k)
           T == {k \in 0..b : \E n \in Nat : (k # 0 \/ n # 0) /\ ~Good(k, n)}
<1>1. \A k \in 0..b, n \in Nat : h[k][n] = IF k = 0 THEN n ELSE h[n % k][k]
  BY DEF Euclid
<1>2. CASE T # {}
  <2>0. T \subseteq Nat
    OBVIOUS
  <2>1. PICK k \in T : \A m \in T : k <= m
    <3> HIDE DEF T
    <3> QED BY <1>2, <2>0, Smallest
  <2>2. k \in 0..b
    BY <2>1
  <2>3. PICK n \in Nat : (k # 0 \/ n # 0) /\ ~Good(k, n)
    BY <2>1
  <2>4. CASE k = 0
    <3>1. h[k][n] = n /\ n \in Nat \ {0}
      BY <1>1, <2>2, <2>3, <2>4
    <3>2. Divides(n, n) /\ Divides(n, 0)
      <4>1. n = n * 1 /\ 0 = n * 0
        OBVIOUS
      <4> QED BY <4>1 DEF Divides
    <3> QED BY <2>3, <2>4, <3>1, <3>2
  <2>5. CASE k # 0
    <3>1. n % k \in 0..(k - 1) /\ k \in Nat \ {0}
      BY <2>2, <2>5
    <3>2. n % k \in 0..b /\ ~(k <= n % k)
      BY <2>2, <3>1
    <3>3. n % k \notin T
      BY <2>1, <3>2
    <3>4. Good(n % k, k)
      BY <3>1, <3>2, <3>3
    <3>5. h[k][n] = h[n % k][k]
      BY <1>1, <2>2, <2>5
    <3>6. Divides(h[k][n], n)
      BY <3>1, <3>4, <3>5, DividesRemainder
    <3> QED BY <2>3, <3>4, <3>5, <3>6
  <2> QED BY <2>4, <2>5
<1>3. CASE T = {}
  BY <1>3
<1> QED BY <1>2, <1>3

\* What Gcd computes is such a table's entry.
LEMMA GcdIs ==
    ASSUME NEW a \in Nat, NEW b \in Nat
    PROVE  \E h : Euclid(h, b) /\ Gcd(a, b) = h[b][a]
<1> DEFINE F(g) == [y \in 0..b |-> [x \in Nat |-> IF y = 0 THEN x ELSE g[x % y][y]]]
           h == CHOOSE g : g = F(g)
<1>1. \E g : g = F(g)
  BY EuclidExists DEF Euclid
<1>2. h = F(h)
  <2> HIDE DEF F
  <2> QED BY <1>1
<1>3. Euclid(h, b)
  <2> HIDE DEF h
  <2> QED BY <1>2 DEF Euclid
<1>4. Gcd(a, b) = h[b][a]
  BY DEF Gcd
<1> QED BY <1>3, <1>4

\* A common factor cancels.
LEMMA Cancel ==
    ASSUME NEW a \in Int, NEW b \in Int, NEW c \in Nat \ {0}
    PROVE  /\ a * c = b * c => a = b
           /\ a * c <= b * c <=> a <= b
  OBVIOUS

\* The rational x has the value n / d.
Value(x, n, d) ==
    /\ x \in Rational /\ n \in Nat /\ d \in Nat \ {0}
    /\ x.n * d = n * x.d

\* A fraction is reduced without changing its value.
LEMMA RatValue ==
    ASSUME NEW n \in Nat, NEW d \in Nat \ {0}
    PROVE  Value(Rat(n, d), n, d)
<1> DEFINE g == Gcd(n, d)
<1>1. g \in Nat \ {0} /\ Divides(g, n) /\ Divides(g, d)
  <2>1. PICK h : Euclid(h, d) /\ g = h[d][n]
    BY GcdIs
  <2> QED BY <2>1, EuclidDivides
<1>2. PICK i \in Nat : n = g * i
  BY <1>1 DEF Divides
<1>3. PICK j \in Nat : d = g * j
  BY <1>1 DEF Divides
<1>4. Rat(n, d) = [n |-> n \div g, d |-> d \div g]
  BY DEF Rat
<1> HIDE DEF g
<1>5. j # 0
  BY <1>1, <1>3
<1>6. n \div g = i /\ d \div g = j
  BY <1>1, <1>2, <1>3
<1>7. i * d = n * j
  BY <1>1, <1>2, <1>3
<1> QED BY <1>4, <1>5, <1>6, <1>7 DEF Value, Rational

\* A whole number has the denominator 1.
LEMMA RatWhole ==
    ASSUME NEW m \in Nat, NEW d \in Nat \ {0}
    PROVE  Rat(m * d, d) = [n |-> m, d |-> 1]
<1>1. PICK h : Euclid(h, d) /\ Gcd(m * d, d) = h[d][m * d]
  BY GcdIs
<1>2. (m * d) % d = 0
  OBVIOUS
<1>3. h[d][m * d] = h[0][d] /\ h[0][d] = d
  <2>1. \A y \in 0..d, x \in Nat : h[y][x] = IF y = 0 THEN x ELSE h[x % y][y]
    BY <1>1 DEF Euclid
  <2> DEFINE z == m * d
  <2>2. z \in Nat /\ z % d = 0 /\ d \in 0..d /\ 0 \in 0..d
    BY <1>2
  <2> HIDE DEF z
  <2>3. h[d][z] = h[0][d] /\ h[0][d] = d
    BY <2>1, <2>2
  <2> QED BY <2>3 DEF z
<1>4. (m * d) \div d = m /\ d \div d = 1
  OBVIOUS
<1> QED BY <1>1, <1>3, <1>4 DEF Rat

\* A whole number as a rational.
LEMMA IntIs ==
    ASSUME NEW m \in Nat
    PROVE  /\ Int2Rat(m) = [n |-> m, d |-> 1]
           /\ Int2Rat(m) \in Rational
           /\ \A d \in Nat \ {0} : Value(Int2Rat(m), m * d, d)
<1>1. Int2Rat(m) = [n |-> m, d |-> 1]
  <2>1. Rat(m * 1, 1) = [n |-> m, d |-> 1]
    BY RatWhole
  <2>2. m * 1 = m
    OBVIOUS
  <2> QED BY <2>1, <2>2 DEF Int2Rat
<1> QED BY <1>1 DEF Value, Rational

\* Sums over a common denominator.
LEMMA PlusValue ==
    ASSUME NEW x, NEW y, NEW n, NEW m, NEW D, Value(x, n, D), Value(y, m, D)
    PROVE  Value(Plus(x, y), n + m, D)
<1> DEFINE num == x.n * y.d + y.n * x.d
           k == x.d * y.d
           p == Plus(x, y)
<1>1. /\ x.n \in Nat /\ x.d \in Nat \ {0} /\ y.n \in Nat /\ y.d \in Nat \ {0}
      /\ n \in Nat /\ m \in Nat /\ D \in Nat \ {0}
      /\ x.n * D = n * x.d /\ y.n * D = m * y.d
  BY DEF Value, Rational
<1>2. num \in Nat /\ k \in Nat \ {0}
  BY <1>1
<1>3. Value(p, num, k)
  <2> HIDE DEF num, k
  <2>1. Value(Rat(num, k), num, k)
    BY <1>2, RatValue
  <2> QED BY <2>1 DEF Plus, num, k
<1>4. p \in Rational /\ p.n \in Nat /\ p.d \in Nat \ {0} /\ p.n * k = num * p.d
  BY <1>3 DEF Value, Rational
<1> HIDE DEF p
<1>5. num * D = (n + m) * k
  <2>1. num * D = (x.n * D) * y.d + (y.n * D) * x.d
    BY <1>1
  <2>2. @ = (n * x.d) * y.d + (m * y.d) * x.d
    BY <1>1
  <2>3. (n * x.d) * y.d = n * k /\ (m * y.d) * x.d = m * k
    BY <1>1
  <2> HIDE DEF k
  <2>4. n * k + m * k = (n + m) * k
    BY <1>1, <1>2
  <2> QED BY <2>1, <2>2, <2>3, <2>4
<1> HIDE DEF num, k
<1>6. (p.n * D) * k = ((n + m) * p.d) * k
  <2>1. (p.n * D) * k = (p.n * k) * D
    BY <1>1, <1>2, <1>4
  <2>2. @ = (num * D) * p.d
    BY <1>1, <1>2, <1>4
  <2>3. (num * D) * p.d = ((n + m) * k) * p.d
    BY <1>5
  <2>4. ((n + m) * k) * p.d = ((n + m) * p.d) * k
    BY <1>1, <1>2, <1>4
  <2> QED BY <2>1, <2>2, <2>3, <2>4
<1>7. p.n * D = (n + m) * p.d
  <2>1. p.n * D \in Int /\ (n + m) * p.d \in Int
    BY <1>1, <1>4
  <2> QED BY <1>2, <1>6, <2>1, Cancel
<1> QED BY <1>1, <1>4, <1>7 DEF Value, p

\* The value of a fraction does not change when it is extended, or shortened.
LEMMA ScaleValue ==
    ASSUME NEW x, NEW n \in Nat, NEW d \in Nat \ {0}, NEW k \in Nat \ {0}
    PROVE  Value(x, n, d) <=> Value(x, n * k, d * k)
<1>1. n * k \in Nat /\ d * k \in Nat \ {0}
  OBVIOUS
<1> SUFFICES ASSUME x \in Rational
             PROVE  x.n * d = n * x.d <=> x.n * (d * k) = (n * k) * x.d
  BY <1>1 DEF Value
<1>2. x.n \in Nat /\ x.d \in Nat \ {0}
  BY DEF Rational
<1>3. x.n * (d * k) = (x.n * d) * k /\ (n * k) * x.d = (n * x.d) * k
  BY <1>2
<1>4. x.n * d \in Int /\ n * x.d \in Int
  BY <1>2
<1> QED BY <1>3, <1>4, Cancel

\* Two fractions of the same value stand for the same rationals.
LEMMA SameValue ==
    ASSUME NEW x, NEW n \in Nat, NEW d \in Nat \ {0},
           NEW m \in Nat, NEW e \in Nat \ {0}, n * e = m * d, Value(x, n, d)
    PROVE  Value(x, m, e)
<1>1. Value(x, n * e, d * e)
  BY ScaleValue
<1>2. Value(x, m * d, e * d)
  <2>1. d * e = e * d
    OBVIOUS
  <2> QED BY <1>1, <2>1
<1> QED BY <1>2, ScaleValue

\* Comparison over a common denominator.
LEMMA AtMostValue ==
    ASSUME NEW x, NEW y, NEW n, NEW m, NEW D, Value(x, n, D), Value(y, m, D)
    PROVE  AtMost(x, y) <=> n <= m
<1>1. /\ x.n \in Nat /\ x.d \in Nat \ {0} /\ y.n \in Nat /\ y.d \in Nat \ {0}
      /\ n \in Nat /\ m \in Nat /\ D \in Nat \ {0}
      /\ x.n * D = n * x.d /\ y.n * D = m * y.d
  BY DEF Value, Rational
<1> DEFINE k == x.d * y.d
           a == x.n * y.d
           c == y.n * x.d
<1>2. k \in Nat \ {0} /\ a \in Int /\ c \in Int
  BY <1>1
<1>3. a * D = n * k
  <2>1. a * D = (x.n * D) * y.d
    BY <1>1
  <2>2. @ = n * k
    BY <1>1
  <2> QED BY <2>1, <2>2
<1>4. c * D = m * k
  <2>1. c * D = (y.n * D) * x.d
    BY <1>1
  <2>2. @ = m * k
    BY <1>1
  <2> QED BY <2>1, <2>2
<1>5. AtMost(x, y) <=> a <= c
  BY DEF AtMost
<1> HIDE DEF k, a, c
<1>6. a <= c <=> a * D <= c * D
  BY <1>1, <1>2, Cancel
<1>7. n <= m <=> n * k <= m * k
  BY <1>1, <1>2, Cancel
<1> QED BY <1>3, <1>4, <1>5, <1>6, <1>7

\* Two rationals have a common denominator, and so have more.
LEMMA Common ==
    ASSUME NEW x \in Rational, NEW y \in Rational
    PROVE  Value(x, x.n * y.d, x.d * y.d) /\ Value(y, y.n * x.d, x.d * y.d)
<1>1. x.n \in Nat /\ x.d \in Nat \ {0} /\ y.n \in Nat /\ y.d \in Nat \ {0}
  BY DEF Rational
<1>2. Value(x, x.n, x.d) /\ Value(y, y.n, y.d)
  BY <1>1 DEF Value
<1>3. x.d * y.d = y.d * x.d
  BY <1>1
<1> QED BY <1>1, <1>2, <1>3, ScaleValue

\* Three rationals have a common denominator.
LEMMA Common3 ==
    ASSUME NEW x \in Rational, NEW y \in Rational, NEW z \in Rational
    PROVE  \E D \in Nat \ {0} : \E a, b, c \in Nat :
              Value(x, a, D) /\ Value(y, b, D) /\ Value(z, c, D)
<1> DEFINE D == (x.d * y.d) * z.d
<1>1. /\ x.n \in Nat /\ x.d \in Nat \ {0} /\ y.n \in Nat /\ y.d \in Nat \ {0}
      /\ z.n \in Nat /\ z.d \in Nat \ {0}
  BY DEF Rational
<1>2. /\ x.n * y.d \in Nat /\ y.n * x.d \in Nat /\ x.d * y.d \in Nat \ {0}
      /\ D \in Nat \ {0} /\ (x.n * y.d) * z.d \in Nat /\ (y.n * x.d) * z.d \in Nat
      /\ z.n * (x.d * y.d) \in Nat /\ z.d * (x.d * y.d) = D
  BY <1>1
<1>3. Value(x, x.n * y.d, x.d * y.d) /\ Value(y, y.n * x.d, x.d * y.d)
  BY Common
<1>4. Value(x, (x.n * y.d) * z.d, D) /\ Value(y, (y.n * x.d) * z.d, D)
  BY <1>1, <1>2, <1>3, ScaleValue
<1>5. Value(z, z.n, z.d)
  BY <1>1 DEF Value
<1>6. Value(z, z.n * (x.d * y.d), D)
  BY <1>1, <1>2, <1>5, ScaleValue
<1> QED BY <1>2, <1>4, <1>6

\* The order of rationals.
LEMMA AtMostRefl ==
    ASSUME NEW x \in Rational
    PROVE  AtMost(x, x)
  BY DEF AtMost, Rational

\* The order of rationals is transitive.
LEMMA AtMostTrans ==
    ASSUME NEW x \in Rational, NEW y \in Rational, NEW z \in Rational,
           AtMost(x, y), AtMost(y, z)
    PROVE  AtMost(x, z)
<1>1. PICK D \in Nat \ {0} : \E a, b, c \in Nat :
              Value(x, a, D) /\ Value(y, b, D) /\ Value(z, c, D)
  BY Common3
<1>2. PICK a \in Nat, b \in Nat, c \in Nat :
              Value(x, a, D) /\ Value(y, b, D) /\ Value(z, c, D)
  BY <1>1
<1>3. a <= b /\ b <= c
  BY <1>2, AtMostValue
<1>4. a <= c
  BY <1>3
<1> QED BY <1>2, <1>4, AtMostValue

\* Zero is the least.
LEMMA ZeroLeast ==
    ASSUME NEW x \in Rational, NEW y \in Rational
    PROVE  /\ x.n = 0 => AtMost(x, y)
           /\ AtMost(x, y) /\ y.n = 0 => x.n = 0
<1>1. x.n \in Nat /\ x.d \in Nat \ {0} /\ y.n \in Nat /\ y.d \in Nat \ {0}
  BY DEF Rational
<1>2. x.n = 0 => AtMost(x, y)
  BY <1>1 DEF AtMost
<1>3. ASSUME AtMost(x, y), y.n = 0 PROVE x.n = 0
  <2>1. x.n * y.d <= 0
    BY <1>1, <1>3 DEF AtMost
  <2> QED BY <1>1, <2>1
<1> QED BY <1>2, <1>3

\* A sum grows with its summands.
LEMMA PlusGrows ==
    ASSUME NEW x \in Rational, NEW y \in Rational, NEW z \in Rational, NEW w \in Rational,
           AtMost(x, z), AtMost(y, w)
    PROVE  AtMost(Plus(x, y), Plus(z, w))
<1> DEFINE D == (x.d * z.d) * (y.d * w.d)
           a == (x.n * z.d) * (y.d * w.d)
           b == (z.n * x.d) * (y.d * w.d)
           c == (y.n * w.d) * (x.d * z.d)
           e == (w.n * y.d) * (x.d * z.d)
<1>1. /\ x.n \in Nat /\ x.d \in Nat \ {0} /\ y.n \in Nat /\ y.d \in Nat \ {0}
      /\ z.n \in Nat /\ z.d \in Nat \ {0} /\ w.n \in Nat /\ w.d \in Nat \ {0}
  BY DEF Rational
<1>2. /\ x.d * z.d \in Nat \ {0} /\ y.d * w.d \in Nat \ {0}
      /\ x.n * z.d \in Nat /\ z.n * x.d \in Nat /\ y.n * w.d \in Nat /\ w.n * y.d \in Nat
  BY <1>1
<1>3. (y.d * w.d) * (x.d * z.d) = D
  BY <1>2
<1>4. Value(x, a, D) /\ Value(z, b, D)
  BY <1>2, Common, ScaleValue
<1>5. Value(y, c, D) /\ Value(w, e, D)
  <2>1. Value(y, c, (y.d * w.d) * (x.d * z.d)) /\ Value(w, e, (y.d * w.d) * (x.d * z.d))
    BY <1>2, Common, ScaleValue
  <2> QED BY <1>3, <2>1
<1> HIDE DEF D, a, b, c, e
<1>6. a <= b /\ c <= e
  BY <1>4, <1>5, AtMostValue
<1>7. a \in Nat /\ b \in Nat /\ c \in Nat /\ e \in Nat
  BY <1>4, <1>5 DEF Value
<1>8. a + c <= b + e
  BY <1>6, <1>7
<1>9. Value(Plus(x, y), a + c, D) /\ Value(Plus(z, w), b + e, D)
  BY <1>4, <1>5, PlusValue
<1> QED BY <1>8, <1>9, AtMostValue

\* A summand is at most the sum.
LEMMA PlusAbove ==
    ASSUME NEW x \in Rational, NEW y \in Rational
    PROVE  AtMost(x, Plus(x, y)) /\ AtMost(y, Plus(x, y))
<1> DEFINE D == x.d * y.d
           a == x.n * y.d
           b == y.n * x.d
<1>1. Value(x, a, D) /\ Value(y, b, D)
  BY Common
<1> HIDE DEF D, a, b
<1>2. a \in Nat /\ b \in Nat
  BY <1>1 DEF Value
<1>3. Value(Plus(x, y), a + b, D)
  BY <1>1, PlusValue
<1>4. a <= a + b /\ b <= a + b
  BY <1>2
<1> QED BY <1>1, <1>3, <1>4, AtMostValue

\* A sum whose value is whole is that number.
LEMMA PlusWhole ==
    ASSUME NEW x \in Rational, NEW y \in Rational, NEW m \in Nat, NEW D \in Nat \ {0},
           Value(Plus(x, y), m * D, D)
    PROVE  Plus(x, y) = Int2Rat(m)
<1> DEFINE num == x.n * y.d + y.n * x.d
           k == x.d * y.d
           p == Plus(x, y)
<1>1. num \in Nat /\ k \in Nat \ {0}
  BY DEF Rational
<1>2. p = Rat(num, k)
  BY DEF Plus
<1> HIDE DEF num, k, p
<1>3. Value(p, num, k)
  BY <1>1, <1>2, RatValue
<1>4. p.n \in Nat /\ p.d \in Nat \ {0} /\ p.n * k = num * p.d
  BY <1>3 DEF Value, Rational
<1>5. p.n * D = (m * D) * p.d
  BY DEF Value, p
<1>6. p.n = m * p.d
  <2>1. (m * D) * p.d = (m * p.d) * D /\ m * p.d \in Int
    BY <1>4
  <2> QED BY <1>4, <1>5, <2>1, Cancel
<1>7. num = m * k
  <2>1. num * p.d = (m * k) * p.d
    BY <1>1, <1>4, <1>6
  <2>2. m * k \in Int
    BY <1>1
  <2> QED BY <1>1, <1>4, <2>1, <2>2, Cancel
<1>8. p = Rat(m * k, k)
  BY <1>2, <1>7
<1> QED BY <1>1, <1>8, RatWhole, IntIs DEF p

----------------------------------------------------------------------------
(* The energy: sharing it out over the phases.                             *)

\* The counters of the phases, as far as Redistributed looks at them.
Counters ==
    /\ phaseCount \in {2, 3}
    /\ energy \in [Phases -> Rational \cup {Invalid}]
    /\ saved \in [Phases -> Rational]

\* Every phase has an energy to go on from.
LEMMA EnergyIsRational ==
    ASSUME energy \in [Phases -> Rational \cup {Invalid}], saved \in [Phases -> Rational],
           NEW p \in Phases
    PROVE  EnergyValue(p) \in Rational
<1>1. energy[p] # Invalid => energy[p] \in Rational
  OBVIOUS
<1>2. Normal(energy[p]) => energy[p] # Invalid
  BY DEF Normal, Invalid
<1> QED BY <1>1, <1>2 DEF EnergyValue

\* A sum over the phases, over a common denominator. Sums of integers are
\* those that TotalVi makes.
LEMMA SumValue ==
    ASSUME phaseCount \in {2, 3}, NEW f, NEW a, NEW D,
           \A p \in Connected : Value(f[p], a[p], D)
    PROVE  Value(Sum(f), TotalVi(a), D)
<1>1. 1 \in Connected /\ 2 \in Connected /\ (phaseCount > 2 => 3 \in Connected)
  BY DEF Connected
<1>2. Value(f[1], a[1], D) /\ Value(f[2], a[2], D)
  BY <1>1
<1>3. Value(Plus(f[1], f[2]), a[1] + a[2], D)
  BY <1>2, PlusValue
<1>4. CASE phaseCount > 2
  <2>1. Value(f[3], a[3], D)
    BY <1>1, <1>4
  <2>2. Value(Plus(Plus(f[1], f[2]), f[3]), (a[1] + a[2]) + a[3], D)
    BY <1>3, <2>1, PlusValue
  <2> QED BY <1>4, <2>2 DEF Sum, TotalVi
<1>5. CASE ~(phaseCount > 2)
  <2>1. a[1] + a[2] + 0 = a[1] + a[2]
    BY <1>2 DEF Value
  <2>2. Sum(f) = Plus(f[1], f[2]) /\ TotalVi(a) = a[1] + a[2] + 0
    BY <1>5 DEF Sum, TotalVi
  <2> QED BY <1>3, <2>1, <2>2
<1> QED BY <1>4, <1>5

\* A sum over the phases is rational and grows with its summands.
LEMMA SumGrows ==
    ASSUME phaseCount \in {2, 3}, NEW f, NEW g,
           \A p \in Connected : /\ f[p] \in Rational /\ g[p] \in Rational
                                /\ AtMost(f[p], g[p])
    PROVE  Sum(f) \in Rational /\ Sum(g) \in Rational /\ AtMost(Sum(f), Sum(g))
<1>1. 1 \in Connected /\ 2 \in Connected /\ (phaseCount > 2 => 3 \in Connected)
  BY DEF Connected
<1>2. /\ f[1] \in Rational /\ g[1] \in Rational /\ AtMost(f[1], g[1])
      /\ f[2] \in Rational /\ g[2] \in Rational /\ AtMost(f[2], g[2])
  BY <1>1
<1>3. \A x, y \in Rational : Plus(x, y) \in Rational
  <2> TAKE x, y \in Rational
  <2>1. Value(Plus(x, y), x.n * y.d + y.n * x.d, x.d * y.d)
    BY Common, PlusValue
  <2> QED BY <2>1 DEF Value
<1>4. /\ Plus(f[1], f[2]) \in Rational /\ Plus(g[1], g[2]) \in Rational
      /\ AtMost(Plus(f[1], f[2]), Plus(g[1], g[2]))
  BY <1>2, <1>3, PlusGrows
<1>5. CASE phaseCount > 2
  <2>1. f[3] \in Rational /\ g[3] \in Rational /\ AtMost(f[3], g[3])
    BY <1>1, <1>5
  <2> QED BY <1>3, <1>4, <1>5, <2>1, PlusGrows DEF Sum
<1>6. CASE ~(phaseCount > 2)
  BY <1>4, <1>6 DEF Sum
<1> QED BY <1>5, <1>6

\* The counter of a phase is at most the sum over the phases.
LEMMA PartOfSum ==
    ASSUME phaseCount \in {2, 3}, NEW f, \A p \in Connected : f[p] \in Rational,
           NEW p \in Connected
    PROVE  AtMost(f[p], Sum(f)) /\ Sum(f) \in Rational
<1>1. 1 \in Connected /\ 2 \in Connected /\ (phaseCount > 2 => 3 \in Connected)
  BY DEF Connected
<1>2. f[1] \in Rational /\ f[2] \in Rational /\ (phaseCount > 2 => f[3] \in Rational)
  BY <1>1
<1>3. Sum(f) \in Rational
  <2>1. \A q \in Connected : AtMost(f[q], f[q])
    BY AtMostRefl
  <2> QED BY <2>1, SumGrows
<1> DEFINE t == Plus(f[1], f[2])
<1>4. t \in Rational
  <2>1. Value(t, f[1].n * f[2].d + f[2].n * f[1].d, f[1].d * f[2].d)
    BY <1>2, Common, PlusValue
  <2> QED BY <2>1 DEF Value
<1>5. AtMost(f[1], t) /\ AtMost(f[2], t)
  BY <1>2, PlusAbove
<1>6. CASE phaseCount > 2
  <2>1. Sum(f) = Plus(t, f[3]) /\ f[3] \in Rational
    BY <1>2, <1>6 DEF Sum
  <2> HIDE DEF t
  <2>2. AtMost(t, Sum(f)) /\ AtMost(f[3], Sum(f))
    BY <1>4, <2>1, PlusAbove
  <2>3. AtMost(f[1], Sum(f)) /\ AtMost(f[2], Sum(f))
    BY <1>2, <1>3, <1>4, <1>5, <2>2, AtMostTrans
  <2>4. p \in {1, 2, 3}
    BY DEF Connected
  <2> QED BY <1>3, <2>2, <2>3, <2>4
<1>7. CASE ~(phaseCount > 2)
  <2>1. Sum(f) = t /\ p \in {1, 2}
    BY <1>7 DEF Sum, Connected
  <2> HIDE DEF t
  <2> QED BY <1>3, <1>5, <2>1
<1> QED BY <1>6, <1>7

\* If the sum over the phases has a whole value it is that number.
LEMMA SumWhole ==
    ASSUME phaseCount \in {2, 3}, NEW f, NEW m \in Nat, NEW D \in Nat \ {0},
           \A p \in Connected : f[p] \in Rational,
           Value(Sum(f), m * D, D)
    PROVE  Sum(f) = Int2Rat(m)
<1>1. 1 \in Connected /\ 2 \in Connected /\ (phaseCount > 2 => 3 \in Connected)
  BY DEF Connected
<1>2. f[1] \in Rational /\ f[2] \in Rational /\ (phaseCount > 2 => f[3] \in Rational)
  BY <1>1
<1>3. Plus(f[1], f[2]) \in Rational
  <2>1. Value(Plus(f[1], f[2]), f[1].n * f[2].d + f[2].n * f[1].d, f[1].d * f[2].d)
    BY <1>2, Common, PlusValue
  <2> QED BY <2>1 DEF Value
<1>4. CASE phaseCount > 2
  BY <1>2, <1>3, <1>4, PlusWhole DEF Sum
<1>5. CASE ~(phaseCount > 2)
  BY <1>2, <1>5, PlusWhole DEF Sum
<1> QED BY <1>4, <1>5

\* The old counter of a phase, rescaled to the previous total.
Rescaled(p) ==
    IF Normal(Accumulated)
    THEN Over(Times(Int2Rat(prev), EnergyValue(p)), Accumulated)
    ELSE Rat(prev, phaseCount)

\* The energies to go on from have a common denominator.
LEMMA EnergiesOver ==
    ASSUME Counters
    PROVE  \E D \in Nat \ {0} : \E a \in [Phases -> Nat] :
              \A p \in Phases : Value(EnergyValue(p), a[p], D)
<1>1. \A p \in Phases : EnergyValue(p) \in Rational
  BY EnergyIsRational DEF Counters
<1>2. 1 \in Phases /\ 2 \in Phases /\ 3 \in Phases
  BY DEF Phases
<1>3. PICK D \in Nat \ {0} : \E a, b, c \in Nat :
        /\ Value(EnergyValue(1), a, D) /\ Value(EnergyValue(2), b, D)
        /\ Value(EnergyValue(3), c, D)
  BY <1>1, <1>2, Common3
<1>4. PICK a \in Nat, b \in Nat, c \in Nat :
        /\ Value(EnergyValue(1), a, D) /\ Value(EnergyValue(2), b, D)
        /\ Value(EnergyValue(3), c, D)
  BY <1>3
<1> DEFINE f == [p \in Phases |-> CASE p = 1 -> a [] p = 2 -> b [] OTHER -> c]
<1>5. f \in [Phases -> Nat] /\ f[1] = a /\ f[2] = b /\ f[3] = c
  BY DEF Phases
<1> HIDE DEF f
<1>6. \A p \in Phases : Value(EnergyValue(p), f[p], D)
  BY <1>4, <1>5 DEF Phases
<1> QED BY <1>5, <1>6

\* The rescaled counters: shares of the previous total whose weights add up to
\* one. None is below the old counter if all of these fit the previous total.
LEMMA RescaledValue ==
    ASSUME Counters, prev \in Nat
    PROVE  \E w \in [Phases -> Nat] :
              /\ TotalVi(w) \in Nat \ {0}
              /\ \A p \in Connected : Value(Rescaled(p), prev * w[p], TotalVi(w))
              /\ AtMost(Accumulated, Int2Rat(prev))
                   => \A p \in Connected : AtMost(EnergyValue(p), Rescaled(p))
<1>1. PICK D \in Nat \ {0} : \E a \in [Phases -> Nat] :
              \A p \in Phases : Value(EnergyValue(p), a[p], D)
  BY EnergiesOver
<1>2. PICK a \in [Phases -> Nat] : \A p \in Phases : Value(EnergyValue(p), a[p], D)
  BY <1>1
<1> DEFINE f == [p \in Phases |-> EnergyValue(p)]
           S == TotalVi(a)
<1>3. Connected \subseteq Phases
  BY DEF Counters, Connected, Phases
<1>4. \A p \in Connected : Value(f[p], a[p], D)
  BY <1>2, <1>3
<1>5. Value(Accumulated, S, D)
  <2> HIDE DEF f
  <2>1. Value(Sum(f), S, D)
    BY <1>4, SumValue DEF Counters
  <2> QED BY <2>1 DEF Accumulated, f
<1>6. /\ Accumulated.n \in Nat /\ Accumulated.d \in Nat \ {0} /\ S \in Nat
      /\ Accumulated.n * D = S * Accumulated.d
  BY <1>5 DEF Value, Rational
<1>7. Normal(Accumulated) <=> S # 0
  <2> HIDE DEF S
  <2>1. Accumulated.n # 0 <=> S # 0
    BY <1>6
  <2> QED BY <2>1 DEF Normal
<1>8. CASE Normal(Accumulated)
  <2>1. ASSUME NEW p \in Connected
        PROVE  Value(Rescaled(p), prev * a[p], S)
    <3> DEFINE e == EnergyValue(p)
               t == Times(Int2Rat(prev), e)
    <3>1. /\ e.n \in Nat /\ e.d \in Nat \ {0} /\ a[p] \in Nat
          /\ e.n * D = a[p] * e.d
      BY <1>2, <1>3 DEF Value, Rational
    <3>2. Int2Rat(prev) = [n |-> prev, d |-> 1]
      BY IntIs
    <3> HIDE DEF e
    <3>3. t = Rat(prev * e.n, e.d)
      BY <3>1, <3>2 DEF Times
    <3>4. prev * e.n \in Nat
      BY <3>1
    <3>5. Value(t, prev * e.n, e.d)
      BY <3>1, <3>3, <3>4, RatValue
    <3>6. Value(t, prev * a[p], D)
      <4>1. (prev * e.n) * D = (prev * a[p]) * e.d
        <5>1. (prev * e.n) * D = prev * (e.n * D) /\ (prev * a[p]) * e.d = prev * (a[p] * e.d)
          BY <3>1
        <5> QED BY <3>1, <5>1
      <4>2. prev * a[p] \in Nat
        BY <3>1
      <4> QED BY <3>1, <3>4, <3>5, <4>1, <4>2, SameValue
    <3> HIDE DEF t
    <3>7. Rescaled(p) = Rat(t.n * Accumulated.d, t.d * Accumulated.n)
      BY <1>8 DEF Rescaled, Over, t, e
    <3> DEFINE m  == prev * a[p]
               tn == t.n
               td == t.d
               an == Accumulated.n
               ad == Accumulated.d
    <3>8. /\ tn \in Nat /\ td \in Nat \ {0} /\ m \in Nat
          /\ tn * D = m * td
      BY <3>6 DEF Value, Rational
    <3>9. /\ an \in Nat \ {0} /\ ad \in Nat \ {0} /\ S \in Nat \ {0} /\ an * D = S * ad
      BY <1>6, <1>7, <1>8 DEF Normal
    <3>10. Rescaled(p) = Rat(tn * ad, td * an)
      BY <3>7
    <3> HIDE DEF m, tn, td, an, ad, S
    <3>11. tn * ad \in Nat /\ td * an \in Nat \ {0}
      BY <3>8, <3>9
    <3>12. (tn * ad) * S = m * (td * an)
      <4>1. ((tn * ad) * S) * D = (tn * D) * (S * ad)
        BY <3>8, <3>9
      <4>2. @ = (m * td) * (an * D)
        BY <3>8, <3>9
      <4>3. @ = (m * (td * an)) * D
        BY <3>8, <3>9
      <4>4. (tn * ad) * S \in Int /\ m * (td * an) \in Int
        BY <3>8, <3>9, <3>11
      <4> QED BY <4>1, <4>2, <4>3, <4>4, Cancel
    <3>13. Value(Rescaled(p), tn * ad, td * an)
      BY <3>10, <3>11, RatValue
    <3>14. Value(Rescaled(p), m, S)
      BY <3>8, <3>9, <3>11, <3>12, <3>13, SameValue
    <3> QED BY <3>14 DEF m
  <2>2. ASSUME AtMost(Accumulated, Int2Rat(prev)), NEW p \in Connected
        PROVE  AtMost(EnergyValue(p), Rescaled(p))
    <3>1. Value(Int2Rat(prev), prev * D, D)
      BY IntIs
    <3>2. S <= prev * D
      BY <1>5, <2>2, <3>1, AtMostValue
    <3>3. S \in Nat \ {0} /\ a[p] \in Nat
      BY <1>3, <1>6, <1>7, <1>8
    <3>4. Value(EnergyValue(p), a[p], D) /\ Value(Rescaled(p), prev * a[p], S)
      BY <1>2, <1>3, <2>1
    <3> HIDE DEF S
    <3> DEFINE m == prev * a[p]
    <3>5. m \in Nat
      BY <3>3
    <3>6. Value(EnergyValue(p), a[p] * S, D * S)
      BY <3>3, <3>4, ScaleValue
    <3>7. Value(Rescaled(p), m * D, S * D)
      BY <3>3, <3>4, <3>5, ScaleValue
    <3>8. S * D = D * S
      BY <3>3
    <3>9. a[p] * S <= m * D
      <4>1. m * D = a[p] * (prev * D)
        BY <3>3
      <4> DEFINE k == prev * D
      <4>2. k \in Nat /\ S <= k
        BY <3>2
      <4> HIDE DEF k
      <4>3. a[p] * S <= a[p] * k
        BY <3>3, <4>2
      <4> QED BY <4>1, <4>3 DEF k
    <3> HIDE DEF m
    <3> QED BY <3>6, <3>7, <3>8, <3>9, AtMostValue
  <2>3. S \in Nat \ {0}
    BY <1>6, <1>7, <1>8
  <2> QED BY <2>1, <2>2, <2>3
<1>9. CASE ~Normal(Accumulated)
  <2> DEFINE w == [p \in Phases |-> 1]
  <2>1. w \in [Phases -> Nat] /\ TotalVi(w) = phaseCount
    BY DEF Phases, TotalVi, Counters
  <2>2. phaseCount \in Nat \ {0}
    BY DEF Counters
  <2>3. ASSUME NEW p \in Connected
        PROVE  Value(Rescaled(p), prev * w[p], TotalVi(w))
    <3>1. Value(Rat(prev, phaseCount), prev, phaseCount)
      BY <2>2, RatValue
    <3>2. prev * w[p] = prev
      BY <1>3
    <3> QED BY <1>9, <2>1, <3>1, <3>2 DEF Rescaled
  <2>4. \A p \in Connected : a[p] = 0
    <3>1. TotalVi(a) = 0
      BY <1>7, <1>9
    <3>2. a[1] \in Nat /\ a[2] \in Nat /\ a[3] \in Nat
      BY DEF Phases
    <3>3. a[1] = 0 /\ a[2] = 0 /\ (phaseCount > 2 => a[3] = 0)
      BY <3>1, <3>2 DEF TotalVi
    <3>4. \A p \in Connected : p = 1 \/ p = 2 \/ (p = 3 /\ phaseCount > 2)
      BY DEF Connected, Counters
    <3> QED BY <3>3, <3>4
  <2>5. ASSUME NEW p \in Connected
        PROVE  AtMost(EnergyValue(p), Rescaled(p))
    <3>1. Value(EnergyValue(p), 0, D)
      BY <1>2, <1>3, <2>4
    <3>2. EnergyValue(p) \in Rational /\ EnergyValue(p).n = 0
      BY <3>1 DEF Value, Rational
    <3>3. Rescaled(p) \in Rational
      BY <2>3 DEF Value
    <3> QED BY <3>2, <3>3, ZeroLeast
  <2> HIDE DEF w
  <2> QED BY <2>1, <2>2, <2>3, <2>5
<1> QED BY <1>8, <1>9

\* The share of a phase in the increase: the weights add up to one, or nothing
\* is shared out.
LEMMA ShareValue ==
    ASSUME Counters, NEW new \in Nat, NEW vi \in [Phases -> Nat], prev \in Nat
    PROVE  \E T \in Nat \ {0} :
              /\ TotalVi(vi) * Shared(new, vi) = T * Shared(new, vi)
              /\ \A p \in Connected : Value(Share(p, new, vi), vi[p] * Shared(new, vi), T)
<1>1. /\ vi[1] \in Nat /\ vi[2] \in Nat /\ vi[3] \in Nat
      /\ \A p \in Connected : vi[p] \in Nat /\ p \in Phases
  BY DEF Phases, Connected, Counters
<1>2. TotalVi(vi) \in Nat
  BY <1>1 DEF TotalVi
<1>3. Delta(new) \in Nat
  BY DEF Delta
<1>4. CASE TotalVi(vi) > 0
  <2>1. Shared(new, vi) = Delta(new)
    BY <1>4 DEF Shared
  <2>2. \A p \in Connected : Value(Share(p, new, vi), vi[p] * Shared(new, vi), TotalVi(vi))
    <3> TAKE p \in Connected
    <3>1. vi[p] * Delta(new) \in Nat
      BY <1>1, <1>3
    <3> HIDE DEF TotalVi
    <3>2. Share(p, new, vi) = Rat(vi[p] * Delta(new), TotalVi(vi))
      BY <1>4 DEF Share
    <3> QED BY <1>2, <1>4, <2>1, <3>1, <3>2, RatValue
  <2> QED BY <1>2, <1>4, <2>2
<1>5. CASE ~(TotalVi(vi) > 0)
  <2>1. Shared(new, vi) = 0
    BY <1>5 DEF Shared
  <2>2. Value(Zero, 0, 1)
    <3>1. Value(Int2Rat(0), 0 * 1, 1)
      BY IntIs
    <3>2. 0 * 1 = 0
      OBVIOUS
    <3> QED BY <3>1, <3>2 DEF Zero
  <2>3. \A p \in Connected : Value(Share(p, new, vi), vi[p] * Shared(new, vi), 1)
    <3> TAKE p \in Connected
    <3>1. vi[p] * 0 = 0
      BY <1>1
    <3> QED BY <1>5, <2>1, <2>2, <3>1 DEF Share
  <2>4. TotalVi(vi) * 0 = 1 * 0
    BY <1>2
  <2> QED BY <2>1, <2>3, <2>4
<1> QED BY <1>4, <1>5

\* Energies that are shared out: their sum is the previous total plus the
\* increase, and no phase loses any if the old ones fit the previous total.
LEMMA Shares ==
    ASSUME Counters, prev \in Nat, NEW new \in Nat, NEW vi \in [Phases -> Nat],
           NEW f, \A p \in Connected : f[p] = PhaseEnergy(p, new, vi)
    PROVE  /\ \A p \in Connected : f[p] \in Rational
           /\ Sum(f) = Int2Rat(prev + Shared(new, vi))
           /\ AtMost(Accumulated, Int2Rat(prev))
                => \A p \in Connected : AtMost(EnergyValue(p), f[p])
<1> DEFINE s == Shared(new, vi)
<1>1. PICK w \in [Phases -> Nat] :
        /\ TotalVi(w) \in Nat \ {0}
        /\ \A p \in Connected : Value(Rescaled(p), prev * w[p], TotalVi(w))
        /\ AtMost(Accumulated, Int2Rat(prev))
             => \A p \in Connected : AtMost(EnergyValue(p), Rescaled(p))
  BY RescaledValue
<1>2. PICK T \in Nat \ {0} :
        /\ TotalVi(vi) * s = T * s
        /\ \A p \in Connected : Value(Share(p, new, vi), vi[p] * s, T)
  BY ShareValue
<1>3. s \in Nat
  BY DEF Shared, Delta
<1> HIDE DEF s
<1> DEFINE W == TotalVi(w)
           D == W * T
           a == [p \in Phases |-> (prev * w[p]) * T + (vi[p] * s) * W]
<1>4. /\ \A p \in Phases : w[p] \in Nat /\ vi[p] \in Nat
      /\ Connected \subseteq Phases
  BY DEF Connected, Phases, Counters
<1>5. W \in Nat \ {0} /\ D \in Nat \ {0}
  BY <1>1
<1>6. \A p \in Phases : a[p] = (prev * w[p]) * T + (vi[p] * s) * W
  OBVIOUS
<1> HIDE DEF a, W
<1>7. \A p \in Phases : a[p] \in Nat /\ (prev * w[p]) * T \in Nat /\ (vi[p] * s) * W \in Nat
  <2> TAKE p \in Phases
  <2>1. w[p] \in Nat /\ vi[p] \in Nat
    BY <1>4
  <2>2. (prev * w[p]) * T \in Nat /\ (vi[p] * s) * W \in Nat
    BY <1>3, <1>5, <2>1
  <2> QED BY <1>6, <2>2
<1>8. ASSUME NEW p \in Connected
      PROVE  /\ Value(f[p], a[p], D)
             /\ Value(Rescaled(p), (prev * w[p]) * T, D)
  <2>1. p \in Phases /\ w[p] \in Nat /\ vi[p] \in Nat
    BY <1>4
  <2>2. prev * w[p] \in Nat /\ vi[p] * s \in Nat
    BY <1>3, <2>1
  <2>3. Value(Rescaled(p), (prev * w[p]) * T, W * T)
    BY <1>1, <1>5, <2>2, ScaleValue DEF W
  <2>4. Value(Share(p, new, vi), (vi[p] * s) * W, T * W)
    BY <1>2, <1>5, <2>2, ScaleValue
  <2>5. T * W = W * T
    BY <1>5
  <2>6. Value(Plus(Rescaled(p), Share(p, new, vi)), a[p], D)
    BY <1>6, <2>1, <2>3, <2>4, <2>5, PlusValue
  <2>7. f[p] = Plus(Rescaled(p), Share(p, new, vi))
    BY DEF PhaseEnergy, Rescaled
  <2> QED BY <2>3, <2>6, <2>7
<1>9. \A p \in Connected : f[p] \in Rational
  BY <1>8 DEF Value
<1>10. Sum(f) = Int2Rat(prev + s)
  <2>1. Value(Sum(f), TotalVi(a), D)
    BY <1>8, SumValue DEF Counters
  <2>2. TotalVi(a) = (prev + s) * D
    <3>1. TotalVi(a) = (prev * W) * T + (TotalVi(vi) * s) * W
      <4>1. /\ w[1] \in Nat /\ w[2] \in Nat /\ w[3] \in Nat
            /\ vi[1] \in Nat /\ vi[2] \in Nat /\ vi[3] \in Nat
        BY <1>4 DEF Phases
      <4>2. /\ a[1] = (prev * w[1]) * T + (vi[1] * s) * W
            /\ a[2] = (prev * w[2]) * T + (vi[2] * s) * W
            /\ a[3] = (prev * w[3]) * T + (vi[3] * s) * W
        BY <1>6 DEF Phases
      <4>3. CASE phaseCount > 2
        <5>1. /\ TotalVi(a) = a[1] + a[2] + a[3]
              /\ W = w[1] + w[2] + w[3] /\ TotalVi(vi) = vi[1] + vi[2] + vi[3]
          BY <4>3 DEF TotalVi, W
        <5>2. (prev * W) * T = (prev * w[1]) * T + (prev * w[2]) * T + (prev * w[3]) * T
          BY <4>1, <5>1
        <5>3. TotalVi(vi) * s = vi[1] * s + vi[2] * s + vi[3] * s
          BY <1>3, <4>1, <5>1
        <5>4. (TotalVi(vi) * s) * W = (vi[1] * s) * W + (vi[2] * s) * W + (vi[3] * s) * W
          BY <1>3, <1>5, <4>1, <5>3
        <5>5. \A p \in {1, 2, 3} : (prev * w[p]) * T \in Nat /\ (vi[p] * s) * W \in Nat
          BY <1>7 DEF Phases
        <5> QED BY <4>2, <5>1, <5>2, <5>4, <5>5
      <4>4. CASE ~(phaseCount > 2)
        <5>1. /\ TotalVi(a) = a[1] + a[2] + 0
              /\ W = w[1] + w[2] + 0 /\ TotalVi(vi) = vi[1] + vi[2] + 0
          BY <4>4 DEF TotalVi, W
        <5>2. (prev * W) * T = (prev * w[1]) * T + (prev * w[2]) * T
          BY <4>1, <5>1
        <5>3. TotalVi(vi) * s = vi[1] * s + vi[2] * s
          BY <1>3, <4>1, <5>1
        <5>4. (TotalVi(vi) * s) * W = (vi[1] * s) * W + (vi[2] * s) * W
          BY <1>3, <1>5, <4>1, <5>3
        <5>5. \A p \in {1, 2} : (prev * w[p]) * T \in Nat /\ (vi[p] * s) * W \in Nat
          BY <1>7 DEF Phases
        <5> QED BY <4>2, <5>1, <5>2, <5>4, <5>5
      <4> QED BY <4>3, <4>4
    <3>2. (TotalVi(vi) * s) * W = (T * s) * W
      BY <1>2
    <3>3. (prev * W) * T + (T * s) * W = (prev + s) * (W * T)
      BY <1>3, <1>5
    <3> QED BY <3>1, <3>2, <3>3
  <2>3. prev + s \in Nat
    BY <1>3
  <2> HIDE DEF D
  <2> QED BY <1>5, <1>9, <2>1, <2>2, <2>3, SumWhole DEF Counters
<1>11. ASSUME AtMost(Accumulated, Int2Rat(prev)), NEW p \in Connected
       PROVE  AtMost(EnergyValue(p), f[p])
  <2>1. AtMost(EnergyValue(p), Rescaled(p))
    BY <1>1, <1>11
  <2>2. (prev * w[p]) * T <= a[p]
    <3>1. p \in Phases
      BY <1>4
    <3> DEFINE x == (prev * w[p]) * T
               y == (vi[p] * s) * W
    <3>2. x \in Nat /\ y \in Nat /\ a[p] = x + y
      BY <1>6, <1>7, <3>1
    <3> HIDE DEF x, y
    <3>3. x <= a[p]
      BY <3>2
    <3> QED BY <3>3 DEF x
  <2>3. AtMost(Rescaled(p), f[p])
    BY <1>8, <2>2, AtMostValue
  <2>4. EnergyValue(p) \in Rational /\ Rescaled(p) \in Rational
    BY <1>4, <1>8, EnergyIsRational DEF Counters, Value
  <2> QED BY <1>9, <2>1, <2>3, <2>4, AtMostTrans
<1> QED BY <1>9, <1>10, <1>11 DEF s

----------------------------------------------------------------------------
(* The energy: the inductive invariant.                                    *)

\* The phases are asked for where there are several.
AskedForPhases == asked => ~sunspec /\ phaseCount > 1 /\ total \in Nat

\* As long as the counter was in every answer: a phase is never saved with
\* more than it has, and all phases together have no more than the inverter had
\* produced by the last answer.
WithinTotal ==
    (phaseCount > 1 /\ ~lost) =>
        /\ \A p \in Connected : AtMost(saved[p], EnergyValue(p))
        /\ AtMost(Accumulated, Int2Rat(counter))
        /\ total <= counter
        /\ asked => AtMost(Accumulated, Int2Rat(total))
        /\ prev # NoPrevious => /\ AtMost(Accumulated, Int2Rat(prev))
                                /\ prev <= counter
                                /\ asked => prev <= total

EnergyInv == EnergyTypeOK /\ AskedForPhases /\ OnePhaseShown /\ WithinTotal

\* The counters, where several phases are shared out over.
LEMMA CountersAre ==
    ASSUME EnergyTypeOK, phaseCount > 1
    PROVE  /\ Counters
           /\ Connected \subseteq Phases
           /\ prev # NoPrevious => prev \in Nat
           /\ total # NoPrevious => total \in Nat
           /\ counter \in Nat
<1>1. MaxTotal \in Nat
  BY BoundAssumption
<1>2. Counters
  BY DEF EnergyTypeOK, Counters, Phases
<1>3. Connected \subseteq Phases
  BY DEF EnergyTypeOK, Connected, Phases
<1> QED BY <1>1, <1>2, <1>3 DEF EnergyTypeOK, NoPrevious

\* Whole numbers compare as rationals do.
LEMMA IntAtMost ==
    ASSUME NEW m \in Nat, NEW n \in Nat
    PROVE  AtMost(Int2Rat(m), Int2Rat(n)) <=> m <= n
  BY IntIs DEF AtMost

\* What the phases go on from is rational, and so is its sum.
LEMMA AccumulatedIs ==
    ASSUME Counters
    PROVE  /\ Accumulated \in Rational
           /\ \A p \in Phases : EnergyValue(p) \in Rational
<1> DEFINE f == [p \in Phases |-> EnergyValue(p)]
<1>1. \A p \in Phases : EnergyValue(p) \in Rational
  BY EnergyIsRational DEF Counters
<1>2. \A p \in Connected : f[p] \in Rational /\ AtMost(f[p], f[p])
  BY <1>1, AtMostRefl DEF Counters, Connected, Phases
<1> HIDE DEF f
<1>3. Sum(f) \in Rational
  BY <1>2, SumGrows DEF Counters
<1> QED BY <1>1, <1>3 DEF Accumulated, f

\* After the energies have been shared out.
LEMMA RedistributedFine ==
    ASSUME EnergyInv, NEW new \in Nat, NEW vi \in Weights, phaseCount > 1, prev # NoPrevious,
           energy' = Redistributed(new, vi), UNCHANGED <<phaseCount, saved>>
    PROVE  /\ energy' \in [Phases -> Rational \cup {Invalid}]
           /\ Sum(energy)' = Int2Rat(prev + Shared(new, vi))
           /\ ~lost /\ prev <= new =>
                /\ \A p \in Connected : /\ AtMost(EnergyValue(p), EnergyValue(p)')
                                        /\ AtMost(saved'[p], EnergyValue(p)')
                /\ AtMost(Accumulated', Int2Rat(new))
<1> DEFINE f == energy'
<1>1. /\ Counters /\ Connected \subseteq Phases /\ prev \in Nat
      /\ EnergyTypeOK /\ WithinTotal
  BY CountersAre DEF EnergyInv
<1>2. vi \in [Phases -> Nat]
  BY WeightAssumption DEF Phases
<1>3. /\ \A p \in Connected : f[p] = PhaseEnergy(p, new, vi)
      /\ \A p \in Phases \ Connected : f[p] = energy[p]
      /\ f = [p \in Phases |-> f[p]]
  BY <1>1 DEF Redistributed
<1>4. Connected' = Connected
  BY DEF Connected
<1> HIDE DEF f
<1>5. /\ \A p \in Connected : f[p] \in Rational
      /\ Sum(f) = Int2Rat(prev + Shared(new, vi))
      /\ AtMost(Accumulated, Int2Rat(prev))
            => \A p \in Connected : AtMost(EnergyValue(p), f[p])
  BY <1>1, <1>2, <1>3, Shares
<1>6. f \in [Phases -> Rational \cup {Invalid}]
  <2>1. \A p \in Phases : f[p] \in Rational \cup {Invalid}
    BY <1>1, <1>3, <1>5 DEF Counters
  <2> QED BY <1>3, <2>1
<1>7. Sum(energy)' = Sum(f)
  BY DEF Sum, f
<1>8. ASSUME ~lost, prev <= new
      PROVE  /\ \A p \in Connected : /\ AtMost(EnergyValue(p), EnergyValue(p)')
                                     /\ AtMost(saved'[p], EnergyValue(p)')
             /\ AtMost(Accumulated', Int2Rat(new))
  <2>1. /\ AtMost(Accumulated, Int2Rat(prev))
        /\ \A p \in Connected : AtMost(saved[p], EnergyValue(p))
    BY <1>1, <1>8 DEF WithinTotal
  <2>2. ASSUME NEW p \in Connected
        PROVE  /\ EnergyValue(p)' \in Rational
               /\ AtMost(EnergyValue(p), EnergyValue(p)')
               /\ AtMost(saved'[p], EnergyValue(p)')
               /\ AtMost(EnergyValue(p)', f[p])
    <3>1. /\ p \in Phases /\ EnergyValue(p) \in Rational /\ saved[p] \in Rational
          /\ f[p] \in Rational
      BY <1>1, <1>5, AccumulatedIs DEF Counters
    <3>2. AtMost(EnergyValue(p), f[p]) /\ AtMost(saved[p], EnergyValue(p))
      BY <1>5, <2>1
    <3>3. EnergyValue(p)' = IF Normal(f[p]) THEN f[p] ELSE saved[p]
      BY DEF EnergyValue, f
    <3>4. CASE Normal(f[p])
      BY <3>1, <3>2, <3>3, <3>4, AtMostRefl, AtMostTrans
    <3>5. CASE ~Normal(f[p])
      <4>1. f[p].n = 0
        BY <3>5 DEF Normal
      <4>2. EnergyValue(p).n = 0
        BY <3>1, <3>2, <4>1, ZeroLeast
      <4>3. saved[p].n = 0
        BY <3>1, <3>2, <4>2, ZeroLeast
      <4>4. EnergyValue(p)' = saved[p]
        BY <3>3, <3>5
      <4> QED BY <3>1, <4>2, <4>3, <4>4, ZeroLeast
    <3> QED BY <3>4, <3>5
  <2>3. AtMost(Accumulated', Sum(f)) /\ Accumulated' \in Rational /\ Sum(f) \in Rational
    <3> DEFINE g == [p \in Phases |-> EnergyValue(p)']
    <3>1. Accumulated' = Sum(g)
      BY DEF Accumulated, Sum
    <3>2. \A p \in Connected : g[p] = EnergyValue(p)'
      BY <1>1
    <3> HIDE DEF g
    <3>3. \A p \in Connected : /\ g[p] \in Rational /\ f[p] \in Rational
                               /\ AtMost(g[p], f[p])
      BY <1>5, <2>2, <3>2
    <3> QED BY <1>1, <3>1, <3>3, SumGrows DEF Counters
  <2>4. prev + Shared(new, vi) \in Nat /\ prev + Shared(new, vi) <= new
    BY <1>1, <1>8 DEF Shared, Delta
  <2>5. AtMost(Sum(f), Int2Rat(new)) /\ Int2Rat(new) \in Rational
    BY <1>5, <2>4, IntAtMost, IntIs
  <2>6. AtMost(Accumulated', Int2Rat(new))
    BY <2>3, <2>5, AtMostTrans
  <2> QED BY <2>2, <2>6
<1> QED BY <1>5, <1>6, <1>7, <1>8 DEF f

\* What depends on the counters only stays with them.
LEMMA Kept ==
    ASSUME UNCHANGED <<phaseCount, energy, saved>>
    PROVE  /\ Connected' = Connected
           /\ \A p : EnergyValue(p)' = EnergyValue(p)
           /\ Accumulated' = Accumulated
  BY DEF Connected, EnergyValue, Accumulated, Sum

\* Initially no phase has a counter.
LEMMA EnergyInitInv == EnergyInit => EnergyInv
<1> SUFFICES ASSUME EnergyInit PROVE EnergyInv
  OBVIOUS
<1>1. Zero = [n |-> 0, d |-> 1] /\ Zero \in Rational /\ Value(Zero, 0, 1)
  <2>1. Value(Int2Rat(0), 0 * 1, 1) /\ 0 * 1 = 0
    BY IntIs
  <2> QED BY <2>1, IntIs DEF Zero
<1>2. counter \in Nat /\ MaxTotal \in Nat /\ MaxPolls \in Nat
  BY BoundAssumption DEF EnergyInit
<1>3. EnergyTypeOK
  <2>1. energy \in [Phases -> Rational \cup {Invalid}] /\ saved \in [Phases -> Rational]
    BY <1>1 DEF EnergyInit
  <2>2. /\ NoPrevious \in NoPrevious..MaxTotal /\ 0 \in 0..MaxPolls
        /\ FALSE \in BOOLEAN
    BY <1>2 DEF NoPrevious
  <2>3. /\ total = NoPrevious /\ prev = NoPrevious /\ asked = FALSE /\ lost = FALSE
        /\ polls = 0 /\ sunspec \in BOOLEAN /\ phaseCount \in Phases
        /\ phase \in InverterPhase /\ counter \in 0..MaxTotal
    BY DEF EnergyInit
  <2> QED BY <2>1, <2>2, <2>3 DEF EnergyTypeOK
<1>4. OnePhaseShown
  BY DEF EnergyInit, OnePhaseShown, Valid, Invalid
<1>5. AskedForPhases
  BY DEF EnergyInit, AskedForPhases
<1>6. ASSUME phaseCount > 1
      PROVE  /\ \A p \in Connected : AtMost(saved[p], EnergyValue(p))
             /\ AtMost(Accumulated, Int2Rat(counter))
  <2>1. Counters /\ Connected \subseteq Phases
    BY <1>3, <1>6, CountersAre
  <2>2. \A p \in Phases : saved[p] = Zero /\ EnergyValue(p) = Zero
    BY DEF EnergyInit, EnergyValue, Normal, Invalid
  <2>3. \A p \in Connected : AtMost(saved[p], EnergyValue(p))
    BY <1>1, <2>1, <2>2, AtMostRefl
  <2> DEFINE f == [p \in Phases |-> EnergyValue(p)]
             a == [p \in Phases |-> 0]
  <2>4. TotalVi(a) = 0
    BY <2>1 DEF TotalVi, Counters, Phases
  <2>5. \A p \in Connected : Value(f[p], a[p], 1)
    BY <1>1, <2>1, <2>2
  <2> HIDE DEF f, a
  <2>6. Value(Sum(f), 0, 1)
    BY <2>1, <2>4, <2>5, SumValue DEF Counters
  <2>7. Value(Int2Rat(counter), counter * 1, 1)
    BY <1>2, IntIs
  <2>8. AtMost(Sum(f), Int2Rat(counter))
    BY <1>2, <2>6, <2>7, AtMostValue
  <2> QED BY <2>3, <2>8 DEF Accumulated, f
<1>7. WithinTotal
  BY <1>2, <1>6 DEF WithinTotal, EnergyInit, NoPrevious
<1> QED BY <1>3, <1>4, <1>5, <1>7 DEF EnergyInv

\* The inverter produces: there is more room for the counters.
LEMMA ProduceInv ==
    ASSUME EnergyInv, Produce
    PROVE  EnergyInv'
<1>1. EnergyTypeOK' /\ AskedForPhases' /\ OnePhaseShown'
  <2>1. counter' \in 0..MaxTotal
    BY BoundAssumption DEF EnergyInv, EnergyTypeOK, Produce
  <2>2. EnergyTypeOK'
    BY <2>1 DEF EnergyInv, EnergyTypeOK, Produce
  <2> QED BY <2>2 DEF EnergyInv, Produce, AskedForPhases, OnePhaseShown
<1>2. WithinTotal'
  <2> SUFFICES ASSUME phaseCount > 1, ~lost PROVE WithinTotal'
    BY DEF WithinTotal, Produce
  <2>1. Counters /\ Connected \subseteq Phases /\ counter \in Nat
    BY CountersAre DEF EnergyInv
  <2>2. counter + 1 \in Nat /\ counter' = counter + 1
    BY <2>1 DEF Produce
  <2>3. AtMost(Int2Rat(counter), Int2Rat(counter'))
    BY <2>1, <2>2, IntAtMost
  <2>4. AtMost(Accumulated, Int2Rat(counter)) /\ Accumulated \in Rational
    BY <2>1, AccumulatedIs DEF EnergyInv, WithinTotal
  <2>5. AtMost(Accumulated, Int2Rat(counter'))
    BY <2>1, <2>2, <2>3, <2>4, AtMostTrans, IntIs
  <2>6. /\ Connected' = Connected
        /\ \A p : EnergyValue(p)' = EnergyValue(p)
        /\ Accumulated' = Accumulated
    BY Kept DEF Produce
  <2>7. total <= counter' /\ (prev # NoPrevious => prev <= counter')
    <3>1. total \in Int /\ prev \in Int
      BY DEF EnergyInv, EnergyTypeOK
    <3>2. total <= counter /\ (prev # NoPrevious => prev <= counter)
      BY DEF EnergyInv, WithinTotal
    <3> QED BY <2>1, <2>2, <3>1, <3>2
  <2> QED BY <2>5, <2>6, <2>7 DEF EnergyInv, WithinTotal, Produce
<1> QED BY <1>1, <1>2 DEF EnergyInv

\* One phase gets a copy of the total; several keep what they have.
LEMMA CopiedFine ==
    ASSUME EnergyInv, NEW new \in Nat
    PROVE  /\ Copied(new) \in [Phases -> Rational \cup {Invalid}]
           /\ phaseCount > 1 => Copied(new) = energy
           /\ phaseCount = 1 /\ phase # MultiPhase =>
                \A p \in Phases : Valid(Copied(new)[p]) => p = phase
<1>1. energy \in [Phases -> Rational \cup {Invalid}] /\ phase \in InverterPhase
  BY DEF EnergyInv, EnergyTypeOK
<1>2. Int2Rat(new) \in Rational
  BY IntIs
<1>3. CASE phaseCount > 1
  BY <1>1, <1>3 DEF Copied, Phase
<1>4. CASE ~(phaseCount > 1)
  <2>1. Phase = phase
    BY <1>4 DEF Phase
  <2>2. CASE phase = MultiPhase
    BY <1>1, <1>4, <2>1, <2>2 DEF Copied
  <2>3. CASE phase # MultiPhase
    <3>1. Copied(new) = [energy EXCEPT ![phase] = Int2Rat(new)]
      BY <2>1, <2>3 DEF Copied
    <3>2. \A p \in Phases : Copied(new)[p] = IF p = phase THEN Int2Rat(new) ELSE energy[p]
      BY <1>1, <3>1
    <3>3. Copied(new) \in [Phases -> Rational \cup {Invalid}]
      BY <1>1, <1>2, <3>1
    <3>4. phaseCount = 1 => \A p \in Phases : Valid(energy[p]) => p = phase
      BY <2>3 DEF EnergyInv, OnePhaseShown
    <3> QED BY <1>4, <3>2, <3>3, <3>4
  <2> QED BY <2>2, <2>3
<1> QED BY <1>3, <1>4

\* The common data: the phases are shared out over next.
LEMMA CommonDataInv ==
    ASSUME EnergyInv, ProcessCommonData
    PROVE  EnergyInv'
<1>1. counter \in Nat /\ MaxTotal \in Nat /\ counter <= MaxTotal
  BY BoundAssumption DEF EnergyInv, EnergyTypeOK
<1>2. total' \in Nat /\ total' <= MaxTotal
  BY <1>1 DEF ProcessCommonData
<1>3. /\ energy' \in [Phases -> Rational \cup {Invalid}]
      /\ phaseCount > 1 => energy' = energy
      /\ phaseCount = 1 /\ phase # MultiPhase =>
           \A p \in Phases : Valid(energy'[p]) => p = phase
  BY <1>2, CopiedFine DEF ProcessCommonData
<1>4. EnergyTypeOK'
  <2>1. polls' \in 0..MaxPolls /\ total' \in NoPrevious..MaxTotal
    BY <1>1, <1>2, BoundAssumption DEF EnergyInv, EnergyTypeOK,
          ProcessCommonData, NoPrevious
  <2>2. lost' \in BOOLEAN /\ asked' \in BOOLEAN
    BY DEF EnergyInv, EnergyTypeOK, ProcessCommonData
  <2> QED BY <1>3, <2>1, <2>2 DEF EnergyInv, EnergyTypeOK, ProcessCommonData
<1>5. AskedForPhases'
  BY <1>2 DEF ProcessCommonData, AskedForPhases
<1>6. OnePhaseShown'
  BY <1>3 DEF ProcessCommonData, OnePhaseShown
<1>7. WithinTotal'
  <2> SUFFICES ASSUME phaseCount > 1, ~lost' PROVE WithinTotal'
    BY DEF WithinTotal, ProcessCommonData
  <2>1. ~lost /\ total' = counter
    BY DEF ProcessCommonData
  <2>2. /\ Connected' = Connected
        /\ \A p : EnergyValue(p)' = EnergyValue(p)
        /\ Accumulated' = Accumulated
    BY <1>3, Kept DEF ProcessCommonData
  <2> QED BY <1>1, <2>1, <2>2 DEF EnergyInv, WithinTotal, ProcessCommonData
<1> QED BY <1>4, <1>5, <1>6, <1>7 DEF EnergyInv

\* The first answer with the phases leaves the counters alone, the next ones
\* share them out.
LEMMA SharedOutInv ==
    ASSUME EnergyInv, NEW new \in Nat, NEW vi \in Weights, phaseCount > 1,
           energy' = Redistributed(new, vi), prev' = new, new <= MaxTotal,
           ~asked', UNCHANGED <<sunspec, phaseCount, phase, counter, saved, lost>>,
           total' \in NoPrevious..MaxTotal, polls' \in 0..MaxPolls, asked' \in BOOLEAN,
           ~lost => /\ prev # NoPrevious => prev <= new
                    /\ AtMost(Accumulated, Int2Rat(new))
                    /\ new <= counter /\ total' <= counter
    PROVE  EnergyInv'
<1>1. Counters /\ Connected \subseteq Phases /\ counter \in Nat /\ Connected' = Connected
  BY CountersAre DEF EnergyInv, Connected
<1>2. AskedForPhases' /\ OnePhaseShown'
  BY DEF AskedForPhases, OnePhaseShown
<1>3. CASE prev = NoPrevious
  <2>1. energy' = energy
    BY <1>3 DEF Redistributed
  <2>2. EnergyTypeOK'
    BY <2>1 DEF EnergyInv, EnergyTypeOK, NoPrevious
  <2>3. /\ \A p : EnergyValue(p)' = EnergyValue(p)
        /\ Accumulated' = Accumulated
    BY <2>1, Kept
  <2>4. WithinTotal'
    BY <1>1, <2>3 DEF EnergyInv, WithinTotal
  <2> QED BY <1>2, <2>2, <2>4 DEF EnergyInv
<1>4. CASE prev # NoPrevious
  <2>1. /\ energy' \in [Phases -> Rational \cup {Invalid}]
        /\ ~lost /\ prev <= new =>
             /\ \A p \in Connected : AtMost(saved'[p], EnergyValue(p)')
             /\ AtMost(Accumulated', Int2Rat(new))
    BY <1>4, RedistributedFine
  <2>2. EnergyTypeOK'
    BY <2>1 DEF EnergyInv, EnergyTypeOK, NoPrevious
  <2>3. ASSUME ~lost
        PROVE  AtMost(Accumulated', Int2Rat(counter))
    <3>1. Counters'
      BY <2>2, <1>1 DEF Counters, EnergyTypeOK
    <3>2. Accumulated' \in Rational
      <4> DEFINE f == [p \in Phases |-> EnergyValue(p)']
      <4>1. \A p \in Phases : EnergyValue(p)' \in Rational
        <5> TAKE p \in Phases
        <5>1. energy'[p] # Invalid => energy'[p] \in Rational
          BY <3>1 DEF Counters
        <5>2. Normal(energy'[p]) => energy'[p] # Invalid
          BY DEF Normal, Invalid
        <5>3. saved'[p] \in Rational
          BY <3>1 DEF Counters
        <5> QED BY <5>1, <5>2, <5>3 DEF EnergyValue
      <4>2. \A p \in Connected : f[p] \in Rational /\ AtMost(f[p], f[p])
        BY <1>1, <4>1, AtMostRefl
      <4>3. Accumulated' = Sum(f)
        BY DEF Accumulated, Sum
      <4> HIDE DEF f
      <4> QED BY <1>1, <4>2, <4>3, SumGrows DEF Counters
    <3>3. AtMost(Int2Rat(new), Int2Rat(counter))
      BY <1>1, <2>3, IntAtMost
    <3> QED BY <1>1, <1>4, <2>1, <2>3, <3>2, <3>3, AtMostTrans, IntIs
  <2>4. WithinTotal'
    BY <1>1, <1>4, <2>1, <2>3 DEF WithinTotal
  <2> QED BY <1>2, <2>2, <2>4 DEF EnergyInv
<1> QED BY <1>3, <1>4

\* The phases in an answer of their own.
LEMMA ThreePhasesInv ==
    ASSUME EnergyInv, NEW vi \in Weights, ProcessThreePhasesData(vi)
    PROVE  EnergyInv'
<1>1. phaseCount > 1 /\ total \in Nat /\ total <= MaxTotal
  BY DEF EnergyInv, AskedForPhases, EnergyTypeOK, ProcessThreePhasesData
<1>2. /\ energy' = Redistributed(total, vi) /\ prev' = total /\ total' = total
      /\ polls' = polls /\ asked' = FALSE
      /\ UNCHANGED <<sunspec, phaseCount, phase, counter, saved, lost>>
  BY DEF ProcessThreePhasesData
<1>3. total' \in NoPrevious..MaxTotal /\ polls' \in 0..MaxPolls
  BY <1>2 DEF EnergyInv, EnergyTypeOK
<1>4. ~lost => /\ prev # NoPrevious => prev <= total
               /\ AtMost(Accumulated, Int2Rat(total))
               /\ total <= counter
  BY <1>1 DEF EnergyInv, WithinTotal, ProcessThreePhasesData
<1> QED BY <1>1, <1>2, <1>3, <1>4, SharedOutInv

\* The common data and the phases in one frame, or the split phase.
LEMMA FrameInv ==
    ASSUME EnergyInv, NEW vi \in Weights, ProcessFrame(vi)
    PROVE  EnergyInv'
<1>1. /\ counter \in Nat /\ counter <= MaxTotal /\ MaxTotal \in Nat /\ ~asked
      /\ phaseCount \in 1..3
  BY BoundAssumption DEF EnergyInv, EnergyTypeOK, AskedForPhases, ProcessFrame,
        Phases
<1>2. total' = counter /\ total' \in NoPrevious..MaxTotal /\ polls' \in 0..MaxPolls
  BY <1>1, BoundAssumption DEF EnergyInv, EnergyTypeOK, ProcessFrame, NoPrevious
<1>3. CASE phaseCount > 1
  <2>1. /\ energy' = Redistributed(counter, vi) /\ prev' = counter /\ asked' = FALSE
        /\ UNCHANGED <<sunspec, phaseCount, phase, counter, saved, lost>>
    BY <1>1, <1>3 DEF ProcessFrame, EnergyInv, EnergyTypeOK
  <2>2. ~lost => /\ prev # NoPrevious => prev <= counter
                 /\ AtMost(Accumulated, Int2Rat(counter))
                 /\ counter <= counter /\ total' <= counter
    BY <1>1, <1>2, <1>3 DEF EnergyInv, WithinTotal
  <2>3. asked' \in BOOLEAN /\ ~asked'
    BY <2>1
  <2> QED BY <2>3, <1>1, <1>2, <1>3, <2>1, <2>2, SharedOutInv
<1>4. CASE ~(phaseCount > 1)
  <2>1. phaseCount = 1 /\ Phase = phase
    BY <1>1, <1>4 DEF Phase
  <2>2. energy' = IF phase = MultiPhase THEN SplitPhase(counter) ELSE Copied(counter)
    BY <2>1 DEF ProcessFrame
  <2>3. SplitPhase(counter) \in [Phases -> Rational \cup {Invalid}]
    <3>1. counter * WhPerKWh \in Nat
      BY <1>1 DEF WhPerKWh
    <3>2. Rat(counter * WhPerKWh, 2) \in Rational
      <4>1. Value(Rat(counter * WhPerKWh, 2), counter * WhPerKWh, 2)
        BY <3>1, RatValue
      <4> QED BY <4>1 DEF Value
    <3>3. \A p \in Phases : SplitPhase(counter)[p] \in Rational \cup {Invalid}
      BY <3>2 DEF SplitPhase, EnergyInv, EnergyTypeOK
    <3> QED BY <3>3 DEF SplitPhase
  <2>4. /\ energy' \in [Phases -> Rational \cup {Invalid}]
        /\ phase # MultiPhase => \A p \in Phases : Valid(energy'[p]) => p = phase
    BY <1>1, <2>1, <2>2, <2>3, CopiedFine
  <2>5. EnergyTypeOK'
    BY <1>2, <1>4, <2>4 DEF EnergyInv, EnergyTypeOK, ProcessFrame
  <2>6. OnePhaseShown'
    BY <2>4 DEF OnePhaseShown, ProcessFrame
  <2>7. AskedForPhases' /\ WithinTotal'
    BY <1>1, <1>4 DEF AskedForPhases, WithinTotal, ProcessFrame
  <2> QED BY <2>5, <2>6, <2>7 DEF EnergyInv
<1> QED BY <1>3, <1>4

\* The phases are not answered: everything stays.
LEMMA FailInv ==
    ASSUME EnergyInv, ThreePhasesFail
    PROVE  EnergyInv'
<1>1. EnergyTypeOK' /\ AskedForPhases' /\ OnePhaseShown'
  BY DEF EnergyInv, EnergyTypeOK, AskedForPhases, OnePhaseShown, ThreePhasesFail
<1>2. /\ Connected' = Connected
      /\ \A p : EnergyValue(p)' = EnergyValue(p)
      /\ Accumulated' = Accumulated
  BY Kept DEF ThreePhasesFail
<1>3. WithinTotal'
  BY <1>2 DEF EnergyInv, WithinTotal, ThreePhasesFail
<1> QED BY <1>1, <1>3 DEF EnergyInv

\* Saving the counters changes nothing about what the phases go on from.
LEMMA SavedInv ==
    ASSUME EnergyInv, UpdateEnergySettings
    PROVE  EnergyInv'
<1>1. /\ saved' = [p \in Phases |-> IF Normal(energy[p]) THEN energy[p] ELSE saved[p]]
      /\ UNCHANGED <<sunspec, phaseCount, phase, counter, total, energy, prev, asked, lost,
                     polls>>
  BY DEF UpdateEnergySettings
<1>2. \A p \in Phases : saved'[p] \in Rational
  <2> TAKE p \in Phases
  <2>1. energy[p] # Invalid => energy[p] \in Rational
    BY DEF EnergyInv, EnergyTypeOK
  <2>2. Normal(energy[p]) => energy[p] # Invalid
    BY DEF Normal, Invalid
  <2> QED BY <1>1, <2>1, <2>2 DEF EnergyInv, EnergyTypeOK
<1>3. saved' \in [Phases -> Rational]
  BY <1>1, <1>2
<1>4. EnergyTypeOK' /\ AskedForPhases' /\ OnePhaseShown'
  BY <1>1, <1>3 DEF EnergyInv, EnergyTypeOK, AskedForPhases, OnePhaseShown
<1>5. ASSUME phaseCount > 1, ~lost
      PROVE  WithinTotal'
  <2>1. Counters /\ Connected \subseteq Phases /\ Connected' = Connected
    BY <1>1, <1>5, CountersAre DEF EnergyInv, Connected
  <2>2. \A p \in Phases : EnergyValue(p)' = EnergyValue(p) /\ saved'[p] = EnergyValue(p)
    BY <1>1 DEF EnergyValue
  <2>3. Accumulated' = Accumulated
    BY <1>1, <2>2 DEF Accumulated, Sum
  <2>4. \A p \in Connected : AtMost(saved'[p], EnergyValue(p)')
    BY <2>1, <2>2, AccumulatedIs, AtMostRefl
  <2> QED BY <1>1, <1>5, <2>1, <2>3, <2>4 DEF EnergyInv, WithinTotal
<1>6. WithinTotal'
  BY <1>1, <1>5 DEF WithinTotal
<1> QED BY <1>4, <1>6 DEF EnergyInv

\* An inverter of one phase moves: nothing is shown until the next answer.
LEMMA PhaseChangedInv ==
    ASSUME EnergyInv, OnPhaseChanged
    PROVE  EnergyInv'
<1>1. energy' \in [Phases -> Rational \cup {Invalid}]
  BY DEF EnergyInv, EnergyTypeOK, OnPhaseChanged
<1>2. EnergyTypeOK' /\ AskedForPhases'
  BY <1>1 DEF EnergyInv, EnergyTypeOK, AskedForPhases, OnPhaseChanged
<1>3. OnePhaseShown'
  BY DEF OnePhaseShown, OnPhaseChanged, Valid, Invalid
<1>4. ASSUME phaseCount > 1
      PROVE  WithinTotal'
  <2>1. /\ Connected' = Connected
        /\ \A p : EnergyValue(p)' = EnergyValue(p)
        /\ Accumulated' = Accumulated
    BY <1>4, Kept DEF OnPhaseChanged
  <2> QED BY <2>1 DEF EnergyInv, WithinTotal, OnPhaseChanged
<1>5. WithinTotal'
  BY <1>4 DEF WithinTotal, OnPhaseChanged
<1> QED BY <1>2, <1>3, <1>5 DEF EnergyInv

\* A new data processor goes on from what was saved, which is no more.
LEMMA RecreatedInv ==
    ASSUME EnergyInv, Recreated
    PROVE  EnergyInv'
<1>1. energy' = [p \in Phases |-> Invalid] /\ energy' \in [Phases -> Rational \cup {Invalid}]
  BY DEF Recreated
<1>2. EnergyTypeOK'
  <2>1. NoPrevious \in NoPrevious..MaxTotal
    BY BoundAssumption DEF NoPrevious
  <2> QED BY <1>1, <2>1 DEF EnergyInv, EnergyTypeOK, Recreated
<1>3. AskedForPhases' /\ OnePhaseShown'
  BY <1>1 DEF AskedForPhases, OnePhaseShown, Recreated, Valid, Invalid
<1>4. ASSUME phaseCount > 1, ~lost
      PROVE  WithinTotal'
  <2>1. Counters /\ Connected \subseteq Phases /\ Connected' = Connected /\ counter \in Nat
    BY <1>4, CountersAre DEF EnergyInv, Connected, Recreated
  <2>2. \A p \in Phases : EnergyValue(p)' = saved[p] /\ saved'[p] = saved[p]
    BY <1>1 DEF EnergyValue, Normal, Invalid, Recreated
  <2> DEFINE f == [p \in Phases |-> EnergyValue(p)']
             g == [p \in Phases |-> EnergyValue(p)]
  <2>3. \A p \in Connected : /\ f[p] \in Rational /\ g[p] \in Rational
                             /\ AtMost(f[p], g[p])
    <3>1. \A p \in Connected : AtMost(saved[p], EnergyValue(p))
      BY <1>4 DEF EnergyInv, WithinTotal
    <3> QED BY <2>1, <2>2, <3>1, AccumulatedIs DEF Counters
  <2>4. Accumulated' = Sum(f) /\ Accumulated = Sum(g)
    BY DEF Accumulated, Sum, Recreated
  <2> HIDE DEF f, g
  <2>5. AtMost(Accumulated', Accumulated) /\ Accumulated' \in Rational
    BY <2>1, <2>3, <2>4, SumGrows DEF Counters
  <2>6. AtMost(Accumulated, Int2Rat(counter)) /\ Accumulated \in Rational
    BY <1>4, <2>1, AccumulatedIs DEF EnergyInv, WithinTotal
  <2>7. AtMost(Accumulated', Int2Rat(counter))
    BY <2>1, <2>5, <2>6, AtMostTrans, IntIs
  <2>8. \A p \in Connected : AtMost(saved'[p], EnergyValue(p)')
    BY <2>1, <2>2, AtMostRefl DEF Counters
  <2>9. NoPrevious <= counter
    BY <2>1 DEF NoPrevious
  <2> QED BY <2>1, <2>7, <2>8, <2>9 DEF WithinTotal, Recreated
<1>5. WithinTotal'
  BY <1>4 DEF WithinTotal, Recreated
<1> QED BY <1>2, <1>3, <1>5 DEF EnergyInv

\* Every step keeps the invariant.
LEMMA EnergyNextInv == EnergyInv /\ [EnergyNext]_energyVars => EnergyInv'
<1> SUFFICES ASSUME EnergyInv, [EnergyNext]_energyVars PROVE EnergyInv'
  OBVIOUS
<1>1. CASE Produce
  BY <1>1, ProduceInv
<1>2. CASE ProcessCommonData
  BY <1>2, CommonDataInv
<1>3. ASSUME NEW vi \in Weights, ProcessThreePhasesData(vi)
      PROVE  EnergyInv'
  BY <1>3, ThreePhasesInv
<1>4. ASSUME NEW vi \in Weights, ProcessFrame(vi)
      PROVE  EnergyInv'
  BY <1>4, FrameInv
<1>5. CASE ThreePhasesFail
  BY <1>5, FailInv
<1>6. CASE UpdateEnergySettings
  BY <1>6, SavedInv
<1>7. CASE OnPhaseChanged
  BY <1>7, PhaseChangedInv
<1>8. CASE Recreated
  BY <1>8, RecreatedInv
<1>9. CASE UNCHANGED energyVars
  <2>1. EnergyTypeOK' /\ AskedForPhases' /\ OnePhaseShown'
    BY <1>9 DEF EnergyInv, EnergyTypeOK, AskedForPhases, OnePhaseShown, energyVars
  <2>2. /\ Connected' = Connected
        /\ \A p : EnergyValue(p)' = EnergyValue(p)
        /\ Accumulated' = Accumulated
    BY <1>9, Kept DEF energyVars
  <2>3. WithinTotal'
    BY <1>9, <2>2 DEF EnergyInv, WithinTotal, energyVars
  <2> QED BY <2>1, <2>3 DEF EnergyInv
<1> QED BY <1>1, <1>2, <1>3, <1>4, <1>5, <1>6, <1>7, <1>8, <1>9 DEF EnergyNext

\* The invariant always holds.
LEMMA EnergyInvariance == EnergySpec => []EnergyInv
<1> QED BY EnergyInitInv, EnergyNextInv, PTL DEF EnergySpec

----------------------------------------------------------------------------
(* The energy: no phase has more than the inverter has produced, also when *)
(* answers leave the counter out.                                          *)

\* What an inverter that is asked by the Solar API, and so is saved, holds.
PhasesWithin ==
    /\ total <= counter /\ prev <= counter
    /\ \A p \in Phases : /\ AtMost(saved[p], Int2Rat(counter))
                         /\ ~sunspec => AtMost(energy[p], Int2Rat(counter))

\* A phase without a counter fits, and what fits goes on to do so.
LEMMA Fits ==
    ASSUME NEW c \in Nat
    PROVE  /\ AtMost(Invalid, Int2Rat(c)) /\ AtMost(Zero, Int2Rat(c))
           /\ \A m \in Nat, e \in Rational \cup {Invalid} :
                m <= c /\ AtMost(e, Int2Rat(m)) => AtMost(e, Int2Rat(c))
<1>1. AtMost(Invalid, Int2Rat(c))
  BY IntIs DEF AtMost, Invalid
<1>2. AtMost(Zero, Int2Rat(c))
  BY IntAtMost DEF Zero
<1>3. ASSUME NEW m \in Nat, NEW e \in Rational \cup {Invalid}, m <= c, AtMost(e, Int2Rat(m))
      PROVE  AtMost(e, Int2Rat(c))
  <2>1. AtMost(Int2Rat(m), Int2Rat(c)) /\ Int2Rat(m) \in Rational /\ Int2Rat(c) \in Rational
    BY <1>3, IntAtMost, IntIs
  <2> QED BY <1>1, <1>3, <2>1, AtMostTrans
<1> QED BY <1>1, <1>2, <1>3

\* Sharing out gives no phase more than the inverter has produced, although the
\* total may have fallen to 0.
LEMMA RedistributedFits ==
    ASSUME EnergyInv, PhasesWithin, ~sunspec, NEW new \in Nat, new <= counter,
           NEW vi \in Weights, phaseCount > 1
    PROVE  \A p \in Phases : AtMost(Redistributed(new, vi)[p], Int2Rat(counter))
<1> DEFINE f == Redistributed(new, vi)
<1>1. /\ Counters /\ Connected \subseteq Phases /\ counter \in Nat
      /\ prev # NoPrevious => prev \in Nat
  BY CountersAre DEF EnergyInv
<1>2. vi \in [Phases -> Nat]
  BY WeightAssumption DEF Phases
<1>3. \A p \in Phases : AtMost(energy[p], Int2Rat(counter))
  BY DEF PhasesWithin
<1>4. CASE prev = NoPrevious
  BY <1>3, <1>4 DEF Redistributed
<1>5. CASE prev # NoPrevious
  <2>1. /\ \A p \in Connected : f[p] = PhaseEnergy(p, new, vi)
        /\ \A p \in Phases \ Connected : f[p] = energy[p]
    BY <1>1, <1>5 DEF Redistributed
  <2> HIDE DEF f
  <2>2. /\ \A p \in Connected : f[p] \in Rational
        /\ Sum(f) = Int2Rat(prev + Shared(new, vi))
    BY <1>1, <1>2, <1>5, <2>1, Shares
  <2>3. prev + Shared(new, vi) \in Nat /\ prev + Shared(new, vi) <= counter
    BY <1>1, <1>5 DEF Shared, Delta, PhasesWithin
  <2>4. AtMost(Sum(f), Int2Rat(counter))
    BY <1>1, <2>2, <2>3, IntAtMost
  <2>5. \A p \in Connected : AtMost(f[p], Int2Rat(counter))
    <3> TAKE p \in Connected
    <3>1. AtMost(f[p], Sum(f)) /\ Sum(f) \in Rational
      BY <1>1, <2>2, PartOfSum DEF Counters
    <3> QED BY <1>1, <2>2, <2>4, <3>1, AtMostTrans, IntIs
  <2>6. \A p \in Phases : AtMost(f[p], Int2Rat(counter))
    BY <1>3, <2>1, <2>5
  <2> QED BY <2>6 DEF f
<1> QED BY <1>4, <1>5

\* Nothing was produced, shown or saved before.
LEMMA PhasesInit == EnergyInit => PhasesWithin
<1> SUFFICES ASSUME EnergyInit PROVE PhasesWithin
  OBVIOUS
<1>1. counter \in Nat
  BY BoundAssumption DEF EnergyInit
<1>2. \A p \in Phases : AtMost(saved[p], Int2Rat(counter)) /\ AtMost(energy[p], Int2Rat(counter))
  BY <1>1, Fits DEF EnergyInit
<1> QED BY <1>1, <1>2 DEF EnergyInit, PhasesWithin, NoPrevious

\* No step gives a phase more.
LEMMA PhasesNext == EnergyInv /\ PhasesWithin /\ [EnergyNext]_energyVars => PhasesWithin'
<1> SUFFICES ASSUME EnergyInv, PhasesWithin, [EnergyNext]_energyVars PROVE PhasesWithin'
  OBVIOUS
<1>1. /\ counter \in Nat /\ total \in Int /\ prev \in Int
      /\ \A p \in Phases : /\ energy[p] \in Rational \cup {Invalid}
                           /\ saved[p] \in Rational
  BY BoundAssumption DEF EnergyInv, EnergyTypeOK
<1>2. CASE Produce
  <2>1. /\ counter' \in Nat /\ counter <= counter'
        /\ sunspec' = sunspec /\ total' = total /\ energy' = energy /\ saved' = saved
        /\ prev' = prev
    BY <1>1, <1>2 DEF Produce
  <2>2. \A e \in Rational \cup {Invalid} :
          AtMost(e, Int2Rat(counter)) => AtMost(e, Int2Rat(counter'))
    BY <1>1, <2>1, Fits
  <2>3. \A p \in Phases : /\ AtMost(saved[p], Int2Rat(counter'))
                          /\ ~sunspec => AtMost(energy[p], Int2Rat(counter'))
    BY <1>1, <2>2 DEF PhasesWithin
  <2>4. total' <= counter' /\ prev' <= counter'
    BY <1>1, <2>1 DEF PhasesWithin
  <2>5. \A p \in Phases : /\ AtMost(saved'[p], Int2Rat(counter'))
                          /\ ~sunspec' => AtMost(energy'[p], Int2Rat(counter'))
    BY <2>1, <2>3, Zenon
  <2> QED BY <2>4, <2>5 DEF PhasesWithin
<1>3. CASE ProcessCommonData
  <2>1. /\ total' \in {counter, 0} /\ energy' = Copied(total')
        /\ UNCHANGED <<sunspec, counter, saved, prev>>
    BY <1>3 DEF ProcessCommonData
  <2>2. total' \in Nat /\ total' <= counter
    BY <1>1, <2>1
  <2>3. AtMost(Int2Rat(total'), Int2Rat(counter))
    BY <1>1, <2>2, IntAtMost
  <2>4. \A p \in Phases : energy'[p] \in {energy[p], Int2Rat(total')}
    BY <2>1 DEF Copied, EnergyInv, EnergyTypeOK
  <2> QED BY <2>1, <2>2, <2>3, <2>4 DEF PhasesWithin
<1>4. ASSUME NEW vi \in Weights, ProcessThreePhasesData(vi)
      PROVE  PhasesWithin'
  <2>1. /\ energy' = Redistributed(total, vi) /\ prev' = total
        /\ UNCHANGED <<sunspec, counter, total, saved>>
    BY <1>4 DEF ProcessThreePhasesData
  <2>2. ~sunspec /\ phaseCount > 1 /\ total \in Nat /\ total <= counter
    BY <1>4 DEF ProcessThreePhasesData, EnergyInv, AskedForPhases, PhasesWithin
  <2>3. \A p \in Phases : AtMost(energy'[p], Int2Rat(counter))
    BY <2>1, <2>2, RedistributedFits
  <2> QED BY <2>1, <2>2, <2>3 DEF PhasesWithin
<1>5. ASSUME NEW vi \in Weights, ProcessFrame(vi)
      PROVE  PhasesWithin'
  BY <1>1, <1>5 DEF ProcessFrame, PhasesWithin
<1>6. CASE UpdateEnergySettings
  <2>1. /\ \A p \in Phases : saved'[p] \in {energy[p], saved[p]}
        /\ ~sunspec /\ UNCHANGED <<sunspec, counter, total, energy, prev>>
    BY <1>6 DEF UpdateEnergySettings
  <2> QED BY <2>1 DEF PhasesWithin
<1>7. CASE OnPhaseChanged
  <2>1. /\ \A p \in Phases : energy'[p] \in {energy[p], Invalid}
        /\ UNCHANGED <<sunspec, counter, total, saved, prev>>
    BY <1>7 DEF OnPhaseChanged
  <2>2. AtMost(Invalid, Int2Rat(counter))
    BY <1>1, Fits
  <2> QED BY <2>1, <2>2 DEF PhasesWithin
<1>8. CASE Recreated
  <2>1. /\ \A p \in Phases : energy'[p] = Invalid
        /\ total' = NoPrevious /\ prev' = NoPrevious /\ UNCHANGED <<counter, saved>>
    BY <1>8 DEF Recreated
  <2>2. AtMost(Invalid, Int2Rat(counter)) /\ NoPrevious <= counter
    BY <1>1, Fits DEF NoPrevious
  <2> QED BY <2>1, <2>2 DEF PhasesWithin
<1>9. CASE ThreePhasesFail \/ UNCHANGED energyVars
  BY <1>9 DEF ThreePhasesFail, energyVars, PhasesWithin
<1> QED BY <1>2, <1>3, <1>4, <1>5, <1>6, <1>7, <1>8, <1>9 DEF EnergyNext

\* So no phase ever has more.
LEMMA PhasesAlwaysWithin == EnergySpec => []PhasesWithin
<1> QED BY PhasesInit, PhasesNext, EnergyInvariance, PTL DEF EnergySpec

----------------------------------------------------------------------------
(* The energy: theorems.                                                   *)

\* No counter is ever negative or the result of a division by zero, for any
\* weights and however long the inverter reports nothing.
THEOREM EnergyTypeCorrect == EnergySpec => []EnergyTypeOK
<1>1. EnergyInv => EnergyTypeOK
  BY DEF EnergyInv
<1> QED BY <1>1, EnergyInvariance, PTL

\* A single-phase inverter shows its energy on one phase only, also after the
\* user moved it, in whatever order answers and moves come.
THEOREM OnePhaseAtATime == EnergySpec => []OnePhaseShown
<1>1. EnergyInv => OnePhaseShown
  BY DEF EnergyInv
<1> QED BY <1>1, EnergyInvariance, PTL

\* What updateEnergySettings saves for a phase never exceeds what the inverter
\* has produced, for any number of answers, with or without the counter, any
\* weights and whenever the program is restarted; as long as each answer held
\* the counter, nor does what it saves for all of them.
THEOREM SavedFits == EnergySpec => []SavedWithinTotal
<1>1. EnergyInv /\ PhasesWithin => SavedWithinTotal
  <2> SUFFICES ASSUME EnergyInv, phaseCount > 1, ~lost
               PROVE  AtMost(Sum(saved), Int2Rat(counter))
    BY DEF SavedWithinTotal, PhasesWithin
  <2>1. Counters /\ Connected \subseteq Phases /\ counter \in Nat
    BY CountersAre DEF EnergyInv
  <2> DEFINE g == [p \in Phases |-> EnergyValue(p)]
  <2>2. \A p \in Connected : /\ saved[p] \in Rational /\ g[p] \in Rational
                             /\ AtMost(saved[p], g[p])
    <3>1. \A p \in Connected : AtMost(saved[p], EnergyValue(p))
      BY DEF EnergyInv, WithinTotal
    <3> QED BY <2>1, <3>1, AccumulatedIs DEF Counters
  <2> HIDE DEF g
  <2>3. Sum(saved) \in Rational /\ Sum(g) \in Rational /\ AtMost(Sum(saved), Sum(g))
    BY <2>1, <2>2, SumGrows DEF Counters
  <2>4. AtMost(Sum(g), Int2Rat(counter))
    BY DEF EnergyInv, WithinTotal, Accumulated, g
  <2> QED BY <2>1, <2>3, <2>4, AtMostTrans, IntIs
<1> QED BY <1>1, EnergyInvariance, PhasesAlwaysWithin, PTL

\* The sum of the phases does not drift from the total: each answer makes it the
\* previous total plus the increase, exactly, for any totals and weights.
THEOREM SumDoesNotDrift == EnergySpec => SumFollowsTotal
<1>1. EnergyInv /\ [EnergyNext]_energyVars =>
        [\A vi \in Weights :
           (/\ ProcessThreePhasesData(vi) \/ (phaseCount > 1 /\ ProcessFrame(vi))
            /\ prev # NoPrevious)
           => Sum(energy)' = Int2Rat(prev + Shared(total', vi))]_energyVars
  <2> SUFFICES ASSUME EnergyInv, NEW vi \in Weights, prev # NoPrevious,
                      ProcessThreePhasesData(vi) \/ (phaseCount > 1 /\ ProcessFrame(vi))
               PROVE  Sum(energy)' = Int2Rat(prev + Shared(total', vi))
    OBVIOUS
  <2>1. CASE ProcessThreePhasesData(vi)
    <3>1. phaseCount > 1 /\ total \in Nat /\ total' = total
      BY <2>1 DEF EnergyInv, AskedForPhases, ProcessThreePhasesData
    <3>2. energy' = Redistributed(total, vi) /\ UNCHANGED <<phaseCount, saved>>
      BY <2>1 DEF ProcessThreePhasesData
    <3> QED BY <3>1, <3>2, RedistributedFine
  <2>2. CASE phaseCount > 1 /\ ProcessFrame(vi)
    <3>1. counter \in Nat /\ total' = counter
      BY <2>2, CountersAre DEF EnergyInv, ProcessFrame
    <3>2. energy' = Redistributed(counter, vi) /\ UNCHANGED <<phaseCount, saved>>
      BY <2>2 DEF ProcessFrame
    <3> QED BY <2>2, <3>1, <3>2, RedistributedFine
  <2> QED BY <2>1, <2>2
<1> QED BY <1>1, EnergyInvariance, PTL DEF EnergySpec, SumFollowsTotal

\* As long as every answer holds the counter, no phase loses energy when the
\* counters are rescaled, saved or taken from the settings again.
THEOREM CountersOnlyGrow == EnergySpec => CountersNeverFall
<1>1. EnergyInv /\ [EnergyNext]_energyVars =>
        [(~lost' /\ phaseCount > 1 /\ prev # NoPrevious /\ prev' # NoPrevious) =>
            \A p \in Connected : AtMost(EnergyValue(p), EnergyValue(p)')]_energyVars
  <2> SUFFICES ASSUME EnergyInv, EnergyNext, ~lost', phaseCount > 1, prev # NoPrevious,
                      prev' # NoPrevious, NEW p \in Connected
               PROVE  AtMost(EnergyValue(p), EnergyValue(p)')
    OBVIOUS
  <2>1. Counters /\ p \in Phases
    BY CountersAre DEF EnergyInv
  <2>2. EnergyValue(p) \in Rational
    BY <2>1, AccumulatedIs
  <2>3. ASSUME EnergyValue(p)' = EnergyValue(p)
        PROVE  AtMost(EnergyValue(p), EnergyValue(p)')
    BY <2>2, <2>3, AtMostRefl
  <2>4. CASE Produce
    BY <2>3, <2>4 DEF Produce, EnergyValue
  <2>5. CASE ProcessCommonData
    <3>1. energy' = energy /\ saved' = saved
      BY <2>5 DEF ProcessCommonData, Copied, Phase
    <3> QED BY <2>3, <3>1 DEF EnergyValue
  <2>6. ASSUME NEW vi \in Weights, ProcessThreePhasesData(vi)
        PROVE  AtMost(EnergyValue(p), EnergyValue(p)')
    <3>1. total \in Nat /\ ~lost
      BY <2>6 DEF EnergyInv, AskedForPhases, ProcessThreePhasesData
    <3>2. energy' = Redistributed(total, vi) /\ UNCHANGED <<phaseCount, saved>>
      BY <2>6 DEF ProcessThreePhasesData
    <3>3. prev <= total
      BY <2>6, <3>1 DEF EnergyInv, WithinTotal, ProcessThreePhasesData
    <3> QED BY <3>1, <3>2, <3>3, RedistributedFine
  <2>7. ASSUME NEW vi \in Weights, ProcessFrame(vi)
        PROVE  AtMost(EnergyValue(p), EnergyValue(p)')
    <3>1. counter \in Nat /\ ~lost
      BY <2>7, CountersAre DEF EnergyInv, ProcessFrame
    <3>2. energy' = Redistributed(counter, vi) /\ UNCHANGED <<phaseCount, saved>>
      BY <2>7 DEF ProcessFrame
    <3>3. prev <= counter
      BY <3>1 DEF EnergyInv, WithinTotal
    <3> QED BY <3>1, <3>2, <3>3, RedistributedFine
  <2>8. CASE ThreePhasesFail
    BY <2>3, <2>8 DEF ThreePhasesFail, EnergyValue
  <2>9. CASE UpdateEnergySettings
    <3>1. EnergyValue(p)' = EnergyValue(p)
      BY <2>1, <2>9 DEF UpdateEnergySettings, EnergyValue
    <3> QED BY <2>3, <3>1
  <2>10. CASE OnPhaseChanged
    BY <2>3, <2>10 DEF OnPhaseChanged, EnergyValue
  <2>11. CASE Recreated
    BY <2>11 DEF Recreated
  <2> QED BY <2>4, <2>5, <2>6, <2>7, <2>8, <2>9, <2>10, <2>11 DEF EnergyNext
<1> QED BY <1>1, EnergyInvariance, PTL DEF EnergySpec, CountersNeverFall

----------------------------------------------------------------------------
(* The settings.                                                           *)

\* The values of settings, their defaults and the migrated phase.
Contents == Names \cup {NoName, NoValue, "L1", "MultiPhase", "0", "1", "0.0"}
Requests == [call : {"get", "set"}, item : Items, value : Contents]
Messages == [item : Items, value : Contents, state : {"Synchronized", "Offline"}]

SettingsTypeOK ==
    /\ stored \in [Items -> Contents \cup {Missing}]
    /\ toStore \in Seq(Requests)
    /\ toProgram \in Seq(Messages)
    /\ value \in [Items -> Contents]
    /\ state \in [Items -> {"Requested", "Synchronized", "Offline"}]
    /\ mItems \in {Items, {}}

\* What localsettings has to say of the item i.
Told(i) == IF stored[i] = Missing THEN Refusal(i) ELSE Change(i, stored[i])

\* Nothing on its way to the program is about the item i.
Silent(i) == \A k \in 1..Len(toProgram) : toProgram[k].item # i

\* That is the last the program will hear of the item, or what it has heard.
ToldLast(i) ==
    \E k \in 1..Len(toProgram) :
        /\ toProgram[k] = Told(i)
        /\ \A j \in (k + 1)..Len(toProgram) : toProgram[j].item # i
Told0(i) == Silent(i) /\ value[i] = Told(i).value /\ state[i] = Told(i).state

\* The item is asked for, and nothing was heard of it so far.
Asked(i)   == \E k \in 1..Len(toStore) : toStore[k] = Get(i)
Waiting(i) == Silent(i) /\ state[i] = "Requested" /\ Asked(i)

CopiesFollow == \A i \in Items : ToldLast(i) \/ Told0(i) \/ Waiting(i)

\* The mediator was told that its settings are there exactly when all items have
\* been heard of.
Heard == initialized <=> CheckState(state)

\* A name that was given at the inverter is on its way: to localsettings, or
\* already back. (An inverter that was created before all settings were heard of
\* may have another name, until it is overwritten by one that has not.)
Sent(n)     == \E k \in 1..Len(toStore) : toStore[k] = Set("CustomName", n)
Returned(n) == \E k \in 1..Len(toProgram) : toProgram[k] = Change("CustomName", n)
RenameUnderWay ==
    initialized /\ customName # NotRunning /\ stored["CustomName"] # Missing
            /\ customName # value["CustomName"]
        => Sent(customName) \/ Returned(customName)

NamesInv ==
    /\ SettingsTypeOK
    /\ CopiesFollow
    /\ Heard
    /\ RenameUnderWay

----------------------------------------------------------------------------
LEMMA ItemsAre == Items = {"Phase", "CustomName", "IsActive", "L1Energy"}
<1>1. Items = {ItemList[k] : k \in DOMAIN ItemList}
  BY DEF Items
<1>2. DOMAIN ItemList = 1..4
  BY DEF ItemList
<1>3. /\ ItemList[1] = "Phase"
      /\ ItemList[2] = "CustomName"
      /\ ItemList[3] = "IsActive"
      /\ ItemList[4] = "L1Energy"
  BY DEF ItemList
<1> QED
  BY <1>1, <1>2, <1>3

LEMMA ContentsAre ==
    /\ Missing \notin Contents
    /\ \A i \in Items : Values[i] \subseteq Contents
    /\ \A i \in Items : Default(i) \in Contents
    /\ NoValue \in Contents
<1>1. Missing \notin Contents
  BY NameAssumption DEF Contents, Missing, NoValue
<1>2. ASSUME NEW i \in Items PROVE Values[i] \subseteq Contents
  <2>1. CASE i = "Phase"
    BY <2>1 DEF Values, Contents
  <2>2. CASE i = "CustomName"
    BY <2>2 DEF Values, Contents
  <2>3. CASE i = "IsActive"
    BY <2>3 DEF Values, Contents
  <2>4. CASE i = "L1Energy"
    BY <2>4 DEF Values, Contents
  <2> QED
    BY <2>1, <2>2, <2>3, <2>4, ItemsAre
<1>3. ASSUME NEW i \in Items PROVE Default(i) \in Contents
  BY ItemsAre DEF Default, Contents
<1>4. NoValue \in Contents
  BY DEF Contents
<1> QED
  BY <1>1, <1>2, <1>3, <1>4

\* What is asked for at the start.
LEMMA GetsAre ==
    /\ Gets \in Seq(Requests)
    /\ \A i \in Items : \E k \in 1..Len(Gets) : Gets[k] = Get(i)
<1>1. Len(ItemList) = 4 /\ ItemList \in Seq(Items)
  BY ItemsAre DEF ItemList
<1>2. /\ ItemList[1] = "Phase"
      /\ ItemList[2] = "CustomName"
      /\ ItemList[3] = "IsActive"
      /\ ItemList[4] = "L1Energy"
  BY DEF ItemList
<1>3. \A i \in Items : Get(i) \in Requests
  BY ContentsAre DEF Get, Requests
<1>4. Gets \in Seq(Requests) /\ Len(Gets) = 4
  <2>1. \A k \in 1..4 : ItemList[k] \in Items
    BY <1>2, ItemsAre
  <2>2. Gets = [k \in 1..4 |-> Get(ItemList[k])]
    BY <1>1 DEF Gets
  <2>3. \A k \in 1..4 : Get(ItemList[k]) \in Requests
    BY <1>3, <2>1
  <2> HIDE DEF Requests
  <2> QED BY <2>2, <2>3
<1>5. /\ Gets[1] = Get("Phase") /\ Gets[2] = Get("CustomName")
      /\ Gets[3] = Get("IsActive") /\ Gets[4] = Get("L1Energy")
  BY <1>1, <1>2 DEF Gets
<1> QED
  BY <1>4, <1>5, ItemsAre

\* The requests that a step appends.
LEMMA WritesAre ==
    /\ \A old : \A n \in Contents, val \in [Items -> Contents] :
          Renamed(old, n, val) \in Seq(Requests)
    /\ \A val \in [Items -> Contents] : Migration(val) \in Seq(Requests)
<1>1. \A i \in Items, v \in Contents : Set(i, v) \in Requests
  BY DEF Set, Requests
<1>2. \A i \in Items, v \in Contents : <<Set(i, v)>> \in Seq(Requests)
  BY <1>1
<1>3. <<>> \in Seq(Requests)
  OBVIOUS
<1>4. "MultiPhase" \in Contents
  BY DEF Contents
<1> QED
  BY <1>2, <1>3, <1>4, ItemsAre DEF Renamed, OnInverterCustomNameChanged, WriteName, Migration

LEMMA Appended ==
    ASSUME NEW S, NEW s \in Seq(S), NEW t \in Seq(S)
    PROVE  /\ s \o t \in Seq(S)
           /\ Len(s \o t) = Len(s) + Len(t)
           /\ \A k \in 1..Len(s) : (s \o t)[k] = s[k]
           /\ \A k \in 1..Len(t) : (s \o t)[Len(s) + k] = t[k]
OBVIOUS

\* w are the writes among the first requests, by their number.
WrittenTable(w, requests, n) ==
    w = [k \in 0..n |->
            IF k = 0 THEN <<>>
            ELSE IF requests[k].call = "set" THEN Append(w[k - 1], requests[k])
            ELSE w[k - 1]]

LEMMA WrittenExists ==
    ASSUME NEW requests, NEW n \in Nat
    PROVE  \E w : WrittenTable(w, requests, n)
<1> DEFINE S == {k \in Nat : \E w : WrittenTable(w, requests, k)}
<1>1. 0 \in S
  <2> DEFINE w == [k \in 0..0 |-> <<>>]
  <2>1. WrittenTable(w, requests, 0)
    BY DEF WrittenTable
  <2> QED BY <2>1
<1>2. ASSUME NEW k \in Nat, k \in S PROVE k + 1 \in S
  <2>1. PICK w : WrittenTable(w, requests, k)
    BY <1>2
  <2> DEFINE last == IF requests[k + 1].call = "set" THEN Append(w[k], requests[k + 1]) ELSE w[k]
             f    == [j \in 0..(k + 1) |-> IF j <= k THEN w[j] ELSE last]
  <2>2. \A j \in 0..k : w[j] = IF j = 0 THEN <<>>
                             ELSE IF requests[j].call = "set" THEN Append(w[j - 1], requests[j])
                             ELSE w[j - 1]
    BY <2>1 DEF WrittenTable
  <2>3. \A j \in 0..k : f[j] = w[j]
    OBVIOUS
  <2>4. f[k + 1] = last
    OBVIOUS
  <2>5. f = [j \in 0..(k + 1) |-> f[j]]
    OBVIOUS
  <2> HIDE DEF f
  <2>6. ASSUME NEW j \in 0..(k + 1)
        PROVE  f[j] = IF j = 0 THEN <<>>
                      ELSE IF requests[j].call = "set" THEN Append(f[j - 1], requests[j])
                      ELSE f[j - 1]
    <3>1. CASE j \in 0..k
      <4>1. j # 0 => j - 1 \in 0..k
        BY <3>1
      <4> QED BY <2>2, <2>3, <3>1, <4>1
    <3>2. CASE j = k + 1
      <4>1. f[j - 1] = w[k] /\ j # 0
        BY <2>3, <3>2
      <4> QED BY <2>4, <3>2, <4>1
    <3> QED BY <3>1, <3>2
  <2>7. WrittenTable(f, requests, k + 1)
    BY <2>5, <2>6 DEF WrittenTable
  <2> QED BY <2>7
<1> HIDE DEF S
<1>3. n \in S
  BY <1>1, <1>2, Induction
<1> QED BY <1>3 DEF S

LEMMA WrittenIs ==
    ASSUME NEW requests \in Seq(Requests)
    PROVE  Written(requests) \in Seq(Requests)
<1> DEFINE n == Len(requests)
           w == CHOOSE w : WrittenTable(w, requests, n)
           T == {k \in Nat : k <= n => w[k] \in Seq(Requests)}
<1>1. n \in Nat /\ \A k \in 1..n : requests[k] \in Requests
  OBVIOUS
<1>2. Written(requests) = w[n]
  BY DEF Written, WrittenTable
<1>3. WrittenTable(w, requests, n)
  BY <1>1, WrittenExists
<1> HIDE DEF w, n
<1>4. \A k \in 0..n : w[k] = IF k = 0 THEN <<>>
                           ELSE IF requests[k].call = "set" THEN Append(w[k - 1], requests[k])
                           ELSE w[k - 1]
  BY <1>3 DEF WrittenTable
<1>5. 0 \in T
  <2>1. 0 \in 0..n
    BY <1>1
  <2>2. w[0] = <<>>
    BY <1>4, <2>1
  <2>3. w[0] \in Seq(Requests)
    BY <2>2
  <2> QED BY <2>3
<1>6. ASSUME NEW k \in Nat, k \in T PROVE k + 1 \in T
  <2>1. SUFFICES ASSUME k + 1 <= n PROVE w[k + 1] \in Seq(Requests)
    OBVIOUS
  <2>2. w[k] \in Seq(Requests) /\ requests[k + 1] \in Requests
    BY <1>1, <1>6, <2>1
  <2>3. \/ w[k + 1] = Append(w[k], requests[k + 1])
        \/ w[k + 1] = w[k]
    <3>1. k + 1 \in 0..n /\ k + 1 # 0 /\ (k + 1) - 1 = k
      BY <1>1, <2>1
    <3> QED BY <1>4, <3>1
  <2>4. Append(w[k], requests[k + 1]) \in Seq(Requests)
    BY <2>2
  <2> QED BY <2>2, <2>3, <2>4
<1> HIDE DEF T
<1>7. n \in T
  BY <1>1, <1>5, <1>6, Induction
<1> QED BY <1>1, <1>2, <1>7 DEF T

----------------------------------------------------------------------------
\* The invariant at the start, and at a restart.
LEMMA Added ==
    ASSUME NEW failed, NEW st \in [Items -> Contents \cup {Missing}]
    PROVE  AddSettings(st, failed) \in [Items -> Contents \cup {Missing}]
BY ContentsAre DEF AddSettings

\* Whatever an item was, all are asked for.
LEMMA AllWaiting ==
    ASSUME toProgram' = <<>>, state' = [i \in Items |-> "Requested"],
           NEW before \in Seq(Requests), toStore' = before \o Gets
    PROVE  \A i \in Items : Waiting(i)'
<1> SUFFICES ASSUME NEW i \in Items PROVE Waiting(i)'
  OBVIOUS
<1>1. PICK k \in 1..Len(Gets) : Gets[k] = Get(i)
  BY GetsAre
<1>2. Len(toStore') = Len(before) + Len(Gets) /\ toStore'[Len(before) + k] = Gets[k]
  BY GetsAre, Appended, <1>1
<1>3. Asked(i)'
  BY <1>1, <1>2, GetsAre DEF Asked, Get
<1>4. Silent(i)'
  BY DEF Silent
<1> QED BY <1>3, <1>4 DEF Waiting

LEMMA SettingsInitInv == SettingsInit => NamesInv
<1> SUFFICES ASSUME SettingsInit PROVE NamesInv
  OBVIOUS
<1>1. \A i \in Items : Asked(i)
  BY GetsAre DEF SettingsInit, Asked
<1>2. CopiesFollow
  BY <1>1 DEF SettingsInit, CopiesFollow, Waiting, Silent
<1>3. stored \in [Items -> Contents \cup {Missing}]
  <2>1. PICK st \in Stores0, failed \in SUBSET Items : stored = AddSettings(st, failed)
    BY DEF SettingsInit
  <2>2. st \in [Items -> Contents \cup {Missing}]
    BY ContentsAre DEF Stores0
  <2> QED BY <2>1, <2>2, Added
<1>4. SettingsTypeOK
  BY <1>3, GetsAre, ContentsAre DEF SettingsInit, SettingsTypeOK
<1>5. Heard
  BY ItemsAre DEF SettingsInit, Heard, initialized, CheckState
<1>6. RenameUnderWay
  BY DEF SettingsInit, RenameUnderWay
<1> QED BY <1>2, <1>4, <1>5, <1>6 DEF NamesInv

LEMMA RestartInv ==
    ASSUME NamesInv, Restart
    PROVE  NamesInv'
<1>1. Written(toStore) \in Seq(Requests)
  BY WrittenIs DEF NamesInv, SettingsTypeOK
<1>2. CopiesFollow'
  BY <1>1, AllWaiting DEF Restart, CopiesFollow
<1>3. stored' \in [Items -> Contents \cup {Missing}]
  BY Added DEF Restart, NamesInv, SettingsTypeOK
<1>4. toStore' \in Seq(Requests)
  BY <1>1, GetsAre, Appended DEF Restart
<1>5. SettingsTypeOK'
  BY <1>3, <1>4, ContentsAre DEF Restart, SettingsTypeOK
<1>6. Heard'
  BY ItemsAre DEF Restart, Heard, initialized, CheckState
<1>7. RenameUnderWay'
  BY DEF Restart, RenameUnderWay
<1> QED BY <1>2, <1>5, <1>6, <1>7 DEF NamesInv

----------------------------------------------------------------------------
(* What localsettings does.                                                *)

\* An answer or an announcement is the last the program will hear.
LEMMA SaysMore ==
    ASSUME NamesInv, NEW i \in Items,
           toProgram' = Append(toProgram, Told(i)'), Told(i)' \in Messages,
           \A j \in Items \ {i} : stored'[j] = stored[j] /\ (Asked(j) => Asked(j)'),
           UNCHANGED <<value, state>>
    PROVE  CopiesFollow' /\ toProgram' \in Seq(Messages)
<1> DEFINE n == Len(toProgram)
<1>1. /\ toProgram \in Seq(Messages) /\ n \in Nat
      /\ Len(toProgram') = n + 1
      /\ toProgram'[n + 1] = Told(i)'
      /\ \A k \in 1..n : toProgram'[k] = toProgram[k]
  BY DEF NamesInv, SettingsTypeOK
<1>2. \A j \in Items : Told(j).item = j
  BY DEF Told, Refusal, Change
<1>3. Told(i)'.item = i
  BY DEF Told, Refusal, Change
<1> HIDE DEF n
<1>4. ToldLast(i)'
  BY <1>1 DEF ToldLast
<1>5. ASSUME NEW j \in Items \ {i} PROVE (ToldLast(j) \/ Told0(j) \/ Waiting(j))'
  <2>1. Told(j)' = Told(j)
    BY DEF Told
  <2>2. CASE ToldLast(j)
    <3>1. PICK k \in 1..n : /\ toProgram[k] = Told(j)
                            /\ \A x \in (k + 1)..n : toProgram[x].item # j
      BY <2>2 DEF ToldLast, n
    <3>2. \A x \in (k + 1)..(n + 1) : toProgram'[x].item # j
      BY <1>1, <1>3, <3>1
    <3>3. k \in 1..(n + 1) /\ toProgram'[k] = Told(j)'
      BY <1>1, <2>1, <3>1
    <3> QED BY <1>1, <3>2, <3>3 DEF ToldLast
  <2>3. Silent(j) => Silent(j)'
    BY <1>1, <1>3 DEF Silent, n
  <2>4. CASE Told0(j)
    BY <2>1, <2>3, <2>4 DEF Told0
  <2>5. CASE Waiting(j)
    BY <2>3, <2>5 DEF Waiting
  <2> QED BY <2>2, <2>4, <2>5 DEF NamesInv, CopiesFollow
<1>6. CopiesFollow'
  BY <1>4, <1>5 DEF CopiesFollow
<1> QED BY <1>1, <1>6

\* Taking the head of the requests leaves the other requests.
LEMMA TakesHead ==
    ASSUME toStore \in Seq(Requests), toStore # <<>>, toStore' = Tail(toStore)
    PROVE  /\ toStore' \in Seq(Requests)
           /\ Head(toStore) \in Requests
           /\ \A i \in Items : Asked(i) /\ Head(toStore) # Get(i) => Asked(i)'
           /\ \A n : Sent(n) /\ Head(toStore) # Set("CustomName", n) => Sent(n)'
<1> DEFINE n == Len(toStore)
<1>1. /\ n \in Nat \ {0} /\ Head(toStore) = toStore[1]
      /\ Len(toStore') = n - 1
      /\ \A k \in 2..n : k - 1 \in 1..(n - 1) /\ toStore'[k - 1] = toStore[k]
  OBVIOUS
<1>2. ASSUME NEW r, Head(toStore) # r, \E k \in 1..n : toStore[k] = r
      PROVE  \E k \in 1..Len(toStore') : toStore'[k] = r
  <2>1. PICK k \in 1..n : toStore[k] = r
    BY <1>2
  <2>2. k \in 2..n
    BY <1>1, <1>2, <2>1
  <2> QED BY <1>1, <2>1, <2>2
<1>3. ASSUME NEW i \in Items, Asked(i), Head(toStore) # Get(i) PROVE Asked(i)'
  BY <1>2, <1>3 DEF Asked, Get
<1>4. ASSUME NEW m, Sent(m), Head(toStore) # Set("CustomName", m) PROVE Sent(m)'
  BY <1>2, <1>4 DEF Sent, Set
<1>5. toStore' \in Seq(Requests) /\ Head(toStore) \in Requests
  OBVIOUS
<1> QED BY <1>3, <1>4, <1>5

LEMMA ToldIs ==
    ASSUME SettingsTypeOK, NEW i \in Items
    PROVE  Told(i) \in Messages
BY ContentsAre DEF Told, Refusal, Change, Messages, SettingsTypeOK

LEMMA StoreAnswersInv ==
    ASSUME NamesInv, StoreAnswers
    PROVE  NamesInv'
<1>1. /\ toStore' \in Seq(Requests) /\ Head(toStore) \in Requests
      /\ Head(toStore).call = "get"
      /\ \A j \in Items : Asked(j) /\ Head(toStore) # Get(j) => Asked(j)'
      /\ \A n : Sent(n) /\ Head(toStore) # Set("CustomName", n) => Sent(n)'
  BY TakesHead DEF StoreAnswers, NamesInv, SettingsTypeOK
<1>2. PICK i \in Items : i = Head(toStore).item
  BY <1>1 DEF Requests
<1>3. Told(i)' = Told(i) /\ Told(i) \in Messages
  BY <1>2, ToldIs DEF StoreAnswers, Told, NamesInv
<1>4. \A j \in Items \ {i} : Asked(j) => Asked(j)'
  <2>1. \A j \in Items \ {i} : Head(toStore) # Get(j)
    BY <1>2 DEF Get
  <2> QED BY <1>1, <2>1
<1>5. toProgram' = Append(toProgram, Told(i)')
  BY <1>2, <1>3 DEF StoreAnswers, Told
<1>6. CopiesFollow' /\ toProgram' \in Seq(Messages)
  BY <1>2, <1>3, <1>4, <1>5, SaysMore DEF StoreAnswers
<1>7. SettingsTypeOK'
  BY <1>1, <1>6 DEF StoreAnswers, NamesInv, SettingsTypeOK
<1>8. Heard'
  BY DEF StoreAnswers, NamesInv, Heard, initialized, CheckState
<1>9. RenameUnderWay'
  <2>1. \A n : Sent(n) => Sent(n)'
    <3>1. \A n : Set("CustomName", n).call = "set"
      BY DEF Set
    <3>2. \A n : Head(toStore) # Set("CustomName", n)
      BY <1>1, <3>1
    <3> QED BY <1>1, <3>2
  <2>2. \A n : Returned(n) => Returned(n)'
    <3>1. /\ Len(toProgram) \in Nat /\ Len(toProgram') = Len(toProgram) + 1
          /\ \A k \in 1..Len(toProgram) : toProgram'[k] = toProgram[k]
      BY <1>3, <1>5 DEF NamesInv, SettingsTypeOK
    <3> QED BY <3>1 DEF Returned, Change
  <2> QED BY <2>1, <2>2 DEF StoreAnswers, NamesInv, RenameUnderWay, initialized
<1> QED BY <1>6, <1>7, <1>8, <1>9 DEF NamesInv

\* localsettings stores a value, by a request or by a user.
LEMMA StoresInv ==
    ASSUME NamesInv, NEW i \in Items, NEW v \in Contents, Stores(i, v),
           UNCHANGED <<value, state, mItems, customName>>,
           toStore' \in Seq(Requests),
           \A j \in Items : Asked(j) => Asked(j)',
           \A n : Sent(n) /\ ~(i = "CustomName" /\ v = n) => Sent(n)'
    PROVE  NamesInv'
<1>1. CASE stored[i] \in {v, Missing}
  <2>1. UNCHANGED <<stored, toProgram>>
    BY <1>1 DEF Stores
  <2>2. CopiesFollow'
    BY <2>1 DEF NamesInv, CopiesFollow, ToldLast, Told0, Waiting, Silent, Told
  <2>3. SettingsTypeOK'
    BY <2>1 DEF NamesInv, SettingsTypeOK
  <2>4. Heard'
    BY DEF NamesInv, Heard, initialized, CheckState
  <2>5. RenameUnderWay'
    <3>1. SUFFICES ASSUME initialized, customName # NotRunning,
                          stored["CustomName"] # Missing, customName # value["CustomName"]
                   PROVE  Sent(customName)' \/ Returned(customName)
      BY <2>1 DEF RenameUnderWay, Returned, initialized
    <3>2. Sent(customName) \/ Returned(customName)
      BY <3>1 DEF NamesInv, RenameUnderWay
    <3>3. CASE Sent(customName) /\ ~(i = "CustomName" /\ v = customName)
      BY <3>3
    <3>4. CASE i = "CustomName" /\ v = customName
      <4>1. Told("CustomName") = Change("CustomName", customName)
        BY <1>1, <3>1, <3>4 DEF Told
      <4>2. state["CustomName"] # "Requested"
        BY <3>1, ItemsAre DEF NamesInv, Heard, CheckState
      <4>3. ToldLast("CustomName")
        BY <3>1, <4>1, <4>2, ItemsAre
        DEF NamesInv, CopiesFollow, Told0, Waiting, Change
      <4> QED BY <4>1, <4>3 DEF ToldLast, Returned
    <3> QED BY <3>2, <3>3, <3>4
  <2> QED BY <2>2, <2>3, <2>4, <2>5 DEF NamesInv
<1>2. CASE stored[i] \notin {v, Missing}
  <2>1. /\ stored' = [stored EXCEPT ![i] = v]
        /\ toProgram' = Append(toProgram, Change(i, v))
    BY <1>2 DEF Stores
  <2>2. stored' \in [Items -> Contents \cup {Missing}] /\ stored'[i] = v
    BY <2>1 DEF NamesInv, SettingsTypeOK
  <2>3. Told(i)' = Change(i, v) /\ Change(i, v) \in Messages
    BY <2>2, ContentsAre DEF Told, Change, Messages
  <2>4. \A j \in Items \ {i} : stored'[j] = stored[j]
    BY <2>1 DEF NamesInv, SettingsTypeOK
  <2>5. CopiesFollow' /\ toProgram' \in Seq(Messages)
    BY <2>1, <2>3, <2>4, SaysMore
  <2>6. SettingsTypeOK'
    BY <2>2, <2>5 DEF NamesInv, SettingsTypeOK
  <2>7. Heard'
    BY DEF NamesInv, Heard, initialized, CheckState
  <2>8. RenameUnderWay'
    <3>1. SUFFICES ASSUME initialized, customName # NotRunning,
                          stored'["CustomName"] # Missing, customName # value["CustomName"]
                   PROVE  Sent(customName)' \/ Returned(customName)'
      BY DEF RenameUnderWay, Returned, initialized
    <3>2. /\ Len(toProgram) \in Nat /\ Len(toProgram') = Len(toProgram) + 1
          /\ toProgram'[Len(toProgram) + 1] = Change(i, v)
          /\ \A k \in 1..Len(toProgram) : toProgram'[k] = toProgram[k]
      BY <2>1, <2>3 DEF NamesInv, SettingsTypeOK
    <3>3. CASE i = "CustomName" /\ v = customName
      BY <3>2, <3>3 DEF Returned
    <3>4. CASE ~(i = "CustomName" /\ v = customName)
      <4>1. stored["CustomName"] # Missing
        BY <1>2, <2>4, <3>1, ItemsAre
      <4>2. Sent(customName) \/ Returned(customName)
        BY <3>1, <4>1 DEF NamesInv, RenameUnderWay
      <4>3. Returned(customName) => Returned(customName)'
        BY <3>2 DEF Returned
      <4> QED BY <3>4, <4>2, <4>3
    <3> QED BY <3>3, <3>4
  <2> QED BY <2>5, <2>6, <2>7, <2>8 DEF NamesInv
<1> QED BY <1>1, <1>2

LEMMA StoreWritesInv ==
    ASSUME NamesInv, StoreWrites
    PROVE  NamesInv'
<1>0. PICK r \in Requests : r = Head(toStore)
  BY TakesHead DEF StoreWrites, NamesInv, SettingsTypeOK
<1>1. /\ toStore' \in Seq(Requests) /\ r.call = "set"
      /\ \A i \in Items : Asked(i) /\ r # Get(i) => Asked(i)'
      /\ \A n : Sent(n) /\ r # Set("CustomName", n) => Sent(n)'
  BY TakesHead, <1>0 DEF StoreWrites, NamesInv, SettingsTypeOK
<1>2. r.item \in Items /\ r.value \in Contents /\ Stores(r.item, r.value)
  BY <1>0 DEF StoreWrites, Requests
<1>3. \A i \in Items : Asked(i) => Asked(i)'
  BY <1>1 DEF Get
<1>4. \A n : Sent(n) /\ ~(r.item = "CustomName" /\ r.value = n) => Sent(n)'
  BY <1>1 DEF Set
<1> QED BY <1>1, <1>2, <1>3, <1>4, StoresInv DEF StoreWrites

LEMMA UserSetsInv ==
    ASSUME NamesInv, NEW i \in {"CustomName", "IsActive"}, NEW v \in Values[i],
           UserSets(i, v)
    PROVE  NamesInv'
<1>1. i \in Items /\ v \in Contents
  BY ItemsAre, ContentsAre
<1>2. \A j \in Items : Asked(j) => Asked(j)'
  BY DEF UserSets, Asked
<1>3. \A n : Sent(n) => Sent(n)'
  BY DEF UserSets, Sent
<1>4. toStore' \in Seq(Requests)
  BY DEF UserSets, NamesInv, SettingsTypeOK
<1> QED BY <1>1, <1>2, <1>3, <1>4, StoresInv DEF UserSets

----------------------------------------------------------------------------
(* What the program does.                                                  *)

\* Requests are sent after those that are under way.
LEMMA Requested ==
    ASSUME toStore \in Seq(Requests), NEW more \in Seq(Requests),
           toStore' = toStore \o more \/ toStore' = toStore
    PROVE  /\ toStore' \in Seq(Requests)
           /\ \A i : Asked(i) => Asked(i)'
           /\ \A n : Sent(n) => Sent(n)'
<1>1. /\ toStore' \in Seq(Requests)
      /\ Len(toStore) \in Nat /\ Len(toStore') \in Nat /\ Len(toStore) <= Len(toStore')
      /\ \A k \in 1..Len(toStore) : toStore'[k] = toStore[k]
  <2>1. CASE toStore' = toStore \o more
    <3>1. Len(more) \in Nat /\ Len(toStore) \in Nat
      OBVIOUS
    <3> QED BY <2>1, <3>1, Appended
  <2>2. CASE toStore' = toStore
    BY <2>2
  <2> QED BY <2>1, <2>2
<1>2. \A k \in 1..Len(toStore) : k \in 1..Len(toStore')
  BY <1>1
<1>3. ASSUME NEW r, \E k \in 1..Len(toStore) : toStore[k] = r
      PROVE  \E k \in 1..Len(toStore') : toStore'[k] = r
  BY <1>1, <1>2, <1>3
<1>4. ASSUME NEW i, Asked(i) PROVE Asked(i)'
  BY <1>3, <1>4 DEF Asked, Get
<1>5. ASSUME NEW n, Sent(n) PROVE Sent(n)'
  BY <1>3, <1>5 DEF Sent, Set
<1> QED BY <1>1, <1>4, <1>5

\* What the program takes from the values on their way.
LEMMA Hears ==
    ASSUME NamesInv, toProgram # <<>>, NEW m \in Messages, m = Head(toProgram),
           value' = [value EXCEPT ![m.item] = m.value],
           state' = [state EXCEPT ![m.item] = m.state],
           toProgram' = Tail(toProgram), stored' = stored,
           \A i \in Items : Asked(i) => Asked(i)'
    PROVE  /\ CopiesFollow'
           /\ toProgram' \in Seq(Messages)
           /\ value' \in [Items -> Contents]
           /\ state' \in [Items -> {"Requested", "Synchronized", "Offline"}]
           /\ CheckState(state) => CheckState(state')
           /\ \A n : Returned(n) /\ m # Change("CustomName", n) => Returned(n)'
<1> DEFINE n == Len(toProgram)
<1>1. /\ n \in Nat \ {0} /\ toProgram[1] = m
      /\ Len(toProgram') = n - 1
      /\ \A k \in 2..n : k - 1 \in 1..(n - 1) /\ toProgram'[k - 1] = toProgram[k]
      /\ \A k \in 1..(n - 1) : k + 1 \in 2..n /\ toProgram'[k] = toProgram[k + 1]
      /\ toProgram' \in Seq(Messages)
  BY DEF NamesInv, SettingsTypeOK
<1>2. /\ m.item \in Items /\ m.value \in Contents
      /\ m.state \in {"Synchronized", "Offline"}
  BY DEF Messages
<1>3. /\ value' \in [Items -> Contents]
      /\ state' \in [Items -> {"Requested", "Synchronized", "Offline"}]
      /\ value'[m.item] = m.value /\ state'[m.item] = m.state
      /\ \A i \in Items \ {m.item} : value'[i] = value[i] /\ state'[i] = state[i]
  BY <1>2 DEF NamesInv, SettingsTypeOK
<1>4. CheckState(state) => CheckState(state')
  BY <1>2, <1>3 DEF CheckState
<1>5. ASSUME NEW c, Returned(c), m # Change("CustomName", c) PROVE Returned(c)'
  <2>1. PICK k \in 1..n : toProgram[k] = Change("CustomName", c)
    BY <1>5 DEF Returned
  <2>2. k \in 2..n
    BY <1>1, <1>5, <2>1
  <2> QED BY <1>1, <2>1, <2>2 DEF Returned, Change
<1>6. \A i \in Items : Told(i)' = Told(i)
  BY DEF Told
<1>7. \A i \in Items : Silent(i) => Silent(i)' /\ i # m.item
  BY <1>1 DEF Silent
<1>8. ASSUME NEW i \in Items PROVE (ToldLast(i) \/ Told0(i) \/ Waiting(i))'
  <2>1. CASE ToldLast(i)
    <3>1. PICK k \in 1..n : /\ toProgram[k] = Told(i)
                            /\ \A j \in (k + 1)..n : toProgram[j].item # i
      BY <2>1 DEF ToldLast
    <3>2. CASE k = 1
      <4>1. m = Told(i)
        BY <1>1, <3>1, <3>2
      <4>2. m.item = i
        BY <4>1 DEF Told, Refusal, Change
      <4>3. Silent(i)'
        <5>1. \A x \in 1..(n - 1) : toProgram'[x].item # i
          BY <1>1, <3>1, <3>2
        <5> QED BY <1>1, <5>1 DEF Silent
      <4> QED BY <1>3, <1>6, <4>1, <4>2, <4>3 DEF Told0
    <3>3. CASE k \in 2..n
      <4>1. toProgram'[k - 1] = Told(i)' /\ k - 1 \in 1..(n - 1)
        BY <1>1, <1>6, <3>1, <3>3
      <4>2. ASSUME NEW x \in ((k - 1) + 1)..(n - 1) PROVE toProgram'[x].item # i
        <5>1. x \in 1..(n - 1) /\ x + 1 \in (k + 1)..n
          BY <1>1, <3>3
        <5> QED BY <1>1, <3>1, <5>1
      <4> QED BY <1>1, <4>1, <4>2 DEF ToldLast
    <3> QED BY <1>1, <3>2, <3>3
  <2>2. CASE Told0(i)
    BY <1>3, <1>6, <1>7, <2>2 DEF Told0
  <2>3. CASE Waiting(i)
    BY <1>3, <1>7, <2>3 DEF Waiting
  <2> QED BY <2>1, <2>2, <2>3 DEF NamesInv, CopiesFollow
<1> QED BY <1>1, <1>3, <1>4, <1>5, <1>8 DEF CopiesFollow

LEMMA ValueArrivesInv ==
    ASSUME NamesInv, ValueArrives
    PROVE  NamesInv'
<1>1. PICK m \in Messages : m = Head(toProgram)
  BY DEF ValueArrives, NamesInv, SettingsTypeOK
<1>2. /\ toProgram # <<>> /\ toProgram' = Tail(toProgram) /\ stored' = stored
      /\ value' = [value EXCEPT ![m.item] = m.value]
      /\ state' = [state EXCEPT ![m.item] = m.state]
  BY <1>1 DEF ValueArrives
<1>3. value' \in [Items -> Contents]
  BY <1>2 DEF NamesInv, SettingsTypeOK, Messages
<1>4. \/ /\ ~initialized /\ ~CheckState(state')
         /\ UNCHANGED <<mItems, customName, toStore>>
      \/ /\ ~initialized /\ CheckState(state') /\ mItems' = {}
         /\ \E n \in DeviceInstances : OnSettingsInitialized(value', n)
      \/ /\ initialized /\ value' = value /\ UNCHANGED <<mItems, customName, toStore>>
      \/ /\ initialized /\ m.item \in {"Phase", "L1Energy"}
         /\ UNCHANGED <<mItems, customName, toStore>>
      \/ /\ initialized /\ m.item = "CustomName" /\ OnSettingsCustomNameChanged(value')
         /\ UNCHANGED mItems
      \/ /\ initialized /\ m.item = "IsActive" /\ OnIsActivatedChanged(value')
         /\ UNCHANGED mItems
  BY <1>1 DEF ValueArrives
<1>5. \E more \in Seq(Requests) : toStore' = toStore \o more \/ toStore' = toStore
  <2>1. <<>> \in Seq(Requests)
    OBVIOUS
  <2>2. Migration(value') \in Seq(Requests)
    BY <1>3, WritesAre
  <2>3. Renamed(customName, value'["CustomName"], value') \in Seq(Requests)
    BY <1>3, WritesAre, ItemsAre
  <2> QED BY <1>4, <2>1, <2>2, <2>3
          DEF OnSettingsInitialized, OnSettingsCustomNameChanged, OnIsActivatedChanged
<1>6. /\ toStore' \in Seq(Requests)
      /\ \A i : Asked(i) => Asked(i)'
      /\ \A n : Sent(n) => Sent(n)'
  BY <1>5, Requested DEF NamesInv, SettingsTypeOK
<1>7. /\ CopiesFollow'
      /\ toProgram' \in Seq(Messages)
      /\ state' \in [Items -> {"Requested", "Synchronized", "Offline"}]
      /\ CheckState(state) => CheckState(state')
      /\ \A n : Returned(n) /\ m # Change("CustomName", n) => Returned(n)'
  BY <1>1, <1>2, <1>6, Hears
<1>8. mItems' = {} \/ mItems' = mItems
  BY <1>4
<1>9. SettingsTypeOK'
  BY <1>2, <1>3, <1>6, <1>7, <1>8 DEF NamesInv, SettingsTypeOK
<1>10. initialized' <=> initialized \/ CheckState(state')
  BY <1>4 DEF initialized
<1>11. initialized => CheckState(state')
  BY <1>7 DEF NamesInv, Heard
<1>12. Heard'
  BY <1>10, <1>11 DEF Heard
<1>13. initialized' =>
         \/ customName' = NotRunning
         \/ customName' = value'["CustomName"]
         \/ /\ initialized /\ customName' = customName
            /\ value' = value \/ m.item \in {"Phase", "IsActive", "L1Energy"}
  BY <1>4
  DEF OnSettingsInitialized, OnSettingsCustomNameChanged, OnIsActivatedChanged, initialized
<1>14. RenameUnderWay'
  <2>1. SUFFICES ASSUME initialized', customName' # NotRunning,
                        stored["CustomName"] # Missing, customName' # value'["CustomName"]
                 PROVE  Sent(customName)' \/ Returned(customName)'
    BY <1>2 DEF RenameUnderWay, Sent, Returned
  <2>2. initialized /\ customName' = customName /\ value'["CustomName"] = value["CustomName"]
    BY <1>2, <1>13, <2>1, ItemsAre DEF NamesInv, SettingsTypeOK
  <2>3. m # Change("CustomName", customName)
    <3>1. SUFFICES ASSUME m = Change("CustomName", customName) PROVE FALSE
      OBVIOUS
    <3>2. m.item = "CustomName" /\ m.value = customName
      BY <3>1 DEF Change
    <3>3. value'["CustomName"] = customName
      BY <1>2, <3>2, ItemsAre DEF NamesInv, SettingsTypeOK
    <3> QED BY <2>1, <2>2, <3>3
  <2>4. Sent(customName) \/ Returned(customName)
    BY <2>1, <2>2 DEF NamesInv, RenameUnderWay
  <2>5. PICK c : c = customName
    OBVIOUS
  <2>6. Sent(c)' \/ Returned(c)'
    BY <1>6, <1>7, <2>3, <2>4, <2>5
  <2> QED BY <2>2, <2>5, <2>6 DEF Sent, Returned
<1> QED BY <1>7, <1>9, <1>12, <1>14 DEF NamesInv

LEMMA UserRenamesInv ==
    ASSUME NamesInv, NEW n \in Names, UserRenames(n)
    PROVE  NamesInv'
<1>1. n \in Contents
  BY DEF Contents
<1> DEFINE more == Renamed(customName, n, value)
<1>2. more \in Seq(Requests) /\ toStore' = toStore \o more
  BY <1>1, WritesAre DEF UserRenames, NamesInv, SettingsTypeOK
<1>3. /\ toStore' \in Seq(Requests)
      /\ \A i : Asked(i) => Asked(i)'
      /\ \A c : Sent(c) => Sent(c)'
  BY <1>2, Requested DEF NamesInv, SettingsTypeOK
<1>4. UNCHANGED <<stored, toProgram, value, state, mItems>> /\ customName' = n
  BY DEF UserRenames
<1>5. CopiesFollow'
  BY <1>3, <1>4 DEF NamesInv, CopiesFollow, ToldLast, Told0, Waiting, Silent, Told
<1>6. SettingsTypeOK'
  BY <1>3, <1>4 DEF NamesInv, SettingsTypeOK
<1>7. Heard'
  BY <1>4 DEF UserRenames, NamesInv, Heard, initialized, CheckState
<1>8. RenameUnderWay'
  <2>1. SUFFICES ASSUME initialized, stored["CustomName"] # Missing, n # value["CustomName"]
                 PROVE  Sent(n)' \/ Returned(n)'
    BY <1>4 DEF RenameUnderWay, Sent, Returned, initialized
  <2>2. CASE customName = n
    <3>1. Sent(n) \/ Returned(n)
      BY <2>1, <2>2 DEF UserRenames, NamesInv, RenameUnderWay
    <3> QED BY <1>3, <1>4, <3>1 DEF Returned
  <2>3. CASE customName # n
    <3>1. more = <<Set("CustomName", n)>>
      BY <2>1, <2>3 DEF Renamed, OnInverterCustomNameChanged, WriteName
    <3>2. toStore' = Append(toStore, Set("CustomName", n))
      <4>1. Set("CustomName", n) \in Requests
        BY <1>1, ItemsAre DEF Set, Requests
      <4> QED BY <1>2, <3>1, <4>1 DEF NamesInv, SettingsTypeOK
    <3>3. /\ Len(toStore) \in Nat /\ Len(toStore') = Len(toStore) + 1
          /\ toStore'[Len(toStore) + 1] = Set("CustomName", n)
      BY <3>2 DEF NamesInv, SettingsTypeOK
    <3> QED BY <3>3 DEF Sent, Set
  <2> QED BY <2>2, <2>3
<1> QED BY <1>5, <1>6, <1>7, <1>8 DEF NamesInv

\* Steps of the mediator alone.
LEMMA MediatorInv ==
    ASSUME NamesInv, UNCHANGED <<stored, toStore, toProgram, value, state, mItems>>,
           \/ customName' \in {customName, NotRunning}
           \/ customName' = value["CustomName"]
    PROVE  NamesInv'
<1>1. SettingsTypeOK'
  BY DEF NamesInv, SettingsTypeOK
<1>2. CopiesFollow'
  BY DEF NamesInv, CopiesFollow, ToldLast, Told0, Waiting, Silent, Told, Asked
<1>3. Heard'
  BY DEF NamesInv, Heard, initialized, CheckState
<1>4. RenameUnderWay'
  BY DEF NamesInv, RenameUnderWay, Sent, Returned, initialized
<1> QED BY <1>1, <1>2, <1>3, <1>4 DEF NamesInv

LEMMA SettingsNextInv == NamesInv /\ [SettingsNext]_settingsVars => NamesInv'
<1> SUFFICES ASSUME NamesInv, [SettingsNext]_settingsVars PROVE NamesInv'
  OBVIOUS
<1>1. CASE StoreAnswers
  BY <1>1, StoreAnswersInv
<1>2. CASE StoreWrites
  BY <1>2, StoreWritesInv
<1>3. ASSUME NEW i \in {"CustomName", "IsActive"}, NEW v \in Values[i], UserSets(i, v)
      PROVE  NamesInv'
  BY <1>3, UserSetsInv
<1>4. CASE ValueArrives
  BY <1>4, ValueArrivesInv
<1>5. CASE Detected
  BY <1>5, MediatorInv DEF Detected
<1>6. CASE InverterLost
  BY <1>6, MediatorInv DEF InverterLost
<1>7. ASSUME NEW n \in Names, UserRenames(n) PROVE NamesInv'
  BY <1>7, UserRenamesInv
<1>8. CASE Restart
  BY <1>8, RestartInv
<1>9. CASE UNCHANGED settingsVars
  BY <1>9, MediatorInv DEF settingsVars
<1> QED BY <1>1, <1>2, <1>3, <1>4, <1>5, <1>6, <1>7, <1>8, <1>9 DEF SettingsNext

LEMMA SettingsInvariance == SettingsSpec => []NamesInv
<1> QED BY SettingsInitInv, SettingsNextInv, PTL DEF SettingsSpec

\* Requests and values are about the settings there are, and each copy holds a
\* name or value that localsettings may hold, for any names
\* (InverterSettings, VeQItemConsumer).
THEOREM SettingsTypeCorrect == SettingsSpec => []SettingsTypeOK
<1>1. NamesInv => SettingsTypeOK
  BY DEF NamesInv
<1> QED BY <1>1, SettingsInvariance, PTL

\* A local copy is what localsettings holds, or the program has still to hear
\* of it, last of all of what localsettings holds now: whatever was refused,
\* edited, written by an earlier run of the program or restarted meanwhile
\* (VeQItemConsumer::connectItem, addSetting).
THEOREM CopiesAlwaysFollow == SettingsSpec => []CopiesFollow
<1>1. NamesInv => CopiesFollow
  BY DEF NamesInv
<1> QED BY <1>1, SettingsInvariance, PTL

\* The names at the inverter, in the settings and in localsettings agree when
\* nothing is on its way, however long both sides have been edited and however
\* many messages were under way (setCustomName, onSettingsCustomNameChanged,
\* onInverterCustomNameChanged).
THEOREM NamesAlwaysAgree == SettingsSpec => []NamesAgree
<1>1. NamesInv => NamesAgree
  <2> SUFFICES ASSUME NamesInv, Quiet, customName # NotRunning,
                      state["CustomName"] = "Synchronized"
               PROVE  customName = value["CustomName"] /\ value["CustomName"] = stored["CustomName"]
    BY DEF NamesAgree
  <2>1. Len(toStore) = 0 /\ Len(toProgram) = 0
    BY DEF Quiet
  <2>2. Told0("CustomName")
    BY <2>1, ItemsAre DEF NamesInv, CopiesFollow, ToldLast, Waiting
  <2>0. initialized
    <3>1. \A i \in Items : Told0(i)
      BY <2>1 DEF NamesInv, CopiesFollow, ToldLast, Waiting, Asked
    <3>2. \A i \in Items : state[i] # "Requested"
      BY <3>1 DEF Told0, Told, Refusal, Change
    <3> QED BY <3>2 DEF NamesInv, Heard, CheckState
  <2>3. stored["CustomName"] # Missing /\ value["CustomName"] = stored["CustomName"]
    BY <2>2 DEF Told0, Told, Refusal, Change
  <2>4. ~Sent(customName) /\ ~Returned(customName)
    BY <2>1 DEF Sent, Returned
  <2>5. customName = value["CustomName"]
    BY <2>0, <2>3, <2>4 DEF NamesInv, RenameUnderWay
  <2> QED BY <2>3, <2>5
<1> QED BY <1>1, SettingsInvariance, PTL
=============================================================================
