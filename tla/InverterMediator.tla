-------------------------- MODULE InverterMediator --------------------------
(***************************************************************************)
(* From a detected device to a running inverter: DBusFronius keeps one     *)
(* InverterMediator per inverter and offers each detected device to them   *)
(* (dbus_fronius.cpp, inverter_mediator.cpp). A mediator owns at most one  *)
(* Inverter, which is created when the settings of the inverter are known, *)
(* and deleted when the inverter is switched off, lost or displaced. One   *)
(* that was created before the last of the settings arrived is overwritten *)
(* then: it goes on running, with its updater, and nothing deletes it.     *)
(*                                                                         *)
(* deleteLater is taken as delete: the event loop runs it before the next  *)
(* network event. The localsettings service is external. What becomes of   *)
(* the D-Bus items that an overwritten inverter shares with its successor  *)
(* is left out.                                                            *)
(***************************************************************************)
EXTENDS Integers, Sequences, Functions

CONSTANTS
    UniqueId,    \* identities of inverters
    DeviceInfos, \* the devices detection may report
    NoInverter   \* the null pointer

DeviceInfo ==
    [uniqueId : UniqueId, hostName : STRING, port : Nat, networkId : Nat,
     retrievalMode : {"SolarApi", "SunSpec", "SMA"}, phaseCount : Nat,
     storage : BOOLEAN]

ASSUME DeviceAssumption   == DeviceInfos \subseteq DeviceInfo
ASSUME InverterAssumption == NoInverter \notin DeviceInfos

VARIABLES
    mMediators,   \* the mediators, by identity, in order of creation
    mDeviceInfo,  \* per mediator, the device it was last told of
    mInverter,    \* per mediator, its inverter
    items,        \* per mediator, how much of its settings has arrived
    store,        \* per inverter, its settings in localsettings (external)
    overwritten,  \* per mediator, the inverter it lost without deleting it
    scanRequested \* GatewayInterface::startDetection was called

vars == <<mMediators, mDeviceInfo, mInverter, items, store, overwritten, scanRequested>>

NoDevice == NoInverter

TypeOK ==
    /\ mMediators \in Seq(UniqueId)
    /\ mDeviceInfo \in [UniqueId -> DeviceInfos \cup {NoDevice}]
    /\ mInverter \in [UniqueId -> DeviceInfos \cup DeviceInfo \cup {NoInverter}]
    /\ items \in [UniqueId -> {"requested", "isActive", "initialized"}]
    /\ store \in [UniqueId -> [isActive : BOOLEAN, multiPhase : BOOLEAN]]
    /\ overwritten \in [UniqueId -> DeviceInfos \cup DeviceInfo \cup {NoInverter}]
    /\ scanRequested \in BOOLEAN

----------------------------------------------------------------------------
Mediators == Range(mMediators)

Position(u) == CHOOSE i \in DOMAIN mMediators : mMediators[i] = u

\* The mediators the loop of DBusFronius::onInverterFound asks before the one
\* for u, which answers true and ends it.
AskedBefore(u) ==
    {m \in Mediators : u \in Mediators => Position(m) < Position(u)}

\* Seeded fault: the switch is not looked at.
IsActiveIgnored(u) == items[u] # "requested"

\* IsActive as the mediator sees it: false until its item has been read.
IsActive(u) == items[u] # "requested" /\ store[u].isActive

\* The inverters of the mediator for u whose updaters are polling.
Running(u) == {mInverter[u], overwritten[u]} \ {NoInverter}

\* Inverters whose communication settings are those of another device.
Displaced(info) ==
    {m \in AskedBefore(info.uniqueId) \ {info.uniqueId} :
        /\ mInverter[m] # NoInverter
        /\ mInverter[m].hostName = info.hostName
        /\ mInverter[m].networkId = info.networkId}

\* createInverter; registerInverter fails when localsettings does not answer.
CreateInverter(info, registered) == IF registered THEN info ELSE NoInverter

\* Seeded fault: a change of the retrieval mode goes unnoticed.
ProcessNewInverterAnyMode(info, registered) ==
    LET u == info.uniqueId
    IN  IF mInverter[u] # NoInverter
        THEN [mInverter[u] EXCEPT !.hostName = info.hostName, !.port = info.port]
        ELSE IF IsActive(u) THEN CreateInverter(info, registered)
        ELSE NoInverter

\* Seeded fault: a lost inverter is not created again.
ProcessNewInverterOnce(info, registered) ==
    LET u == info.uniqueId
    IN  IF mInverter[u] # NoInverter
        THEN [mInverter[u] EXCEPT !.hostName = info.hostName, !.port = info.port]
        ELSE NoInverter

\* What processNewInverter makes of the inverter of the mediator for info.
ProcessNewInverter(info, registered) ==
    LET u == info.uniqueId
    IN  IF /\ mInverter[u] # NoInverter
           /\ mDeviceInfo[u].retrievalMode = info.retrievalMode
        THEN [mInverter[u] EXCEPT !.hostName = info.hostName, !.port = info.port]
        ELSE IF IsActive(u) THEN CreateInverter(info, registered)
        ELSE NoInverter

----------------------------------------------------------------------------
Init ==
    /\ mMediators = <<>>
    /\ mDeviceInfo = [u \in UniqueId |-> NoDevice]
    /\ mInverter = [u \in UniqueId |-> NoInverter]
    /\ items = [u \in UniqueId |-> "requested"]
    /\ store \in [UniqueId -> [isActive : BOOLEAN, multiPhase : BOOLEAN]]
    /\ overwritten = [u \in UniqueId |-> NoInverter]
    /\ scanRequested = FALSE

\* DBusFronius::onInverterFound. Inverters with storage are skipped.
InverterFound(info, registered) ==
    /\ ~info.storage
    /\ LET u == info.uniqueId
       IN  /\ mDeviceInfo' = [mDeviceInfo EXCEPT ![u] = info]
           /\ mInverter' =
                 [m \in UniqueId |->
                    IF m = u /\ u \in Mediators
                    THEN ProcessNewInverter(info, registered)
                    ELSE IF m \in Displaced(info) THEN NoInverter
                    ELSE mInverter[m]]
           /\ mMediators' = IF u \in Mediators THEN mMediators
                            ELSE Append(mMediators, u)
    /\ UNCHANGED <<items, store, overwritten, scanRequested>>

\* The settings of an inverter are separate D-Bus items: the value of IsActive
\* may arrive while others are awaited.
IsActiveArrives(u) ==
    /\ u \in Mediators
    /\ items[u] = "requested"
    /\ items' = [items EXCEPT ![u] = "isActive"]
    /\ UNCHANGED <<mMediators, mDeviceInfo, mInverter, store, overwritten, scanRequested>>

\* onSettingsInitialized: the last item has arrived. An inverter that exists
\* already is overwritten.
SettingsInitialized(u, registered) ==
    /\ u \in Mediators
    /\ items[u] # "initialized"
    /\ items' = [items EXCEPT ![u] = "initialized"]
    /\ IF store[u].isActive
       THEN /\ store' = [store EXCEPT ![u].multiPhase =
                            @ \/ mDeviceInfo[u].phaseCount > 1]
            /\ overwritten' = [overwritten EXCEPT ![u] = mInverter[u]]
            /\ mInverter' = [mInverter EXCEPT ![u] =
                                CreateInverter(mDeviceInfo[u], registered)]
       ELSE /\ mInverter' = [mInverter EXCEPT ![u] = NoInverter]
            /\ UNCHANGED <<store, overwritten>>
    /\ UNCHANGED <<mMediators, mDeviceInfo, scanRequested>>

\* The user switches the inverter on or off. The slot onIsActivatedChanged is
\* connected when the settings are initialized.
IsActiveChanged(u) ==
    /\ store' = [store EXCEPT ![u].isActive = ~@]
    /\ IF items[u] # "initialized"
       THEN UNCHANGED <<mInverter, scanRequested>>
       ELSE IF store'[u].isActive
       THEN /\ scanRequested' = TRUE
            /\ UNCHANGED mInverter
       ELSE /\ mInverter' = [mInverter EXCEPT ![u] = NoInverter]
            /\ UNCHANGED scanRequested
    /\ UNCHANGED <<mMediators, mDeviceInfo, items, overwritten>>

\* onConnectionLost and onInverterModelChanged, called by the updater of any
\* inverter that runs; the one that is deleted is the current one.
ConnectionLost(u) ==
    /\ Running(u) # {}
    /\ mInverter' = [mInverter EXCEPT ![u] = NoInverter]
    /\ scanRequested' = TRUE
    /\ UNCHANGED <<mMediators, mDeviceInfo, items, store, overwritten>>

\* The same slots, when there is no current inverter: they use a null pointer.
\* If the program survives that, it is as above, else it is started anew.
Crash(u) ==
    /\ mInverter[u] = NoInverter
    /\ overwritten[u] # NoInverter
    /\ mMediators' = <<>>
    /\ mDeviceInfo' = [v \in UniqueId |-> NoDevice]
    /\ mInverter' = [v \in UniqueId |-> NoInverter]
    /\ overwritten' = [v \in UniqueId |-> NoInverter]
    /\ items' = [v \in UniqueId |-> "requested"]
    /\ scanRequested' = FALSE
    /\ UNCHANGED store

\* The gateway has served the request (see InverterGateway).
ScanServed ==
    /\ scanRequested
    /\ scanRequested' = FALSE
    /\ UNCHANGED <<mMediators, mDeviceInfo, mInverter, items, store, overwritten>>

Next ==
    \/ \E info \in DeviceInfos, registered \in BOOLEAN : InverterFound(info, registered)
    \/ \E u \in UniqueId :
          \/ IsActiveArrives(u)
          \/ \E registered \in BOOLEAN : SettingsInitialized(u, registered)
          \/ IsActiveChanged(u)
          \/ ConnectionLost(u)
          \/ Crash(u)
    \/ ScanServed

Spec == Init /\ [][Next]_vars

\* D-Bus answers, and the gateway scans again and again (Reprobed in
\* InverterGateway), so that a device that is there is found; that localsettings
\* refuses an inverter is a passing failure.
Fairness ==
    /\ \A u \in UniqueId :
          /\ WF_vars(IsActiveArrives(u))
          /\ WF_vars(\E registered \in BOOLEAN : SettingsInitialized(u, registered))
    /\ \A info \in DeviceInfos : WF_vars(InverterFound(info, TRUE))

FairSpec == Spec /\ Fairness

----------------------------------------------------------------------------
(* Properties                                                              *)

\* The inverter of a mediator is asked at the host and port, and by the
\* protocol, with which its device was last detected, across address changes and
\* displacements. (Its unit is not followed, see InverterFollowsUnit, and nor is
\* an inverter that was overwritten.)
InverterFollowsDevice ==
    \A u \in UniqueId :
        mInverter[u] # NoInverter
            => /\ mInverter[u].hostName = mDeviceInfo[u].hostName
               /\ mInverter[u].port = mDeviceInfo[u].port
               /\ mInverter[u].retrievalMode = mDeviceInfo[u].retrievalMode

\* Nothing runs for an inverter that is switched off, also if it is detected
\* again or was switched off before its settings had arrived, with one exception:
\* the inverter that the arrival of the settings has overwritten.
SwitchedOffNotRunning ==
    \A u \in UniqueId :
        items[u] = "initialized" /\ ~store[u].isActive
            => \/ Running(u) = {}
               \/ mInverter[u] = NoInverter /\ overwritten[u] # NoInverter

\* An inverter that stays switched on is up again and again, whatever
\* connection losses, displacements and localsettings failures there are, unless
\* the program crashes again and again.
ActiveComesBack ==
    \A u \in {info.uniqueId : info \in {d \in DeviceInfos : ~d.storage}} :
        <>[](store[u].isActive)
            => \/ []<>(mInverter[u] # NoInverter)
               \/ []<><<\E v \in UniqueId : Crash(v)>>_vars

----------------------------------------------------------------------------
(* What the code and its comments say, and the code does not do.           *)

\* inverter_mediator.cpp:100: Q_ASSERT(mInverter == 0) when the settings are
\* initialized. A device that is detected again between IsActive and the last of
\* the settings has an inverter by then, which is overwritten.
NoInverterOverwritten == \A u \in UniqueId : overwritten[u] = NoInverter

\* inverter_mediator.h:24: for a device it represents, processNewInverter makes
\* the necessary adjustments to the data retrieval. The unit the inverter is
\* asked under is part of that, and stays as it was.
InverterFollowsUnit ==
    \A u \in UniqueId :
        mInverter[u] # NoInverter => mInverter[u].networkId = mDeviceInfo[u].networkId

\* inverter_mediator.cpp:41: an inverter whose communication settings match
\* those of another one that is found is given up.
DisplacedIsGivenUp ==
    [][\A u, v \in UniqueId :
          u # v /\ mDeviceInfo'[u] # mDeviceInfo[u] /\ mInverter'[v] # NoInverter
            => \/ mInverter'[v].hostName # mDeviceInfo'[u].hostName
               \/ mInverter'[v].networkId # mDeviceInfo'[u].networkId]_vars
============================================================================
