-------------------------- MODULE InverterSettings --------------------------
(***************************************************************************)
(* The settings of one inverter, kept twice: localsettings stores them,    *)
(* InverterSettings has the copies that D-Bus items hold. Items are        *)
(* requested one by one, a VeQItemInitMonitor tells when all are there,    *)
(* and then the mediator connects its slots, migrates the phase and        *)
(* creates the inverter. The custom name is a third copy, on the D-Bus     *)
(* service of the inverter, and may be changed there as well as in         *)
(* localsettings; the slots of the mediator carry each change to the       *)
(* other side.                                                             *)
(*                                                                         *)
(* localsettings and the items of velib are external: a write leaves the   *)
(* local copy as it is until localsettings has announced the new value,    *)
(* and messages between two processes are not reordered. A device that is  *)
(* found again gets its inverter as soon as IsActive is there, before the  *)
(* other settings are; onSettingsInitialized then puts another one in its  *)
(* place, on the same D-Bus items. The one overwritten is followed no      *)
(* further here, but in InverterMediator.                                  *)
(*                                                                         *)
(* The parts of the specification are named for the settings, so that a    *)
(* module may extend this one along with InverterMediator.                 *)
(***************************************************************************)
EXTENDS Integers, Sequences

CONSTANTS
    Names,       \* custom names a user may choose
    NoName,      \* of an inverter nobody has named
    PhaseCount,  \* of the inverter
    MaxEdits     \* bound on what users do, and on restarts

VARIABLES
    stored,       \* the settings in localsettings
    toStore,      \* requests on their way there
    toProgram,    \* values on their way back
    value,        \* the local copies
    state,        \* of the items: "Requested", "Synchronized" or "Offline"
    mItems,       \* the items the VeQItemInitMonitor waits for
    customName,   \* of the inverter on D-Bus (mInverter), or NotRunning
    edits         \* what users have done so far

settingsVars == <<stored, toStore, toProgram, value, state, mItems, customName, edits>>

\* In the order in which the constructor requests them; L1Energy stands for the
\* ones that arrive after IsActive.
ItemList   == <<"Phase", "CustomName", "IsActive", "L1Energy">>
Items      == {ItemList[k] : k \in DOMAIN ItemList}
NotRunning == "0"
NoValue    == ""  \* an item without value reads as 0 or as an empty name
Missing    == "-"  \* localsettings has no such setting

ASSUME NameAssumption == Missing \notin Names \cup {NoName}

\* What localsettings may hold; a setting it does not have yet starts with the
\* default of the constructor.
Values == [Phase |-> {"L1", "MultiPhase"}, CustomName |-> Names \cup {NoName},
           IsActive |-> {"0", "1"}, L1Energy |-> {"0.0"}]

Default(i) == CASE i = "Phase" -> "L1" [] i = "IsActive" -> "1" [] i = "L1Energy" -> "0.0"
                [] OTHER -> NoName

Get(i)    == [call |-> "get", item |-> i, value |-> NoValue]
Set(i, v) == [call |-> "set", item |-> i, value |-> v]
Change(i, v) == [item |-> i, value |-> v, state |-> "Synchronized"]
Refusal(i)   == [item |-> i, value |-> NoValue, state |-> "Offline"]

Gets == [k \in 1..Len(ItemList) |-> Get(ItemList[k])]

\* Slots are connected, and the monitor is gone, when it has found all items.
initialized == mItems = {}

IsActivated(val) == val["IsActive"] = "1"

----------------------------------------------------------------------------
\* VeQItemConsumer::addSetting, for all items of the constructor: those for which
\* it fails are not created. The result is not looked at.
AddSettings(store, failed) ==
    [i \in Items |-> IF store[i] = Missing /\ i \notin failed THEN Default(i) ELSE store[i]]

\* getDeviceInstance, through registerInverter: the instance that localsettings
\* assigns, or -1 when the call or its answer is wrong.
MinDeviceInstance == 20
DeviceInstances   == {-1, MinDeviceInstance}

\* Seeded fault: a name is written whether or not it is the stored one.
WriteNameAlways(n, val) == <<Set("CustomName", n)>>

\* InverterSettings::setCustomName: the writes it sends.
WriteName(n, val) ==
    IF val["CustomName"] = n THEN <<>> ELSE <<Set("CustomName", n)>>

\* onInverterCustomNameChanged.
OnInverterCustomNameChanged(n, val) == WriteName(n, val)

\* Inverter::setCustomName: what its signal leads to when the name was "old".
Renamed(old, n, val) == IF old = n THEN <<>> ELSE OnInverterCustomNameChanged(n, val)

\* The migration of onSettingsInitialized. MultiPhase is 0, which is also what
\* a missing value reads as.
Migration(val) ==
    IF PhaseCount > 1 /\ val["Phase"] \notin {"MultiPhase", NoValue}
    THEN <<Set("Phase", "MultiPhase")>> ELSE <<>>

\* Seeded fault: an item that is not there keeps the monitor waiting.
CheckStateAllSynchronized(s) == \A i \in Items : s[i] = "Synchronized"

\* VeQItemInitMonitor::checkState, with items to wait for.
CheckState(s) == \A i \in Items : s[i] # "Requested"

----------------------------------------------------------------------------
Stores0 ==
    {st \in [Items -> UNION {Values[i] : i \in Items} \cup {Missing}] :
        \A i \in Items : st[i] \in Values[i] \cup {Missing}}

SettingsInit ==
    /\ \E st \in Stores0, failed \in SUBSET Items : stored = AddSettings(st, failed)
    /\ toStore = Gets
    /\ toProgram = <<>>
    /\ value = [i \in Items |-> NoValue]
    /\ state = [i \in Items |-> "Requested"]
    /\ mItems = Items
    /\ customName = NotRunning
    /\ edits = 0

Edit == edits < MaxEdits /\ edits' = edits + 1

\* localsettings answers.
StoreAnswers ==
    /\ toStore # <<>> /\ Head(toStore).call = "get"
    /\ LET i == Head(toStore).item
       IN  toProgram' = Append(toProgram, IF stored[i] = Missing THEN Refusal(i)
                                          ELSE Change(i, stored[i]))
    /\ toStore' = Tail(toStore)
    /\ UNCHANGED <<stored, value, state, mItems, customName, edits>>

\* localsettings stores v and announces it if it is new.
Stores(i, v) ==
    IF stored[i] \in {v, Missing} THEN UNCHANGED <<stored, toProgram>>
    ELSE /\ stored' = [stored EXCEPT ![i] = v]
         /\ toProgram' = Append(toProgram, Change(i, v))

StoreWrites ==
    /\ toStore # <<>> /\ Head(toStore).call = "set"
    /\ Stores(Head(toStore).item, Head(toStore).value)
    /\ toStore' = Tail(toStore)
    /\ UNCHANGED <<value, state, mItems, customName, edits>>

\* A user changes a setting.
UserSets(i, v) ==
    /\ Edit
    /\ stored[i] \notin {v, Missing}
    /\ Stores(i, v)
    /\ UNCHANGED <<toStore, value, state, mItems, customName>>

\* onSettingsInitialized; createInverter needs a device instance. An inverter
\* that is there already is deleted or overwritten.
OnSettingsInitialized(val, instance) ==
    IF IsActivated(val)
    THEN /\ customName' = IF instance = -1 THEN NotRunning ELSE val["CustomName"]
         /\ toStore' = toStore \o Migration(val)
    ELSE customName' = NotRunning /\ UNCHANGED toStore

\* Seeded fault: a name is not taken over while the inverter has one.
OnSettingsCustomNameChangedOnce(val) ==
    IF customName # NoValue THEN UNCHANGED <<customName, toStore>>
    ELSE /\ customName' = val["CustomName"]
         /\ toStore' = toStore \o Renamed(customName, val["CustomName"], val)

\* onSettingsCustomNameChanged.
OnSettingsCustomNameChanged(val) ==
    IF customName = NotRunning THEN UNCHANGED <<customName, toStore>>
    ELSE /\ customName' = val["CustomName"]
         /\ toStore' = toStore \o Renamed(customName, val["CustomName"], val)

\* onIsActivatedChanged; a detection that is requested ends in Detected.
OnIsActivatedChanged(val) ==
    /\ customName' = IF IsActivated(val) THEN customName ELSE NotRunning
    /\ UNCHANGED toStore

\* A value arrives; the slots of the monitor or, later, of the mediator run.
ValueArrives ==
    /\ toProgram # <<>>
    /\ LET new == Head(toProgram)
           val == [value EXCEPT ![new.item] = new.value]
           s   == [state EXCEPT ![new.item] = new.state]
       IN  /\ value' = val /\ state' = s
           /\ \/ /\ ~initialized /\ ~CheckState(s)
                 /\ UNCHANGED <<mItems, customName, toStore>>
              \/ /\ ~initialized /\ CheckState(s)
                 /\ mItems' = {}
                 /\ \E n \in DeviceInstances : OnSettingsInitialized(val, n)
              \/ /\ initialized /\ val = value
                 /\ UNCHANGED <<mItems, customName, toStore>>
              \/ /\ initialized /\ val # value /\ new.item \in {"Phase", "L1Energy"}
                 /\ UNCHANGED <<mItems, customName, toStore>>
              \/ /\ initialized /\ val # value /\ new.item = "CustomName"
                 /\ OnSettingsCustomNameChanged(val)
                 /\ UNCHANGED mItems
              \/ /\ initialized /\ val # value /\ new.item = "IsActive"
                 /\ OnIsActivatedChanged(val)
                 /\ UNCHANGED mItems
    /\ toProgram' = Tail(toProgram)
    /\ UNCHANGED <<stored, edits>>

\* processNewInverter, for an inverter that does not run, when it gets its
\* device instance: it asks for isActive only, not for the other settings. A
\* name that has not arrived reads as empty.
Detected ==
    /\ customName = NotRunning /\ IsActivated(value)
    /\ customName' = value["CustomName"]
    /\ UNCHANGED <<stored, toStore, toProgram, value, state, mItems, edits>>

\* onConnectionLost and onInverterModelChanged.
InverterLost ==
    /\ customName # NotRunning
    /\ customName' = NotRunning
    /\ UNCHANGED <<stored, toStore, toProgram, value, state, mItems, edits>>

\* Inverter::handleSetValue: a user changes the name at the inverter.
UserRenames(n) ==
    /\ Edit
    /\ customName # NotRunning
    /\ customName' = n
    /\ toStore' = toStore \o Renamed(customName, n, value)
    /\ UNCHANGED <<stored, toProgram, value, state, mItems>>

\* The writes among requests.
Written(requests) ==
    LET written[k \in 0..Len(requests)] ==
            IF k = 0 THEN <<>>
            ELSE IF requests[k].call = "set" THEN Append(written[k - 1], requests[k])
            ELSE written[k - 1]
    IN  written[Len(requests)]

\* The program is started anew. What it had written still gets there.
Restart ==
    /\ Edit
    /\ toStore' = Written(toStore) \o Gets
    /\ toProgram' = <<>>
    /\ value' = [i \in Items |-> NoValue]
    /\ state' = [i \in Items |-> "Requested"]
    /\ mItems' = Items
    /\ customName' = NotRunning
    /\ \E failed \in SUBSET Items : stored' = AddSettings(stored, failed)

SettingsNext ==
    \/ StoreAnswers
    \/ StoreWrites
    \/ \E i \in {"CustomName", "IsActive"} : \E v \in Values[i] : UserSets(i, v)
    \/ ValueArrives
    \/ Detected
    \/ InverterLost
    \/ \E n \in Names : UserRenames(n)
    \/ Restart

\* Messages on D-Bus are delivered and served.
SettingsSpec ==
    /\ SettingsInit /\ [][SettingsNext]_settingsVars
    /\ WF_settingsVars(StoreAnswers)
    /\ WF_settingsVars(StoreWrites)
    /\ WF_settingsVars(ValueArrives)

----------------------------------------------------------------------------
(* Properties.                                                             *)

Quiet == toStore = <<>> /\ toProgram = <<>>

\* When nothing is on its way the three copies of the name agree, in whatever
\* order users changed it at the inverter and in localsettings, also across
\* restarts and when the inverter was gone meanwhile
\* (InverterMediator::onSettingsCustomNameChanged, onInverterCustomNameChanged).
NamesAgree ==
    Quiet /\ customName # NotRunning /\ state["CustomName"] = "Synchronized"
        => customName = value["CustomName"] /\ value["CustomName"] = stored["CustomName"]

\* Two edits that cross do not echo between the two sides for ever
\* (InverterSettings::setCustomName, Inverter::setCustomName).
EditsSettle == <>[]Quiet

\* The mediator is told that the settings are there, although some may be
\* missing, and it is told again after a restart (VeQItemInitMonitor).
SettingsArrive == []<>initialized

\* inverter_mediator.cpp:88: "Migration, if this is a multi-phase inverter,
\* make sure localsettings reflect it."
MultiPhaseIsStored ==
    Quiet /\ PhaseCount > 1 /\ customName # NotRunning => stored["Phase"] = "MultiPhase"
=============================================================================
