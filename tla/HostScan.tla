------------------------------- MODULE HostScan -------------------------------
(***************************************************************************)
(* The detection on one host: a HostScan (inverter_gateway.cpp) with its   *)
(* SolarApiDetector, SunspecDetector and SMADetector. The first asks the   *)
(* Solar API for the inverters of the host and starts a SunSpec detection  *)
(* for each of them; it falls back to the Solar API for those that do not  *)
(* answer. The others ask one unit each.                                   *)
(*                                                                         *)
(* A probe is a detection over Modbus with the ModbusTcpClient it owns.    *)
(* Its key is the inverter it is for, or the detector. As in               *)
(* SunspecUpdater the handlers are operators, here on the pair of scan and *)
(* probes. deleteLater of a client is a delete: the event loop serves it   *)
(* before the sockets. Of the registers only the choices they lead to are  *)
(* kept, and the Solar API is taken to answer each request, possibly with  *)
(* an error (see SolarApiUpdater).                                         *)
(***************************************************************************)
EXTENDS ModbusTcpClient

CONSTANTS
    Inverters,   \* that the Solar API may report
    Sizes,       \* of SunSpec models
    Registers    \* number of register addresses, 2^16 in the code

ASSUME InverterAssumption == Inverters \cap {"SunspecDetector", "SMADetector"} = {}
ASSUME SizesAssumption    == Sizes \subseteq Nat
ASSUME RegisterAssumption == Registers \in Nat \ {0}

VARIABLES
    scan,   \* members of the HostScan and of the SolarApiDetector
    probes  \* mClientToReply of both other detectors

vars == <<scan, probes>>

Detectors == <<"SolarApiDetector", "SunspecDetector", "SMADetector">>
Keys      == Inverters \cup {"SunspecDetector", "SMADetector"}

\* What SMADetector reads, one after the other.
SMANext ==
    [ReadDeviceClass     |-> "ReadDeviceType",
     ReadDeviceType      |-> "ReadSerialNumber",
     ReadSerialNumber    |-> "ReadSoftwareVersion",
     ReadSoftwareVersion |-> "ReadMaxPower",
     ReadMaxPower        |-> "ReadPowerLimit"]

SMAStates     == DOMAIN SMANext \cup {"ReadPowerLimit"}
SunspecStates == {"SunSpecHeader", "ModuleHeader", "ModuleContent"}

Request == [id : Ids, kind : SMAStates \cup SunspecStates, value : {0}]

\* The Reply of SunspecDetector or SMADetector.
Probe ==
    [client : ClientType(Request),
     state : SMAStates \cup SunspecStates,
     currentRegister : 0..Registers - 1,
     named : BOOLEAN,       \* productName is set
     phased : BOOLEAN]      \* phaseCount is set

TypeOK ==
    /\ scan \in [detectors : Seq({Detectors[i] : i \in DOMAIN Detectors}),
                 api : {"deviceInfo", "converterInfo", "idle"},
                 deviceFound : UNION {[K -> BOOLEAN] : K \in SUBSET Inverters},
                 reported : SUBSET Inverters,   \* history
                 found : SUBSET Keys,           \* history: announced
                 wrapped : BOOLEAN,             \* history: currentRegister did
                 finished : 0..2]               \* history: times announced
    /\ DOMAIN probes \subseteq Keys
    /\ \A k \in DOMAIN probes : probes[k] \in Probe

----------------------------------------------------------------------------
(* HostScan and SolarApiDetector, on records s with s.scan and s.probes.   *)

\* start of SunspecDetector and SMADetector.
NewProbe(k) ==
    [client |-> ConnectToServer(NewClient),
     state |-> IF k = "SMADetector" THEN "ReadDeviceClass" ELSE "SunSpecHeader",
     currentRegister |-> 0, named |-> FALSE, phased |-> FALSE]

StartProbes(s, keys) ==
    [s EXCEPT !.probes = [k \in keys \cup DOMAIN s.probes |->
                             IF k \in keys THEN NewProbe(k) ELSE s.probes[k]]]

\* FroniusSolarApi::getDeviceInfoAsync and getConverterInfoAsync.
GetDeviceInfoAsync(s)    == [s EXCEPT !.scan.api = "deviceInfo"]
GetConverterInfoAsync(s) == [s EXCEPT !.scan.api = "converterInfo"]

\* HostScan::scan: the next detector, if there is one.
Scan(s) ==
    LET t == [s EXCEPT !.scan.detectors = Tail(@)]
    IN  CASE s.scan.detectors = <<>> -> [s EXCEPT !.scan.finished = @ + 1]
          [] s.scan.detectors # <<>> /\ Head(s.scan.detectors) = "SolarApiDetector" ->
                GetDeviceInfoAsync(t)
          [] OTHER -> StartProbes(t, {Head(s.scan.detectors)})

\* Seeded fault: the next detectors are tried all the same.
DeviceFoundGoesOn(s, k) == [s EXCEPT !.scan.found = @ \cup {k}]

\* HostScan::onDeviceFound.
DeviceFound(s, k) == [s EXCEPT !.scan.detectors = <<>>, !.scan.found = @ \cup {k}]

\* Seeded fault: the end of each detection is taken for the end of the last.
CheckFinishedAtOnce(s) == Scan(s)

\* SolarApiDetector::checkFinished.
CheckFinished(s) ==
    IF \E i \in DOMAIN s.scan.deviceFound : ~s.scan.deviceFound[i] THEN s ELSE Scan(s)

\* SolarApiDetector::onSunspecDeviceFound.
OnSunspecDeviceFound(s, i) ==
    DeviceFound([s EXCEPT !.scan.deviceFound[i] = TRUE], i)

\* Seeded fault: no fall back to the Solar API.
OnSunspecDoneNoFallback(s, i) ==
    CheckFinished([s EXCEPT !.scan.deviceFound = Restrict(@, DOMAIN @ \ {i})])

\* SolarApiDetector::onSunspecDone.
OnSunspecDone(s, i) ==
    LET t == [s EXCEPT !.scan.deviceFound = Restrict(@, DOMAIN @ \ {i})]
    IN  CheckFinished(IF s.scan.deviceFound[i] THEN t ELSE DeviceFound(t, i))

\* setResult of a probe.
SetResult(s, k) ==
    IF k \in Inverters THEN OnSunspecDeviceFound(s, k) ELSE DeviceFound(s, k)

\* setDone of both detectors: finished() first, which may start the next one.
SetDone(s, k) ==
    LET t == [s EXCEPT !.probes = Restrict(@, DOMAIN @ \ {k})]
    IN  CASE k \notin DOMAIN s.probes -> s
          [] k \in DOMAIN s.probes /\ k \in Inverters -> OnSunspecDone(t, k)
          [] OTHER -> Scan(t)

\* onDeviceInfoFound, called for errors as well.
OnDeviceInfoFound(s) == GetConverterInfoAsync(s)

\* onConverterInfoFound: an inverter is looked at when its type is known.
OnConverterInfoFound(s, info) ==
    LET known == {i \in DOMAIN info : info[i] # 255}
        t     == [s EXCEPT !.scan.api = "idle", !.scan.reported = known,
                           !.scan.deviceFound = [i \in known |-> FALSE]]
    IN  IF known = {} THEN Scan(t) ELSE StartProbes(t, known)

----------------------------------------------------------------------------
(* The probes.                                                             *)

\* startNextRequest.
Ask(s, k, state) ==
    [s EXCEPT !.probes[k].state = state,
              !.probes[k].client = SendFrame(@, state, 0)]

\* The walk goes on behind a model of the given size; 16 bits in the code.
Advance(s, k, size, state) ==
    LET next == s.probes[k].currentRegister + 2 + size
    IN  Ask([s EXCEPT !.probes[k].currentRegister = next % Registers,
                      !.scan.wrapped = @ \/ next >= Registers], k, state)

None == "None"  \* no registers, for an error, or fewer than are looked at

\* What the handlers make of the registers they get in a state. In a model
\* "data" are ratings or controls, whose content is read, too.
Values(state) ==
    LET ids == CASE state = "SunSpecHeader" -> {"SunS"}
                 [] state = "ModuleHeader"  -> {"inverter", "data", "end"}
                 [] state = "ModuleContent" -> {"common", "SMA"}
                 [] state \in SMAStates     -> {"good"}
    IN  [id : ids \cup {"other", None}, size : Sizes]

Nothing == [id |-> None, size |-> 0]

\* ModuleHeader in SunspecDetector::onFinished.
OnModuleHeader(s, k, v) ==
    CASE v.id = "end"      -> SetDone(IF s.probes[k].named /\ s.probes[k].phased
                                      THEN SetResult(s, k) ELSE s, k)
      [] v.id = "data"     -> Ask(s, k, "ModuleContent")
      [] v.id = "inverter" -> Advance([s EXCEPT !.probes[k].phased = TRUE], k,
                                      v.size, "ModuleHeader")
      [] v.id = "other"    -> Advance(s, k, v.size, "ModuleHeader")

\* ModuleContent: an SMA inverter is left to the SMADetector.
OnModuleContent(s, k, v) ==
    IF v.id = "SMA" THEN SetDone(s, k)
    ELSE Advance([s EXCEPT !.probes[k].named = @ \/ v.id = "common"], k,
                 v.size, "ModuleHeader")

\* Seeded fault: an error leaves the detection as it is.
OnFinishedIgnores(s, k, v) ==
    LET state == s.probes[k].state
    IN  CASE v.id = None -> s
          [] v.id # None /\ state = "SunSpecHeader" ->
                IF v.id = "SunS" THEN Advance(s, k, 0, "ModuleContent") ELSE SetDone(s, k)
          [] v.id # None /\ state = "ModuleHeader"  -> OnModuleHeader(s, k, v)
          [] v.id # None /\ state = "ModuleContent" -> OnModuleContent(s, k, v)
          [] OTHER -> SetDone(s, k)

\* onFinished of SunspecDetector and SMADetector, errors included. The latter
\* stops when class or type of the device are not those it knows.
OnFinished(s, k, v) ==
    LET state == s.probes[k].state
    IN  CASE v.id = None -> SetDone(s, k)
          [] v.id # None /\ state = "SunSpecHeader" ->
                IF v.id = "SunS" THEN Advance(s, k, 0, "ModuleContent") ELSE SetDone(s, k)
          [] v.id # None /\ state = "ModuleHeader"  -> OnModuleHeader(s, k, v)
          [] v.id # None /\ state = "ModuleContent" -> OnModuleContent(s, k, v)
          [] v.id # None /\ state = "ReadPowerLimit" -> SetDone(SetResult(s, k), k)
          [] v.id # None /\ state \in DOMAIN SMANext ->
                IF v.id = "other" /\ state \in {"ReadDeviceClass", "ReadDeviceType"}
                THEN SetDone(s, k) ELSE Ask(s, k, SMANext[state])

\* onConnected.
OnConnected(s, k) == Ask(s, k, s.probes[k].state)

\* onSocketErrorReceived of the client: replies fail, then disconnected().
OnSocketError(s, k) ==
    SetDone(IF s.probes[k].client.pending = {} THEN s ELSE OnFinished(s, k, Nothing), k)

----------------------------------------------------------------------------
Becomes(s) == scan' = s.scan /\ probes' = s.probes

\* The pair, with the client of k as given.
With(k, client) == [scan |-> scan, probes |-> [probes EXCEPT ![k].client = client]]

\* HostScan::HostScan and scan.
Init ==
    /\ scan = [detectors |-> Tail(Detectors), api |-> "deviceInfo",
               deviceFound |-> <<>>, reported |-> {}, found |-> {},
               wrapped |-> FALSE, finished |-> 0]
    /\ probes = <<>>

\* FroniusSolarApi::processDeviceInfo. Serial numbers are not kept here.
ProcessDeviceInfo ==
    /\ scan.api = "deviceInfo"
    /\ Becomes(OnDeviceInfoFound([scan |-> scan, probes |-> probes]))

\* FroniusSolarApi::processConverterInfo: the device types of the inverters in
\* the answer; an error lists none, and 255 is a type not known (yet).
ConverterInfos == UNION {[I -> {1, 255}] : I \in SUBSET Inverters}

ProcessConverterInfo ==
    /\ scan.api = "converterInfo"
    /\ \E info \in ConverterInfos :
          Becomes(OnConverterInfoFound([scan |-> scan, probes |-> probes], info))

Connected(k) ==
    /\ probes[k].client.socket = "Connecting"
    /\ Becomes(OnConnected(With(k, SocketConnected(probes[k].client)), k))

\* The device answers, with an exception or a broken frame too.
Answered(k, r) ==
    /\ r \in Answerable(probes[k].client)
    /\ \E v \in Values(probes[k].state) :
          Becomes(OnFinished(With(k, Finished(probes[k].client, r)), k, v))

ReplyTimedOut(k, r) ==
    /\ Expires(probes[k].client, r.id)
    /\ Becomes(OnFinished(With(k, Finished(probes[k].client, r)), k, Nothing))

\* The connection is refused or breaks. What the socket tells after the end of
\* the probe is not heard.
ConnectionFails(k) ==
    /\ probes[k].client.socket # "Unconnected"
    /\ Becomes(OnSocketError(With(k, probes[k].client), k))

\* The connect timer; the slot of disconnected() is onDisconnected.
ConnectTimerExpired(k) ==
    /\ Expires(probes[k].client, ConnectTimer)
    /\ Becomes(SetDone(With(k, ConnectTimeout(probes[k].client)), k))

ProbeStep(k) ==
    \/ Connected(k)
    \/ \E r \in probes[k].client.pending : Answered(k, r) \/ ReplyTimedOut(k, r)
    \/ ConnectionFails(k)
    \/ ConnectTimerExpired(k)

\* The gateway deletes a HostScan that has finished.
Deleted == scan.finished > 0 /\ UNCHANGED vars

Next ==
    \/ ProcessDeviceInfo
    \/ ProcessConverterInfo
    \/ \E k \in DOMAIN probes : ProbeStep(k)
    \/ Deleted

Spec == Init /\ [][Next]_vars

\* The Solar API answers within its time limit, and timers expire.
Fairness ==
    /\ WF_vars(ProcessDeviceInfo \/ ProcessConverterInfo)
    /\ \A k \in Keys :
          WF_vars(k \in DOMAIN probes
                    /\ \/ ConnectTimerExpired(k)
                       \/ \E r \in probes[k].client.pending : ReplyTimedOut(k, r))

FairSpec == Spec /\ Fairness

----------------------------------------------------------------------------
(* Properties.                                                             *)

\* The detection on a host is over exactly when nothing is under way: neither a
\* detection that was overtaken goes on, nor does a host wait for nothing.
OverWhenIdle ==
    scan.finished = 0 <=> (scan.api # "idle" \/ probes # <<>>)

\* When the detection is over, each inverter the Solar API reported has been
\* announced, over SunSpec or for the Solar API, and nothing else with it.
EveryInverterAnnounced ==
    /\ scan.finished > 0 => scan.reported \subseteq scan.found
    /\ scan.reported # {} => scan.found \subseteq scan.reported

\* Detection on a host ends, whatever the device does, unless its SunSpec models
\* lead the walk past the last register address.
DetectionEnds == <>(scan.finished > 0 \/ scan.wrapped)

\* The detection on a host is what the gateway takes it to be.
Contract ==
    INSTANCE HostDetection WITH
        Detectors <- Len(Detectors),
        left      <- Len(scan.detectors),
        found     <- scan.found,
        done      <- scan.finished

Implements == Contract!Spec
=============================================================================
