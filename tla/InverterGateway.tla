-------------------------- MODULE InverterGateway --------------------------
(***************************************************************************)
(* Device detection of dbus-fronius: class InverterGateway with its        *)
(* HostScan helpers, the FroniusUdpDetector it starts, and the settings it *)
(* reads (src/software/src/inverter_gateway.cpp).                          *)
(*                                                                         *)
(* Everything runs on one Qt event loop, so a slot is one atomic step; the *)
(* interleaving is the order in which timers, datagrams, detector replies  *)
(* and D-Bus changes are delivered.                                        *)
(***************************************************************************)
EXTENDS Integers, FiniteSets, Sequences

CONSTANTS
    Addr,                    \* IP addresses
    Network,                 \* address entries of this host's interfaces
    Lan,                     \* networks with the addresses a sweep of each visits
    Detectors,               \* number of registered detectors (3 in the code)
    MaxSimultaneousRequests, \* 64 in the code
    MaxRequests,             \* bound on requests from outside (model bound)
    MaxWrites                \* bound on settings writes under way (model bound)

ASSUME AddrAssumption     == IsFiniteSet(Addr)
ASSUME NetworkAssumption  == IsFiniteSet(Network) /\ "priority" \notin Network
ASSUME LanAssumption      == Lan \subseteq Network \X Addr
ASSUME DetectorAssumption == Detectors \in Nat \ {0}
ASSUME LimitAssumption    == MaxSimultaneousRequests \in Nat \ {0}
ASSUME RequestAssumption  == MaxRequests \in Nat
ASSUME WriteAssumption    == MaxWrites \in Nat

VARIABLES
    mScanType,         \* what is being scanned for
    mDevicesFound,     \* hosts that answered since scan() was last called
    mActiveHosts,      \* HostScan objects with a detector running
    mAddressGenerator, \* addresses still to be issued
    mAutoDetect,       \* exported on D-Bus as /AutoDetect
    mTriedFull,        \* the automatic fall back to a full scan was used
    mTimer,            \* the repeating 60 s timer runs
    mUdpDetector,      \* its single-shot timer, and who answered
    settings,          \* the D-Bus settings, as the gateway's items show them
    knownWrites,       \* known addresses written, not yet back from localsettings
    probed,            \* history: hosts probed since the generator was restarted
    requests           \* requests from users and mediators so far (bounded)

scanVars == <<mScanType, mDevicesFound, mAutoDetect, mTriedFull>>
hostVars == <<mActiveHosts, mAddressGenerator, probed>>
vars     == <<scanVars, hostVars, mTimer, mUdpDetector, settings, knownWrites, requests>>

ScanType == {"None", "Full", "Priority", "TryPriority"}

\* What the generator hands out: a priority address, or one of a network. An
\* address of two networks is handed out for each of them.
Entry == (Network \cup {"priority"}) \X Addr

\* from and nr tell apart two HostScan objects for one host (they are pointers
\* in the code); left counts the detectors that were not started yet.
HostScan == [host : Addr, from : Network \cup {"priority"},
             nr : 1..MaxSimultaneousRequests, left : 0..Detectors-1]

TypeOK ==
    /\ mScanType \in ScanType
    /\ mDevicesFound \subseteq Addr
    /\ mActiveHosts \subseteq HostScan
    /\ mAddressGenerator \in [priority : SUBSET Addr, sweep : SUBSET (Network \X Addr)]
    /\ mAutoDetect \in BOOLEAN
    /\ mTriedFull \in BOOLEAN
    /\ mTimer \in BOOLEAN
    /\ mUdpDetector \in [timeout : BOOLEAN, devicesFound : SUBSET Addr]
    /\ settings \in [ipAddresses : SUBSET Addr, knownIpAddresses : SUBSET Addr,
                     autoScan : BOOLEAN]
    /\ knownWrites \in Seq(SUBSET Addr)
    /\ probed \subseteq Addr
    /\ requests \in 0..MaxRequests

----------------------------------------------------------------------------
(* Address generator and host scans.                                       *)

Hosts(entries) == {e[2] : e \in entries}

\* The addresses of all networks: those a full scan is to visit.
LanHosts == Hosts(Lan)

Priority(addresses) == {"priority"} \X addresses

Pending(gen) == Priority(gen.priority) \cup gen.sweep

\* Seeded fault: only the priority addresses are looked at.
HasNextPriorityOnly(gen) == gen.priority # {}

HasNext(gen) == Pending(gen) # {}

\* Priority addresses are issued before the sweep.
Issuable(gen) == IF gen.priority # {} THEN Priority(gen.priority) ELSE gen.sweep

Without(gen, B) ==
    [priority |-> {a \in gen.priority : <<"priority", a>> \notin B},
     sweep    |-> gen.sweep \ B]

\* Seeded fault: priority-only mode is never left again.
RestartedPriorityOnly(addresses, type) == [priority |-> addresses, sweep |-> {}]

\* Seeded fault: the priority addresses are not excepted from the sweep.
RestartedTwice(addresses, type) ==
    [priority |-> addresses, sweep |-> IF type = "Full" THEN Lan ELSE {}]

\* setPriorityAddresses, setPriorityOnly and reset, as continueScan calls them:
\* one Subnet for each address entry, the priority addresses excepted.
Restarted(addresses, type) ==
    [priority |-> addresses,
     sweep    |-> IF type = "Full" THEN {p \in Lan : p[2] \notin addresses} ELSE {}]

\* Seeded fault: the limit is compared with <= instead of <.
BatchesOneMore(gen, busy) ==
    {B \in SUBSET Pending(gen) :
        Cardinality(busy) + Cardinality(B) <= MaxSimultaneousRequests + 1}

\* The entries the loop of continueScan may start, given the hosts that are
\* busy: as many as fit, priority addresses first.
Batches(gen, busy) ==
    {B \in SUBSET Pending(gen) :
        /\ B \cap gen.sweep # {} => Priority(gen.priority) \subseteq B
        /\ Cardinality(busy) + Cardinality(B) <= MaxSimultaneousRequests
        /\ B # Pending(gen) =>
              Cardinality(busy) + Cardinality(B) >= MaxSimultaneousRequests}

FreeNr(e, busy) ==
    CHOOSE n \in 1..MaxSimultaneousRequests :
        \A s \in busy : s.from = e[1] /\ s.host = e[2] => s.nr # n

NewScan(e, busy) == [host |-> e[2], from |-> e[1], nr |-> FreeNr(e, busy),
                     left |-> Detectors - 1]

\* scanHost for every entry of B, on top of the busy hosts.
ScanHosts(B, busy) == busy \cup {NewScan(e, busy) : e \in B}

----------------------------------------------------------------------------
(* The scan.                                                               *)

\* Seeded fault: manually configured addresses are left out.
KnownOnly(ip, known) == known

Known(ip, known) == ip \cup known

\* continueScan for scan type "type", UDP answers "found" and settings s.
ContinueScan(type, found, s, busy) ==
    LET addresses == found \cup Known(s.ipAddresses, s.knownIpAddresses)
        gen       == Restarted(addresses, type)
    IN  IF type = "Priority" /\ addresses = {}
        THEN /\ mActiveHosts' = busy
             /\ UNCHANGED <<mAddressGenerator, probed>>
        ELSE \E B \in Batches(gen, busy) :
                /\ mActiveHosts' = ScanHosts(B, busy)
                /\ mAddressGenerator' = Without(gen, B)
                /\ probed' = Hosts(B)

\* scan(type) when the settings are (already) s.
Scan(type, s) ==
    /\ mScanType' = type
    /\ mDevicesFound' = {}
    /\ mAutoDetect' = (type = "Full")
    /\ settings' = s
    /\ IF type = "Full" \/ (type = "TryPriority" /\ s.autoScan)
       THEN /\ mUdpDetector' = [timeout |-> TRUE, devicesFound |-> {}]
            /\ UNCHANGED hostVars
       ELSE /\ mUdpDetector' = [mUdpDetector EXCEPT !.devicesFound = {}]
            /\ ContinueScan(type, {}, s, mActiveHosts)
    /\ UNCHANGED <<mTriedFull, knownWrites>>

\* The generator's constructor fills it with the local network, but no address
\* is taken before continueScan has restarted it: it counts as empty.
Init ==
    /\ mScanType = "None"
    /\ mDevicesFound = {}
    /\ mActiveHosts = {}
    /\ mAddressGenerator = [priority |-> {}, sweep |-> {}]
    /\ mAutoDetect = FALSE
    /\ mTriedFull = FALSE
    /\ mTimer = FALSE
    /\ mUdpDetector = [timeout |-> FALSE, devicesFound |-> {}]
    /\ settings \in [ipAddresses : SUBSET Addr, knownIpAddresses : SUBSET Addr,
                     autoScan : BOOLEAN]
    /\ knownWrites = <<>>
    /\ probed = {}
    /\ requests = 0

\* Called once, when the settings are available: starts the 60 s timer.
StartDetection ==
    /\ ~mTimer
    /\ mTimer' = TRUE
    /\ Scan("TryPriority", settings)
    /\ UNCHANGED requests

\* Seeded fault: the timer starts a scan although one is busy.
OnTimerUnguarded ==
    /\ mTimer
    /\ Scan("TryPriority", settings)
    /\ UNCHANGED <<mTimer, requests>>

\* The 60 s timer. While a scan is busy the slot returns at once.
OnTimer ==
    /\ mTimer
    /\ mScanType = "None"
    /\ Scan("TryPriority", settings)
    /\ UNCHANGED <<mTimer, requests>>

\* A request from a user or a mediator, once detection was started.
Request ==
    /\ mTimer
    /\ requests < MaxRequests
    /\ requests' = requests + 1
    /\ UNCHANGED mTimer

\* A mediator asks for detection: its connection was lost, the inverter model
\* changed or the inverter was activated. The 60 s timer is restarted.
StartDetectionAgain == Request /\ Scan("TryPriority", settings)

\* /AutoDetect is set to 1 over D-Bus.
FullScan == Request /\ Scan("Full", settings)

OnPortNumberChanged == Request /\ Scan("TryPriority", settings)

OnIpAddressesChanged ==
    /\ Request
    /\ \E ip \in (SUBSET Addr) \ {settings.ipAddresses} :
          Scan("Priority", [settings EXCEPT !.ipAddresses = ip])

\* AutoScan has no change signal: the gateway reads it when it needs it.
SetAutoScan ==
    /\ Request
    /\ settings' = [settings EXCEPT !.autoScan = ~@]
    /\ UNCHANGED <<scanVars, hostVars, mUdpDetector, knownWrites>>

\* A datagram arrives: the socket is bound for good, not only while the
\* detector waits.
UdpResponse(a) ==
    /\ mUdpDetector' = [mUdpDetector EXCEPT !.devicesFound = @ \cup {a}]
    /\ UNCHANGED <<scanVars, hostVars, mTimer, settings, knownWrites, requests>>

\* The 5 s timer of the UDP detector: finished() is connected to continueScan.
UdpTimeout ==
    /\ mUdpDetector.timeout
    /\ mUdpDetector' = [mUdpDetector EXCEPT !.timeout = FALSE]
    /\ ContinueScan(mScanType, mUdpDetector.devicesFound, settings, mActiveHosts)
    /\ UNCHANGED <<scanVars, mTimer, settings, knownWrites, requests>>

\* A detector found a device: HostScan::onDeviceFound drops the detectors not
\* yet tried, then onInverterFound notes the host. The list of known addresses
\* it extends is the one its settings item shows: what it writes there is only
\* sent to localsettings.
DeviceFound(s) ==
    /\ s \in mActiveHosts
    /\ mActiveHosts' = (mActiveHosts \ {s}) \cup {[s EXCEPT !.left = 0]}
    /\ mDevicesFound' = mDevicesFound \cup {s.host}
    /\ IF s.host \in settings.ipAddresses \cup settings.knownIpAddresses
       THEN UNCHANGED knownWrites
       ELSE /\ Len(knownWrites) < MaxWrites
            /\ knownWrites' =
                  Append(knownWrites, settings.knownIpAddresses \cup {s.host})
    /\ UNCHANGED <<mScanType, mAutoDetect, mTriedFull, mAddressGenerator, mTimer,
                   mUdpDetector, settings, probed, requests>>

\* localsettings has stored a list of known addresses and reports it.
KnownIpAddressesArrive ==
    /\ knownWrites # <<>>
    /\ settings' = [settings EXCEPT !.knownIpAddresses = Head(knownWrites)]
    /\ knownWrites' = Tail(knownWrites)
    /\ UNCHANGED <<scanVars, hostVars, mTimer, mUdpDetector, requests>>

\* A detector finished without more to say: the next one is started.
NextDetector(s) ==
    /\ s \in mActiveHosts
    /\ s.left > 0
    /\ mActiveHosts' = (mActiveHosts \ {s}) \cup {[s EXCEPT !.left = @ - 1]}
    /\ UNCHANGED <<scanVars, mAddressGenerator, probed, mTimer, mUdpDetector,
                   settings, knownWrites, requests>>

\* The hosts an earlier scan found and this one did not.
Missing == settings.knownIpAddresses \ mDevicesFound

\* The last host is done: fall back to a full scan, or the scan is complete.
ScanComplete(busy) ==
    IF mScanType = "TryPriority" /\ settings.autoScan /\ Missing # {} /\ ~mTriedFull
    THEN /\ mScanType' = "Full"
         /\ mTriedFull' = TRUE
         /\ mAutoDetect' = TRUE
         /\ ContinueScan("Full", mUdpDetector.devicesFound, settings, busy)
         /\ UNCHANGED mTimer
    ELSE /\ mScanType' = "None"
         /\ mAutoDetect' = FALSE
         /\ mTimer' = TRUE
         /\ mActiveHosts' = busy
         /\ UNCHANGED <<mTriedFull, mAddressGenerator, probed>>

\* Seeded faults: the host that finished is still counted, or not needed.
AllDoneTooEarly(busy) == Cardinality(busy) <= 1
AllDoneNever(busy) == mActiveHosts = {}

AllDone(busy) == busy = {}

\* onDetectionDone: the last detector of a host finished.
DetectionDone(s) ==
    /\ s \in mActiveHosts
    /\ s.left = 0
    /\ LET busy == mActiveHosts \ {s}
       IN  IF mScanType # "None" /\ HasNext(mAddressGenerator)
           THEN /\ \E e \in Issuable(mAddressGenerator) :
                      /\ mActiveHosts' = ScanHosts({e}, busy)
                      /\ mAddressGenerator' = Without(mAddressGenerator, {e})
                      /\ probed' = probed \cup Hosts({e})
                /\ UNCHANGED <<mScanType, mAutoDetect, mTriedFull, mTimer>>
           ELSE IF AllDone(busy)
           THEN ScanComplete(busy)
           ELSE /\ mActiveHosts' = busy
                /\ UNCHANGED <<mScanType, mAutoDetect, mTriedFull, mTimer,
                               mAddressGenerator, probed>>
    /\ UNCHANGED <<mDevicesFound, mUdpDetector, settings, knownWrites, requests>>

Next ==
    \/ StartDetection
    \/ OnTimer
    \/ StartDetectionAgain
    \/ FullScan
    \/ OnPortNumberChanged
    \/ OnIpAddressesChanged
    \/ SetAutoScan
    \/ \E a \in Addr : UdpResponse(a)
    \/ UdpTimeout
    \/ KnownIpAddressesArrive
    \/ \E s \in mActiveHosts : DeviceFound(s) \/ NextDetector(s) \/ DetectionDone(s)

Spec == Init /\ [][Next]_vars

\* Timers expire, every detector reply has a time limit and localsettings
\* answers; users and inverters owe nothing.
Fairness ==
    /\ WF_vars(StartDetection)
    /\ WF_vars(OnTimer)
    /\ WF_vars(UdpTimeout)
    /\ WF_vars(KnownIpAddressesArrive)
    /\ WF_vars(\E s \in mActiveHosts : NextDetector(s) \/ DetectionDone(s))

FairSpec == Spec /\ Fairness

----------------------------------------------------------------------------
(* Properties that hold whatever the user requests.                        *)

Configured == settings.ipAddresses \cup settings.knownIpAddresses

\* No more than 64 hosts are probed at a time, although onDetectionDone and
\* three different callers of continueScan start hosts on top of busy ones.
ActiveBound == Cardinality(mActiveHosts) <= MaxSimultaneousRequests

\* /AutoDetect on D-Bus says Busy exactly while a full scan is the current
\* scan, whether the user, the fall back or a competing scan set its type.
AutoDetectMirrorsFull == mAutoDetect <=> mScanType = "Full"

\* Once a full sweep has begun no address of the network is forgotten: it was
\* handed to a HostScan or waits in the generator, even if older host scans
\* are draining the same generator.
SweepNotDropped ==
    mScanType = "Full" /\ ~mUdpDetector.timeout
        => LanHosts \subseteq Hosts(Pending(mAddressGenerator)) \cup probed

\* A scan that started no host and waits for nothing: mScanType stays set,
\* onTimer returns at once, and only a request from outside ends it.
Stalled == mScanType # "None" /\ mActiveHosts = {} /\ ~mUdpDetector.timeout

\* continueScan leaves the gateway stalled only when there is neither a manual
\* nor a known address: with an address to ask, every caller of it, and every
\* host that finishes, keeps the scan going or completes it.
StallsOnlyUnconfigured == [][~Stalled /\ Stalled' => Configured' = {}]_vars

\* Unless the user has left nothing to ask, every scan comes to an end, so
\* that the 60 s timer can start the next one.
ScanTerminates ==
    mScanType # "None" /\ ~Stalled ~> mScanType = "None" \/ Configured = {}

\* Every manual and known address is asked again and again ("will be repeated
\* every minute", inverter_gateway.h), for as long as it is configured. The
\* exception is a scan that found nothing to ask and stays stalled, although an
\* address it had found before came back from the settings since.
Reprobed ==
    \/ \A a \in Addr :
          []<>(a \in Configured => a \in {s.host : s \in mActiveHosts})
    \/ <>[]Stalled

\* The gateway takes addresses from its generator in no other way than the
\* generator promises to serve: restart, then priority addresses, then the
\* rest of the networks, each once, whichever of its callers restarts it.
Sweep == INSTANCE AddressSweep
         WITH lan    <- Lan,
              todo   <- mAddressGenerator,
              issued <- probed
UsesSweep == Sweep!Spec

----------------------------------------------------------------------------
(* Properties of the periodic scan, until the first outside request.       *)

\* No host is probed by two HostScan objects at once, however the 60 s timer,
\* the UDP timer and finishing hosts alternate; except by the sweeps of two
\* networks that it is in both, once for each, and never beside a priority one.
NoDoubleProbe ==
    requests = 0 =>
        \A s, t \in mActiveHosts :
            s.host = t.host /\ s # t => s.from # t.from /\ {s.from, t.from} \subseteq Network

\* Between scans nothing is left over: no host, no address, no UDP timer that
\* would call continueScan out of turn.
IdleMeansDone ==
    mScanType = "None" /\ requests = 0
        => /\ mActiveHosts = {}
           /\ ~HasNext(mAddressGenerator)
           /\ ~mUdpDetector.timeout

\* A fall back to a full scan is declared complete only when every address of
\* every network was probed.
FullScanCovers ==
    [][mScanType = "Full" /\ mScanType' = "None" /\ requests = 0
         => LanHosts \subseteq probed]_vars

----------------------------------------------------------------------------
(* What the documentation says and the code does not do.                   *)

\* documents/ipaddress_scanning.dot:11: "Any IPs found stored as known IPs".
\* When no write is under way any more, every device that answered in the
\* current scan has its address among the manual or the known ones, so that
\* the next priority scan asks it again.
FoundIsRemembered == knownWrites = <<>> => mDevicesFound \subseteq Configured

\* documents/ipaddress_scanning.dot:18: without a manual or known address all
\* addresses of the local network are scanned.
StartupSweep ==
    mTimer /\ Configured = {} /\ settings.autoScan
        ~> mScanType = "Full" \/ Configured # {} \/ ~settings.autoScan

\* documents/ipaddress_scanning.dot:24: when the user enables auto detection
\* all addresses of the local network are scanned.
AutoDetectCovers ==
    [][mScanType = "Full" /\ mScanType' = "None" => LanHosts \subseteq probed]_vars

\* documents/ipaddress_scanning.dot:21: the network is scanned when a manual
\* or known address was not found.
MissingManualSwept ==
    [][mScanType = "TryPriority" /\ mScanType' = "None" /\ settings.autoScan /\ ~mTriedFull
         => Configured \subseteq mDevicesFound]_vars
============================================================================
