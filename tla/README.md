# A verification development for dbus-fronius

dbus-fronius finds PV inverters (Fronius Solar API over HTTP, SunSpec and SMA over
Modbus TCP) in the local network, reads them every second or so and publishes them
on D-Bus for a Venus GX device. It is one process with one Qt event loop: a slot runs
to its end, so a slot is an atomic step, and what is hard is the *order* in which
timers, datagrams, replies, socket errors and D-Bus changes are delivered, and the
state slots leave behind for one another.

The modules here model which hosts are probed and how a host is probed, which inverters
run and with which settings, whether and how each of the three protocols keeps an inverter
polled, and what becomes of its energy counters. Paths are relative to `src/software/src/` in the checkout, `(dot)` is `src/documents/ipaddress_scanning.dot`.

- [Inventory](#inventory)
- [Modules](#modules)
- [Runs](#runs)
- [Bounds](#bounds)
- [Fairness](#fairness)
- [Proofs](#proofs)
- [Where code and words differ](#where-code-and-words-differ)
- [Abstractions](#abstractions)
- [Not modelled](#not-modelled)
- [Plan](#plan)

## Inventory

| Component | State it keeps | Operations | Talks to | Modelled in |
|---|---|---|---|---|
| `InverterGateway` | scan type, devices found, active hosts, /AutoDetect, "tried full scan", 60 s timer | `startDetection`, `fullScan`, `scan`, `continueScan`, `scanHost`, `onInverterFound`, `onDetectionDone`, `onPortNumberChanged`, `onIpAddressesChanged`, `onTimer` | address generator (calls), UDP detector (signal `finished`), host scans (signals), `Settings` (reads, writes, signals), `DBusFronius` (signal `inverterFound`) | `InverterGateway` |
| `FroniusUdpDetector` | 5 s timer, addresses that answered | `start`, `reset`, datagram received, timeout | gateway | `InverterGateway` |
| `LocalIpAddressGenerator` | priority list and index, subnets with a cursor each | `setPriorityAddresses`, `setPriorityOnly`, `reset`, `hasNext`, `next`, `progress` | gateway, network interfaces | `LocalIpAddressGenerator`, `AddressSweep` |
| `HostScan` with `SolarApiDetector`, `SunspecDetector`, `SMADetector` | detectors not yet tried; inverters waited for; the register and state of each detection, a Modbus client each | `scan`, `onDeviceFound`, `start`, replies, errors, timeouts, `setResult`, `setDone`, `checkFinished` | gateway (signals `deviceFound`, `finished`), Solar API, `ModbusTcpClient` | `HostScan`, `HostDetection` |
| `DBusFronius`, `InverterMediator` | list of mediators; device last seen, its inverter | `onInverterFound`, `startDetection`, start-up, /AutoDetect from D-Bus; `processNewInverter`, `onSettingsInitialized`, `onIsActivatedChanged`, `onConnectionLost`, `onInverterModelChanged`, the slots for the name | gateway, updaters, `InverterSettings` | `InverterMediator`, `InverterSettings` |
| `InverterSettings`, `VeQItemInitMonitor`, `VeQItemConsumer` | D-Bus items of localsettings, the items waited for | getters, setters, change signals, `initialized`, `addSetting`, `registerInverter` | localsettings, mediators | `InverterSettings` |
| `SunspecUpdater` | state of the polling loop, retry count, power limit, timer | `startNextAction`, `startIdleTimer`, `handleError`, the completion slots, `onPowerLimitRequested`, `onTimer` | `ModbusTcpClient`, inverter, mediator | `SunspecUpdater` |
| `SMAUpdater`, `SMAInverter` | the same, with login, operating mode, condition and status | the same kind of slots | `ModbusTcpClient`, mediator | `SMAUpdater` |
| `ModbusTcpClient`, `ModbusReply` | socket, pending replies, connect timer | `connectToServer`, requests, `onReadyRead`, `onSocketErrorReceived`, `timerEvent`, `setFinished` | updaters, detectors, `QTcpSocket` | `ModbusTcpClient` |
| `SolarApiUpdater`, `FroniusSolarApi` | request under way, time limit, retry count, HTTP client | request cycle, `processReply`, `onTimeout`, `updateHttpClient` | `QHttp`, data processor, mediator | `SolarApiUpdater` |
| `QHttp` | state, queue of requests, slots posted, socket, authenticator | `get`, `close`, `abort`, the slots of the socket and the posted ones | `QTcpSocket`, Solar API | `QHttp` |
| `QRingBuffer` | blocks, head, tail | `reserve`, `read`, `readLine`, `free`, `ungetChar`, `clear`, ... | `QHttp` | `QRingBuffer`, `ByteQueue` |
| `DataProcessor` with `PowerInfo` | energies of the phases, saved energies, last total | both `process`, `updateEnergySettings`, `onPhaseChanged`, `updateSplitPhase` | updaters, settings | `DataProcessor` |
| `Settings` | D-Bus items of localsettings | getters, setters, change signals | gateway | as items with writes under way in `InverterGateway` |
| `Inverter`, `FroniusInverter`, `PvInfo`, `VeService`, device tables, register helpers | published values | setters, conversions | D-Bus | name and energies only |

What makes the components hard, and what correctness is for each:

- **Gateway.** A request may come at any moment of a running scan. `scan()` does not
  cancel the hosts of the scan before; their end is reported to a slot that knows only
  the *current* scan, and they drain the generator the new scan has restarted. Correct
  is: bounded parallelism, no lost address, a known address is asked again and again,
  a scan ends, it stalls only with nothing to ask, found devices are remembered (they are not all: see
  [below](#where-code-and-words-differ)), /AutoDetect says what goes on.
- **Generator.** Indices, per-subnet cursors, a list of exceptions that can change
  during an iteration, networks of one or two addresses. Correct is the contract of
  `AddressSweep`: every host once for each network it is in, priority addresses first, this
  host never, and a progress that is complete when the iteration is.
- **Detection on a host.** Detectors one after the other; the first of them starts SunSpec
  detections for several inverters side by side, and a connection that breaks is reported
  twice, while the slots of its end start the next detection. Correct is the contract of
  `HostDetection`: devices are announced before the end, the end comes once, and when it comes
  nothing goes on, nothing is forgotten.
- **Mediators.** Settings arrive item by item, devices move between addresses and
  displace each other, connections are lost, users switch inverters off. Correct is:
  an inverter that is asked where the device was last seen, none when switched off, one at a time, and always
  another one when it stays on.
- **Settings.** The name of an inverter has three copies, in three places where it can be changed;
  messages cross on their way. Correct is: they agree when all is quiet, it becomes quiet, and
  the mediator is told that its settings are there, even if some are missing.
- **Polling over Modbus.** There is no supervisor: a loop lives on one timer, one reply
  or one connection attempt. Socket errors finish replies, whose slots send requests
  and start timers, before the disconnection is announced. Correct is: never stuck,
  an answer is read as what was asked, silence leads to `connectionLost`; for SMA also that
  writes to the inverter are bounded, the limit is written with control only, and the status
  shown is the one set.
- **Polling over HTTP.** A request is followed by a close which is a request, too; slots are
  posted, connections are reused, requests sent again; the client is replaced while it works.
  Correct is: one request or one scheduled retrieval, the time limit belongs to it, an answer to
  the request before is not taken for it, polling goes on. Of the ring buffer: it is a queue.
- **Energy.** One counter is shared out over phases by a formula that divides, with a copy in the
  settings that comes back after a restart. Correct is: the sum follows the total, no phase ever
  goes backwards, no phase is saved with more than was produced.

The complete list of hazards, with the line where each bites and the property that
covers it (or why none does), is in `PROJECT.json`.

## Modules

| Module | What it is |
|---|---|
| `InverterGateway` | the gateway with its host scans, UDP detector, 60 s timer and settings: one action per slot |
| `LocalIpAddressGenerator` | the iterator as the gateway drives it, with `progress()` |
| `AddressSweep` | abstract: what the iterator promises and the gateway relies on. `LocalIpAddressGenerator` implements it (`Sweeps`), `InverterGateway` uses its generator as it says (`UsesSweep`). It is the interface at which the two are composed |
| `HostScan` | the detection on one host with its three detectors and their Modbus clients |
| `HostDetection` | abstract: what the gateway takes the detection on a host to be, its actions `DeviceFound`, `NextDetector` and `DetectionDone`. `HostScan` implements it (`Implements`) |
| `InverterMediator` | `DBusFronius` and all mediators |
| `InverterSettings` | one mediator, its `InverterSettings`, the monitor of their arrival and localsettings, with the messages between the two processes |
| `ModbusTcpClient` | the client as a record, its methods and slots as operators on it |
| `SunspecUpdater`, `SMAUpdater` | an updater and its client: handlers are operators on the pair, since signals call slots synchronously; one action per event |
| `QHttp` | the HTTP client as a record, likewise |
| `SolarApiUpdater` | the updater, its `FroniusSolarApi` and the client |
| `QRingBuffer` | the buffer of blocks, one action per call |
| `ByteQueue` | abstract: the queue of bytes which `QRingBuffer` implements |
| `DataProcessor` | the energies of the phases, with the calls both updaters make |
| `MC*` | constants for TLC |
| `InverterGatewayProofs`, `LocalIpAddressGeneratorProofs`, `HostScanProofs`, `SunspecUpdaterProofs`, `SMAUpdaterProofs` | theorems about the module of that name |
| `HttpProofs` | theorems about the HTTP side of an inverter: `SolarApiUpdater` with its client `QHttp`, and `QRingBuffer`, whose specification is named `BufferSpec` since `HttpProofs` extends both |
| `InverterProofs` | theorems about an inverter at home: `InverterMediator`, `InverterSettings` and `DataProcessor`. It extends all three; what they have in common is named apart, as `SettingsSpec` and `EnergySpec` |
| `ModbusTcpClientProofs` | lemmas about the client, for any set of requests; the proofs of both updaters use them |

**InverterGateway.** `mScanType`, `mDevicesFound`, `mActiveHosts`, `mAutoDetect`,
`mTriedFull` are the members of those names. A `HostScan` is a record of its host, the list of the
generator the host came `from`, a number
that tells apart two objects that agree in both, and the count of detectors not yet started.
`mAddressGenerator` is the content of the generator, what is still to come: priority addresses, then pairs of a
network and an address, as there is one `Subnet` for each address entry of an interface. A host of two networks is
issued for both. `probed` is a history variable. `settings` is what the items of localsettings show; a write of
the known addresses is under way in `knownWrites` until `KnownIpAddressesArrive`, and `DeviceFound`
extends the list that is *shown*. `mUdpDetector` is the detector's single-shot timer
and its answers: the socket is bound for good, so a datagram can arrive at any time.
`Scan(type, s)` is `scan()`, with the settings as they are once it runs (a change of the
manual addresses is signalled after the fact), `ContinueScan` is `continueScan()`, which
`scan`, the UDP timer and the fall back all call. `DetectionDone` is the whole of
`onDetectionDone`, including the next host, the fall back and the end of the scan. Requests
from outside are `StartDetectionAgain` (a mediator), `FullScan` (/AutoDetect),
`OnPortNumberChanged`, `OnIpAddressesChanged`, `SetAutoScan`; they are counted by `requests`. `Stalled` says that a scan is
the current one, but no host and no timer is left that could go on with it.

**LocalIpAddressGenerator.** Addresses are numbers and networks have a size that is a power
of two, so masks become `%`. `Advanced` is `Subnet::next`, `SubnetOf` the body of the loop of
`reset`. `Restart` is the three calls `continueScan` makes, `NextHost` a call of `next()` where
`hasNext()` has said yes. Interfaces are independent of one another in the code, so what is to come of the
sweep is a set of pairs of a network and an address: two interfaces in one network hand its hosts out
twice, and each leaves out its own address only.

**InverterMediator.** `InverterFound(info, registered)` is the loop of
`DBusFronius::onInverterFound` over the mediators in the order of their creation: the ones
before the owner of the device may find themselves displaced, the owner ends the loop,
without an owner a mediator is added. `registered` is whether localsettings answered
`registerInverter`. `items` is how far the settings have arrived: the value of `IsActive` may
be there before the rest, and a device found again in between gets its inverter at once. `onSettingsInitialized`
creates another one in its place; the first is `overwritten`, but goes on with its updater. `Running` has
both. Signals of either reach the same slots of the mediator, which delete the current inverter (`ConnectionLost`). Without a current one
they use a null pointer (`Crash`): what a build makes of that is left open, it goes on as if
nothing were wrong or the program is started anew with what localsettings has.

**ModbusTcpClient and SunspecUpdater.** Three kinds of timers have the same interval of
5 s: the connect timer, the timer of each reply, and the updater's own one when it waits to
retry. Qt fires timers of one interval in the order in which they were started, so
`client.timers` is a queue and only its head may expire. This is not a detail: with timers
that may expire in any order the two assertions of the code (`modbus_tcp_client.cpp:97`,
`sunspec_updater.cpp:302`) can be violated; they hold because of the equal intervals.
`OnSocketError` folds `OnFailure` over the pending replies: each failure runs its slot, which
may send another request, and afterwards `mPendingReplies.clear()` forgets those while their
timers go on (`dropped`). The inverter answers anything: `Seen` lists what `onReadCompleted`
can make of a good reply. When the updater announces `connectionLost` or
`inverterModelChanged` its mediator deletes it (`gone`), and `Recreated` is the next detection.

**HostScan.** `scan` has the members of `HostScan` and `SolarApiDetector`, `probes` is `mClientToReply`
of the other two detectors: a SunSpec or SMA detection under way, by the inverter it is for or, when
`HostScan` started it, by the detector. `SetDone` is `setDone`: it removes the reply, then signals
`finished`, whose slot may start the next detector; `OnSocketError` shows why it has to look whether
the reply is still there. The walk of a SunSpec detection over the models of a device keeps
`currentRegister` modulo `Registers`, 2^16 in the code.

**SMAUpdater.** `mWriteCount` starts with any value, as the constructor does not set it.
`mStatus` is what `SMAInverter::setStatus` keeps and `statusCode` what D-Bus shows; they
differ where the code publishes past `setStatus`. `logins` and `modes` are history variables that
count the writes of one cycle. `statusCode` is `NotPublished` until the first status differs from
the one `mStatus` starts with. The limit starts as `powerLimitScale` of the device, is cut at `MaxPower`, and has no lower
bound: requests may be negative. Which registers are written is left out.

**QHttp and SolarApiUpdater.** `posted` is the queue of slots called through the event loop
(`QMetaObject::invokeMethod` with a queued connection, zero timers). `Start`, `SlotConnected`,
`SlotError`, `SlotClosed`, `ReadPart`/`ReadRest`/`ReadInvalid` (of `_q_slotReadyRead`) and `DoFinished` are
the slots of the class; the signal `done` is a field the updater handles in the same step. `rba` tells
which request the bytes kept answer, which is what `AnswersBelong` is about. `UpdateHttpClient`
replaces the client: the destructor of the old one aborts, which the updater handles as
the end of its request. `scheduled` counts the single shots on their way to `onStartRetrieval`.

**QRingBuffer.** The record `b` has the members of the class, its blocks as sequences of bytes. The rounds of
`free` over whole blocks are one definition, `FreeBlocks`: all blocks but the last that the number of bytes covers are removed
(`Drop`), and the last round takes from the first that is left (`FreeInBlock`). The rounds of `read` are a recursive
function of their number (`ReadBlocks`); a round takes a block or ends the reading, so there are no more of them than blocks, and
a round with nothing left to read changes nothing. `Parts` is what the blocks store, `Content` all of it, which is the refinement
mapping to `ByteQueue`.

**InverterSettings.** `stored` is localsettings, `value` the local copies, `toStore` and
`toProgram` the messages under way, `customName` the inverter with its name (`mInverter`). `ValueArrives` runs the slots of the monitor or of the mediator,
whichever is connected. The four items are requested in the order of the constructor; the last one stands for all that follow
`IsActive`. `Detected` looks at `IsActive` only, as `processNewInverter` does, so an inverter may be there before the
settings are; the one that replaces it uses the same D-Bus items. `Restart` starts the program anew; what it had written still arrives.

**DataProcessor.** Energies are exact rationals. `Redistributed` is the whole of
`process(ThreePhasesInverterData)` with `PhaseEnergy` the formula for a phase. The Solar API delivers
total and phases in two answers, of which the second may fail, SunSpec in one frame. `UpdateEnergySettings` is the
settings timer of `SolarApiUpdater`; nothing is saved for SunSpec. A counter that is 0 leaves what was saved before.

Every definition of the modules has its lines in the `map` of `PROJECT.json`. Definitions
commented "Seeded fault" are variants of the definition that follows, each with a mistake a
change of the code might introduce; they are used by no specification and serve to check that
the property named in `mutants` notices it.

## Runs

Passing:

| Run | Properties | What it shows |
|---|---|---|
| `gateway_requests` | `ActiveBound`, `SweepNotDropped`, `StallsOnlyUnconfigured`, `UsesSweep`; until the first request `NoDoubleProbe`, `IdleMeansDone`, `FullScanCovers` | with a request of any kind at any moment of any scan the bookkeeping stays consistent, no address of either network is lost, and a scan is left with nothing to go on only when nothing is configured. The last three are about the periodic scan by itself; with overlapping scans they do not hold, as two scans may probe one host |
| `gateway_liveness` | `ScanTerminates`, `Reprobed` | scans end, and every configured address is probed again and again, with one request at any time and up to two writes of the known addresses that overtake each other |
| `generator` | `HasNextExact`, `ProgressComplete`, `Sweeps` | the iterator implements `AddressSweep` for each listed set of interfaces, with restarts and interface changes at any moment; `hasNext` is exact, so `next` never reaches its assertion; progress is 100% exactly at the end |
| `hostscan` | `OverWhenIdle`, `EveryInverterAnnounced`, `Implements`, `DetectionEnds` | whatever a host answers, and in whatever order its connections fail, the detection is over exactly when nothing goes on, it has announced each inverter the Solar API reported, and it ends, once |
| `mediator` | `InverterFollowsDevice`, `SwitchedOffNotRunning`, `ActiveComesBack` | whatever the order of detections, settings, switches and losses, those of overwritten inverters included; and an inverter that stays on comes back |
| `settings` | `NamesAgree`, `EditsSettle`, `SettingsArrive` | edits at both ends, switches, losses and restarts leave one name; no echo goes on for ever; the settings arrive |
| `sunspec` | `NeverStuck`, `AnswerMatchesState`, `SilentIsGivenUp` | the polling loop survives every order of errors, answers, timeouts and power limit requests |
| `sma` | `StuckOnlyInError`, `WritesBounded`, `LimitOnlyInControl`, `StatusIsShown`, `SilentIsGivenUp` | the loop stops in state Error at most, while the connection stands; an inverter is not written to more than three times a cycle for login and for mode; the status on D-Bus is the one set last, once one was published |
| `solarapi` | `OnePoll`, `TimerCovers`, `AnswersBelong`, `PollingGoesOn` | over every order of answers, errors, closes, posted slots, timeouts and changes of the address |
| `ringbuffer` | `Implements` | any mix of calls leaves a queue of bytes |
| `energy` | `SavedWithinTotal`, `OnePhaseShown`, `SumFollowsTotal`, `CountersNeverFall` | the sharing out of energy over polls, missing values, failures, changes of phase, savings and restarts: no phase is ever saved with more than was produced, and all together are not as long as no answer left the counter out |

The modules of the components have a definition `TypeOK` (`EnergyTypeOK`, `SettingsTypeOK`), except `QRingBuffer`.
The runs leave it to the theorems, and `INVARIANT TypeOK` can be added to any configuration.

The run that violates what a document says, `gateway_startup_sweep`, and the other properties that do not hold, are in
[Where code and words differ](#where-code-and-words-differ).

Some properties have exceptions, which are no more than what these disagreements leave:

- With nothing to ask a scan does *not* end; that is the first of the disagreements. `StallsOnlyUnconfigured` says that
  nothing else stalls one. `ScanTerminates` excepts it (`Stalled` or `Configured = {}`) and so does `Reprobed`: an address that
  comes back from localsettings when the scan has stalled already is not asked.
- `NoDoubleProbe` excepts a host of two networks, which the sweeps of both probe, possibly at once. A
  host that is also a priority address is probed once.
- `SwitchedOffNotRunning` excepts an overwritten inverter, which nothing deletes; `InverterFollowsDevice` is about the
  current one, and about host, port and protocol, as the unit does not follow. `ActiveComesBack` excepts a program that crashes again and again.
- `StatusIsShown` excepts STANDBY without a grid code, which is published past `setStatus`.
- In `SavedWithinTotal` the bound of a phase has no exception; that of the sum ends with the first answer that leaves the counter out.

`FullScanCovers` is
about full scans by fall back: those requested over D-Bus do not have the property.
`DetectionEnds` has an exception, too: models whose sizes lead the walk past register 65535
may keep it going round for as long as the device answers. `StuckOnlyInError` and the last
disjunct of SMA's `SilentIsGivenUp` say what state Error is: a reply of the wrong size stops the loop
until the connection breaks.

## Bounds

| Run | Bound | Why it is enough |
|---|---|---|
| gateway | 3 addresses, two networks with one and two of them | priority only, sweep only and both; a host of both networks; a host known from settings or a datagram that is in none. The third address is left out in the runs other than `gateway_requests` |
| gateway | limit of 2 hosts (1 in `gateway_liveness`) | the limit is below the number of addresses, so the generator is left with work and drained by finishing hosts; with 2, one host ends while another is busy |
| gateway | 1 detector per host, 2 in `gateway_liveness` | the second one shows the hand-over from one detector to the next; more repeat it |
| gateway | `MaxRequests` = 1 | overlap of two scans needs one request; any number of periodic scans, datagrams and detections goes on before and after. 4294932 states in `gateway_requests`, 192763 in `gateway_liveness` |
| gateway | `MaxWrites` = 1 in `gateway_requests`, 2 in `gateway_liveness` | with one write under way the shown list is stale; with two, the second overtakes the first. Beyond the bound no device unknown to the settings is found |
| generator | addresses of 5 bits, limit 8, seven interface lists, five priority lists | networks at, below and beyond the limit, /31, link-local, the host at either end, up to three interfaces, two of them in one network, priority addresses inside, outside and equal to the host's own. 1596 states |
| hostscan | three inverters, model sizes 0 and 2, 8 register addresses | one detection ends while two others go on, or one while one; walks that end, go on and wrap. A detection has one request at a time (`MaxOutstanding` = 1), which TLC confirms: with more requests `FreshId` would have no value. 51610 states |
| mediator | two identities, seven devices | a move between hosts, an exchange of hosts, another unit, another protocol, several phases, storage; one displaces the other in either order. 41064 states |
| settings | two names and none, three phases, `MaxEdits` = 3 | two edits that cross, and a restart or a third edit between; every state of localsettings to begin with, items missing included. 317978 states |
| sunspec | two limits, `MaxOutstanding` = 3 | identifiers of requests not finished are reused; three at a time are never exceeded, which TLC confirms |
| sma | limits -1 and 2, `MaxPower` = 1, `PowerLimitScale` = 2, `MaxOutstanding` = 3 | the limit that is cut, the negative one that is not, and a first one that is out of range; 44680 states |
| solarapi | none | the module has no constants and its queues stay short by themselves: TLC's 13153 states are all there are |
| ringbuffer | two bytes, blocks of 4, writes of 1, 3 and 4, at most 6 bytes in 3 blocks | writes that fit a block, fill it, and do not fit; a block reused, resized, shortened; a read across blocks |
| energy | totals up to 3, four answers, four weightings | no current at all, one phase, even and uneven load; first answer, growth, standstill and loss of the counter in every order, with savings and restarts between. 57040 states |

`MaxRequests`, `MaxWrites`, `MaxOutstanding`, `MaxEdits`, `MaxPolls`, `MaxTotal`, `MaxSize` and `MaxBlocks` are the
bounds that are not sets of inputs. The theorems below hold for all values of the constants that
the assumptions allow.

`MaxOutstanding` bounds no behaviour. It is the number of identifiers given out, and a request needs a free
one. The updaters need three (`RepliesAssumption`): after a connection was lost a reply that was
dropped, one that was sent in its slot and the timer of the updater can be waited for at once. That these
are never exceeded is part of the theorems `TypeCorrect`; that a detection needs one only is checked
by TLC.

## Fairness

- Gateway: the two timers expire, a host's detectors come to an end (`DetectionEnds` of
  `HostScan`), and localsettings announces what was written. Users, mediators, datagrams and found devices are not fair.
- Host scan: the Solar API answers each request, possibly with an error, within its time limit
  (`PollingGoesOn` of `SolarApiUpdater` is the same for the polls), and the timers of clients and
  replies expire. Nothing is assumed of the device's Modbus side.
- Mediator: D-Bus answers requests for items; a device that is there is found again and
  again, which is what `Reprobed` says of the gateway; and localsettings does not refuse for
  ever. Crashes are not excluded: `ActiveComesBack` names them.
- Settings: messages on D-Bus are delivered and served. Users do nothing of necessity.
- SunSpec and SMA: timers expire. Nothing is assumed of the inverter: it need never answer,
  connect or refuse.
- Solar API: the event loop calls what is posted (weak fairness), and the two timers expire: strong
  fairness, since a timer is modelled to wait while something is posted, which is so again and
  again. Nothing is assumed of the server.

## Proofs

For all values of the constants, under the named `ASSUME`s of the modules:

| Module | Theorem | Property |
|---|---|---|
| `InverterGatewayProofs` | `TypeCorrect`, `AutoDetectMirrors` | `TypeOK`, `AutoDetectMirrorsFull` |
| | `Bounded` | `ActiveBound` |
| | `StallsUnconfigured` | `StallsOnlyUnconfigured` |
| | `NoAddressLost` | `SweepNotDropped` |
| | `ImplementsSweep` | `UsesSweep`, the refinement of `AddressSweep` |
| | `ProbesOnce`, `IdleIsDone`, `FullScanIsFull` | `NoDoubleProbe`, `IdleMeansDone`, `FullScanCovers` |
| `HostScanProofs` | `IdleIsOver` | `OverWhenIdle` |
| | `AllAnnounced` | `EveryInverterAnnounced` |
| | `DetectionContract` | `Implements`, the refinement of `HostDetection` |
| `InverterProofs` | `TypeCorrect`, `RunningIsOwned` | `TypeOK`, `Owned` of `InverterMediator` |
| | `FollowsDevice` | `InverterFollowsDevice` |
| | `SwitchedOff` | `SwitchedOffNotRunning` |
| | `SettingsTypeCorrect` | `SettingsTypeOK` |
| | `CopiesAlwaysFollow` | `CopiesFollow` |
| | `NamesAlwaysAgree` | `NamesAgree` |
| | `EnergyTypeCorrect` | `EnergyTypeOK` |
| | `OnePhaseAtATime` | `OnePhaseShown` |
| | `SavedFits` | `SavedWithinTotal` |
| | `SumDoesNotDrift` | `SumFollowsTotal` |
| | `CountersOnlyGrow` | `CountersNeverFall` |
| `LocalIpAddressGeneratorProofs` | `TypeCorrect` | `TypeOK` |
| | `HasNextIsExact` | `HasNextExact` |
| | `ProgressIsComplete` | `ProgressComplete` |
| | `ImplementsSweep` | `Sweeps`, the refinement of `AddressSweep` |
| `SunspecUpdaterProofs` | `TypeCorrect` | `TypeOK` |
| | `PollingNeverStuck` | `NeverStuck` |
| | `AnswersMatch` | `AnswerMatchesState` |
| `SMAUpdaterProofs` | `TypeCorrect` | `TypeOK` |
| | `PollingStopsInErrorOnly` | `StuckOnlyInError` |
| | `WritesAreBounded` | `WritesBounded` |
| | `LimitsInControl` | `LimitOnlyInControl` |
| | `StatusShown` | `StatusIsShown` |
| `HttpProofs` | `TypeCorrect` | `TypeOK` |
| | `PollsOnce` | `OnePoll` |
| | `LimitCovers` | `TimerCovers` |
| | `AnswersMatchRequests` | `AnswersBelong` |
| | `RingAlways` | `Ring(b)`, the inductive invariant of the buffer |
| | `BytesInOrder` | `Implements`, the refinement of `ByteQueue` |

Each inductive invariant was checked by TLC on the instance of its run before it was proved.

**Gateway.** *From which assumptions:* networks and addresses are finitely many, the sweep is of pairs of both,
no network is named like the list of priority addresses, there are at least one detector and one place for a host.

*The first invariant*, `IInv`: types, and `HostsOK(mActiveHosts)`: finitely many, not more than the limit.
Types alone are not inductive. A new `HostScan` gets a number no busy one of its host and list has
(`FreeNr`), and that there is one in `1..MaxSimultaneousRequests` is a pigeonhole argument that needs
the bound (`FreeNrExists`); the bound in turn needs types and finiteness for the arithmetic on
cardinalities (`ScanHostsFit`, `ReplaceKeeps`). `ContinueScanKeeps` and `ScanKeeps` carry the invariant
through the two slots everything else calls; `NextInv` has one step per action.

`StallsUnconfigured` rests on `NothingToAsk`: `continueScan` leaves no host busy only if the list of addresses and, in a
full scan, the sweep are empty. An end of a host that stalls the scan cannot be: with no host left it starts another
scan, or ends this one. That a fall back has something to ask is why it is not a case of its own: it needs a known address that is missing.

*The second invariant*, `QInv`: as long as there was no request, every scan begins with no host busy
and an empty generator (`Waiting`), and then what is busy and what waits (`Entries`) are different entries: each is
taken once, and a host that is a priority address is not one of a network, too (`OnceEach`, `Distinct`).
`FreshScanDistinct` is the step from one to the other. That the host of two networks is left to their two sweeps is why
`NoDoubleProbe` speaks of where a host came from.

**Host scan.** From the assumption that no inverter is named like a detector. The invariant names the
phases a detection goes through: the Solar API is asked (`Asking`), SunSpec is tried for each
of its inverters (`Probing`), one of the other detectors is at work (`Trying`), all is done (`Over`). In
each of them it says which probes there are, which detectors are left and what has been announced. Of a probe
it keeps only its fields and that its state is one the handlers know; its Modbus client may be anything,
so the theorems hold for every client. Every slot either just goes on asking (`Quiet`) or
ends its probe (`ProbeDone`, with `InverterDone`, `DetectorFails`, `DetectorFinds` for the phases), and
ending it twice is the same as once (`EndedFine`), which is what a broken connection does.
`NextFine` shows along with the invariant that each step is one of `HostDetection` (`Steps`).

**Mediators.** From the assumption that detection reports devices. `InverterFollowsDevice` is not
inductive: a device met for the first time sets `mDeviceInfo` without touching `mInverter`, which is
safe since only an inverter with a mediator runs, overwritten ones included (`Owned`). Host, port and protocol are kept together
as `Follows`; the protocol is not assigned, it is compared with the last description, which is why it needs the invariant.
`SwitchedOff` comes down to the current inverter, for which every slot that creates one has to look at the switch (`Off`).

**Settings.** From the assumption that no name is the marker of a missing item. Two processes that
answer each other agree in the end only, so the invariant is about what is under way. For each item, `CopiesFollow`:
what localsettings holds is what the last message to the program says; if there is none, it is what the local
copy holds, or the program has heard nothing and its question is still to be answered. For the name besides,
`RenameUnderWay`: if the inverter is named otherwise than the copy, the difference is on its
way, as a request to localsettings or as an announcement back. With nothing under way both say the name is
the same at all three places, which is `NamesAgree`. What a batch of edits writes is a sequence built by a
recursive function (`Written`), of which the proofs need only that it is a sequence of requests, by induction
on its length.

**Energy.** From the assumptions that the bounds are naturals and that no weight (voltage times
current) is negative. Energies are rationals; two of them are compared by their numerators over a
common denominator (`Value`), so that the provers see products of integers. That reducing a fraction keeps
its value is a property of `Gcd`, Euclid's algorithm as a recursive function, shown by the least
counterexample; so is that weights of 0 lead to no division by zero. The invariant beside the types is `WithinTotal`:
as long as every answer held the counter, no phase is saved with more than it has, and all phases together
have no more than the inverter had produced by the last answer, nor than the total the next answer is compared
with. Without the last part sharing out could take from a phase, and `CountersNeverFall` would
fail; without the first a restart would. When an answer has left the counter out these no longer hold, but `PhasesWithin`
does: no phase, shown or saved, exceeds what was produced, since a share is at most the total it is taken from
(`RedistributedFits`). Both make `SavedWithinTotal`.

**Generator.** *From which assumptions:* addresses are finitely many numbers; interfaces have an address and a
size; the hosts of their networks are addresses (`NetworkAssumption`); and a list of priority
addresses holds none twice (`PriorityAssumption`). The last is what `continueScan` takes care of by its test
`contains`, on lists from settings and the UDP detector, which keeps a set. With a repeated address the
iterator would hand it out twice. *The invariant* says of each subnet that its cursor is past the network address
and, unless it is past the end, at an address to be handed out: neither this host's own nor a
priority address. This is why `hasNext`, which compares positions only, is exact, and why `next` may return
the cursor before it looks for the next address. The loop of `Subnet::next` is a least
element of a set of numbers (`MinSound`, by well-foundedness). `TodoOf` is what the state leaves to come, and
`Reset`, `NextHost` and a change of interfaces each change it as `AddressSweep` says.

`ProgressIsComplete` needs more (`Counted`): no cursor is further than one past the end, the subnets before
`mSubnetIndex` are done, and a list with priority addresses only has no subnets. Then nothing is left to come exactly
if each position equals its size, and since none exceeds it, exactly if the sums are equal; two sums over the
subnets are compared by induction on their number. The theorem has the hypothesis `WideNetworks`, that no network is a single
address: with a /32 the property is false (see below).

**Polling over Modbus.** *From which assumption:* there are at least three identifiers. *The client*
has lemmas of its own: whatever is called, each timer is in the queue once, each reply that has not finished
has one, with an identifier of its own, and only such a request can be answered (`Queue`).
*The invariant* of both updaters, `Loop`, tells for each state of the socket what is under way:

- `Online`: one timer at most. It belongs to the question of the current state, or the updater waits for its
  own. So a broken connection fails at most one reply, and the fold over pending replies has at most one
  step, which is what makes it provable without induction.
- `Dialling`: exactly one timer, of the attempt to connect.
- `Offline`: up to three timers, of replies that can only expire, and the updater's own as the last one. Since
  it is the last, no reply is left when the updater connects again. That is the argument from equal intervals:
  with another order of timers the invariant fails, and so do the assertions of the code.

For SMA there is besides `Cycle`, what the members are in each state of the cycle: the write count is that
of logins first and of modes then; a limit is written only when logged in and in Watt mode;
a fault keeps the cycle in its first states with the status of an error set; what D-Bus shows of the status set (`Shown`) is that
status, nothing as long as none was published, or STANDBY without a grid code. `Loop` and `Cycle` need each other:
that the answer belongs to the current state follows from the first, what state comes next from the second.
`mWriteCount` may start with any value, as in the code.

**Solar API.** `OnePoll` and `TimerCovers` are inductive together with the type; between the end of a request and
what follows it neither holds (`Between`), and each handler leads from there to exactly one of a
request and a scheduled retrieval. For these two the HTTP client is left open: they hold for any
record in its place.

`AnswersBelong` is about the client. Its invariant, `Served`, lists the shapes which list of requests, posted
slots, state and connection form for the updater's request type (`Serves`): the get is under way
(`Started`), is to be started (`Unstarted`), waits behind a close (`Closes`), or there is nothing to do
(`Idle`). The point is in `Unstarted` and `Started`: no slot that would finish a request is posted in front of the one
that starts the get, and while it is under way what was read answers it. `News` adds what
the client may have to tell, and each slot of socket and event loop has a lemma that it leads from
no news to news of the right kind; `DoneServes` is what the updater makes of them.

**Ring buffer.** From the assumptions that blocks have a size, that what arrives is not empty and that the byte which stands for memory
nobody wrote is none of those that are stored. No bound on blocks, bytes or calls is assumed.
`Content` says what the queue holds, and nothing of how: that the next call is a step of
the queue needs the invariant `Ring`. `Shape` is about positions: there are `tailBuffer + 1` blocks, `head` is in the first and
at most where its bytes end, `tail` is in the last. `Stores` is about what they delimit: each part is of written
bytes only, `bufferSize` is the number of them, at most one part is empty, and a single block that is empty begins at 0.
The last two are what a reader of the class would not expect to need. A part can be empty: `ungetChar` on an empty buffer puts
a block before one without bytes, which a `reserve` that finds no room in it leaves between others. If there were two of them, nothing could
be stored in more than one block; but `reserve` takes an empty buffer to be one block that is filled from 0 on, without a look
at `tailBuffer` and `head`. That it is (`EmptyRing`) needs both.
`Added` is what `reserve` does in each of its cases, a longer last part or one more;
`FreeKeeps`, `ReadBlocksKeeps`, `ReadBlockKeeps` and `UngetKeeps` say which bytes the other operations take or put back, and `StepKeeps` has
one case per call. `FlattenSeq` is a recursive function in the community modules; what concatenation needs of it
(`FlattenConcat`, `FlattenHead`, ...), and that the rounds of `read` exist for any number (`RoundsExist`), is proved by the least counterexample.

*Only model-checked:*

- liveness (`ScanTerminates`, `Reprobed`, `DetectionEnds`, `ActiveComesBack`, `EditsSettle`,
  `SettingsArrive`, both `SilentIsGivenUp`, `PollingGoesOn`): it rests on fairness and ENABLED,
  which the prover does not handle.

## Where code and words differ

With a run whose counterexample shows it:

| Run | Property | What happens |
|---|---|---|
| `gateway_startup_sweep` | `StartupSweep` | Without manual, known or UDP addresses `scan(TryPriority)` starts no host. As only the end of a host resets `mScanType`, the scan never ends, `onTimer` returns at once for ever, and no full scan is made. (dot):18 and `inverter_gateway.h:21` promise one at start-up |

`StallsOnlyUnconfigured` shows that this is the only way in which a scan gets stuck.

Without a run of their own. Each of these definitions is violated; adding it to the configuration
named gives the counterexample.

| Definition | Configuration | What happens |
|---|---|---|
| `FoundIsRemembered` | INVARIANT in `gateway_requests`, with `MaxWrites = 2` | Of two devices found before localsettings has announced the first write, the second write is made from the old list (`inverter_gateway.cpp:131-134`). The address of the first device is lost until it answers in a later scan; (dot):11 says that any IPs found are stored as known |
| `AutoDetectCovers` | PROPERTY in `gateway_requests` | A full scan is requested while the last host of another scan is in flight. Its end finds no active host and declares the full scan complete before its UDP timer has expired; the timer then makes a priority scan |
| `MissingManualSwept` | PROPERTY in `gateway_requests` | A manual address that does not answer causes no full scan, only a known one does; (dot):9 and :21 say "manual/known" |
| `ProgressInRange` | INVARIANT in `generator` in place of the others, with `InterfaceLists <- PointToPoint` | With a /32 interface the subnet has size 0 but position 1, and progress exceeds 100 (`ProgressComplete` fails there, too) |
| `NoInverterOverwritten` | INVARIANT in `mediator` | A device found again between `IsActive` and the other settings gets an inverter, since `inverter_mediator.cpp:64` looks at `IsActive` only. `onSettingsInitialized` creates another one in its place, against `Q_ASSERT(mInverter == 0)` at :100. Both poll the device, and nothing deletes the first one, not even switching the inverter off |
| `InverterFollowsUnit` | INVARIANT in `mediator` | A device found again under another unit identifier (`networkId`) keeps being asked under the old one: only host name and port are compared and set (`inverter_mediator.cpp:56-59`), while `inverter_mediator.h:24` says "the necessary adjustments to the data retrieval" are made |
| `DisplacedIsGivenUp` | PROPERTY in `mediator` | The loop over the mediators ends at the owner of the device, so a younger mediator with an inverter at the same address is not told |
| `MultiPhaseIsStored` | INVARIANT in `settings` | The migration at `inverter_mediator.cpp:88` is for an inverter that is active when its settings arrive; one that is switched on later is not migrated |
| `LimitNotForgotten` | INVARIANT in `sunspec` | A power limit requested while another one is being written is never written, as the end of the write clears the flag |
| `FaultIsShown` | INVARIANT in `sma` | Without a grid code STANDBY is published past `setStatus` (`sma_updater.cpp:252`), which still holds ERROR; the next fault finds ERROR set already and publishes nothing, against "only update velib when need to" (`sma_inverter.cpp:63`) |
| `ReportOnlyMeansNoLogin` | PROPERTY in `sma` | `sma_updater.cpp:288` takes a failed login for the reason to go on in report-only mode; the branch is also taken when the last attempt that `mWriteCount` allows has succeeded: the inverter is logged in, and its mode and limit are not set in that cycle |
| `NoRequestStalls` | INVARIANT in `solarapi` | A close that finds the connection closed already finishes nothing; the requests queued behind it wait for the time limit, so the poll is an error |
| `SavedSumWithinTotal` | INVARIANT in `energy` | After an answer without the counter all of the next one is shared out anew; a phase that gets 0 keeps the older value in the settings (`data_processor.cpp:143`), and all phases together are saved with more than was produced |
| `SplitPhaseInKWh` | INVARIANT in `energy` | `sunspec_updater.cpp:241` shares out a counter in Wh as if in kWh for a split phase |

Met while modelling, without a definition:

- A scan requested while hosts are in flight and waiting for UDP answers starts with no
  devices found; when the last of those hosts is done all known devices count as missing
  and the one automatic full scan is spent (`inverter_gateway.cpp:160-167`).
- `sma_updater.cpp:222` sets the error code and :227 clears it, so a fault is shown with error 0.
- `inverter.cpp:243` tests one condition twice, so an inverter of type sunspec-i is named after the Solar API.
- `mError` (`sma_inverter.h:97`) and `mWriteCount` of `SMAUpdater` are not initialized. The model lets
  `mWriteCount` be anything; TLC shows that writes stay bounded all the same.
- A limit requested from an SMA inverter is bounded above only (`sma_updater.cpp:552`); a negative one is converted to an unsigned
  number when it is written.
- A SunSpec limit above 6.55 times the maximum power wraps in the 16 bits written
  (`sunspec_updater.cpp:66`, :327).
- `setHostName` aborts the request under way, which counts as an error; if it is one too many the
  inverter is deleted under the hands of the mediator, before `setPort` (`inverter_mediator.cpp:58`).
- An inverter whose phase data always fail is never given up, since each answer with the common data
  resets the retry count (`solar_api_updater.cpp`).
- A name changed to another and back while the echo of the first is under way is not written again
  (`inverter_settings.cpp`); the edits of the model are to names other than the one held.
- Identifiers of inverters that differ in punctuation only become one (`fixUniqueId`).
- The comment at `data_processor.cpp:41-45` about NaN is about an earlier form of the code; a counter that
  an answer leaves out is read as 0.
- `sunspec_detector.cpp:185` disconnects signals in the wrong direction, without consequences, as
  the client is deleted.
- `QRingBuffer::chop` and `readPointerAtPosition` do not agree with the other members about the first block;
  nothing calls them.

## Abstractions

- *Settings of the gateway.* Only the known addresses are written by the gateway itself, and have their delay. Manual addresses
  and /AutoScan are written by others: they change when the gateway hears of it.
- *Overwritten inverters.* A mediator has one at most, as its settings arrive once per start. What two inverters do to
  the D-Bus items they share is left out, in `InverterMediator` and `InverterSettings`, since velib has them.
- *Before start-up.* Requests begin after `startDetection`. /AutoDetect can be set earlier, when
  there are no detectors and `HostScan::scan` finishes within `scanHost`.
- *Generator in the gateway.* The networks are constant, and a sweep may take from any of them next. (`LocalIpAddressGenerator`
  has their order, and changes of the interfaces.) The content the constructor
  fills in is left out, as no address is taken before `continueScan` restarts the generator.
- *deleteLater* is delete, since the event loop runs it before the next event. Two inverters
  under one D-Bus root during that time are not modelled (`ve_service.cpp:17`).
- *Frames.* The byte stream is abstracted to answers; a partial frame left in `mBuffer` by a broken
  connection, and transaction identifiers that come round after 65536 requests, are left out.
- *HTTP.* Only `get` and `close`, which is all that is called: no uploads, proxies, TLS. An answer is a part, a rest
  or nonsense; chunks are parts. Of authentication only the method and phase that decide whether the request is sent
  again, not the digests.
- *Detections.* The Solar API of `HostScan` answers each query once; that it does is what `SolarApiUpdater` is about.
- *Time.* Intervals matter only where they are equal (see above). The 1 s idle timer may fire at
  any time relative to the 5 s ones, and the timers of the Solar API wait for the event loop.
- *Sockets.* A connected socket that is told to disconnect does so at once; one that is
  connecting does when it is connected.
- *Values.* Measurements, positions and formatted addresses are left out, energies are exact rationals rather than doubles.
- *Localsettings* and velib are external; a setting that cannot be added is missing, and an item that is not there
  is Offline.

## Not modelled

- Device tables (`fronius_device_info.cpp`) and register conversions (`sunspec_tools.cpp`): constants and
  pure functions.
- `ModbusRtuClient` and `CRC16`: `dbus-fronius.pro` does not build them.
- The JSON parser: vendored, a function from text to a value.
- velib: a git submodule that is not in the repository, so publishing and deferred deletion of D-Bus items have
  no source to be faithful to. The remaining setters of `Inverter`, `PowerInfo` and `PvInfo` publish a value each.
- The list of device instances and the formatting of addresses in `Settings`.
- `main`: command line, logging, start of the event loop.

## Plan

What could follow, in this order:

1. The composition of gateway, `HostDetection` and mediators in one module: a lost inverter is detected again, from
   the connection that broke to the one that is made.
2. Requests before start-up, with detectors that do not exist yet.
3. The byte stream of `ModbusTcpClient`: `mBuffer` over reconnections, identifiers of 16 bits.
4. Proofs: the assertions of
   `ModbusTcpClient` as theorems of its users, from `Loop`.
