----------------------- MODULE InverterGatewayProofs -----------------------
(***************************************************************************)
(* Theorems about InverterGateway, for any set of addresses, any local     *)
(* networks, any number of detectors and any limit on simultaneous hosts.  *)
(*                                                                         *)
(* The inductive invariant IInv joins the types with ActiveBound: that     *)
(* a new HostScan can be told from the busy ones of its host (its nr is in *)
(* range) follows from there being less of those than the limit.           *)
(***************************************************************************)
EXTENDS InverterGateway, TLAPS, FiniteSetTheorems, SequenceTheorems

\* A set of busy hosts the gateway may have.
HostsOK(busy) ==
    /\ busy \subseteq HostScan
    /\ IsFiniteSet(busy)
    /\ Cardinality(busy) <= MaxSimultaneousRequests

Settings == [ipAddresses : SUBSET Addr, knownIpAddresses : SUBSET Addr,
             autoScan : BOOLEAN]

Generator == [priority : SUBSET Addr, sweep : SUBSET (Network \X Addr)]
Detector  == [timeout : BOOLEAN, devicesFound : SUBSET Addr]

\* The hosts and the generator, which continueScan and onDetectionDone change.
HostVarsOK ==
    /\ HostsOK(mActiveHosts)
    /\ mAddressGenerator \in Generator
    /\ probed \subseteq Addr

\* What scan sets besides.
ScanVarsOK ==
    /\ mScanType \in ScanType
    /\ mDevicesFound \subseteq Addr
    /\ mAutoDetect \in BOOLEAN
    /\ mTriedFull \in BOOLEAN
    /\ mUdpDetector \in Detector
    /\ settings \in Settings
    /\ knownWrites \in Seq(SUBSET Addr)

IInv ==
    /\ HostVarsOK
    /\ ScanVarsOK
    /\ mTimer \in BOOLEAN
    /\ requests \in 0..MaxRequests

----------------------------------------------------------------------------
(* Starting hosts.                                                         *)

\* Below the limit a new HostScan differs from the busy ones of its entry, and
\* has a number in range: the busy ones cannot use up all numbers.
LEMMA FreeNrExists ==
    ASSUME NEW e, NEW busy, IsFiniteSet(busy),
           Cardinality(busy) < MaxSimultaneousRequests
    PROVE  /\ FreeNr(e, busy) \in 1..MaxSimultaneousRequests
           /\ \A s \in busy : s.from = e[1] /\ s.host = e[2] => s.nr # FreeNr(e, busy)
<1> DEFINE N == 1..MaxSimultaneousRequests
           Free(n) == \A s \in busy : s.from = e[1] /\ s.host = e[2] => s.nr # n
<1>1. \E n \in N : Free(n)
  <2>1. SUFFICES ASSUME \A n \in N : ~Free(n) PROVE FALSE
    OBVIOUS
  <2> DEFINE f == [n \in N |-> CHOOSE s \in busy :
                                  s.from = e[1] /\ s.host = e[2] /\ s.nr = n]
  <2>2. \A n \in N : f[n] \in busy /\ f[n].nr = n
    BY <2>1
  <2>3. f \in Injection(N, busy)
    <3>1. f \in [N -> busy]
      BY <2>2
    <3> HIDE DEF N, f
    <3> QED BY <2>2, <3>1 DEF Injection, IsInjective
  <2>4. Cardinality(N) <= Cardinality(busy)
    <3> HIDE DEF N, f
    <3> QED BY <2>3, FS_Injection
  <2>5. Cardinality(N) = MaxSimultaneousRequests
    BY FS_Interval, LimitAssumption
  <2>6. Cardinality(busy) \in Nat
    BY FS_CardinalityType
  <2> QED BY <2>4, <2>5, <2>6, LimitAssumption
<1> QED BY <1>1 DEF FreeNr

\* There are finitely many entries, and what waits in a generator is of them.
LEMMA EntriesFinite ==
    /\ IsFiniteSet(Entry)
    /\ \A gen \in Generator : Pending(gen) \subseteq Entry
    /\ \A B \in SUBSET Entry : Hosts(B) \subseteq Addr
    /\ \A gen \in Generator : \A B : Without(gen, B) \in Generator
<1>1. IsFiniteSet(Network \cup {"priority"})
  BY NetworkAssumption, FS_AddElement
<1>2. IsFiniteSet(Entry)
  BY <1>1, AddrAssumption, FS_Product DEF Entry
<1>3. \A gen \in Generator : Pending(gen) \subseteq Entry
  BY DEF Generator, Pending, Priority, Entry
<1>4. \A B \in SUBSET Entry : Hosts(B) \subseteq Addr
  BY DEF Hosts, Entry
<1>5. \A gen \in Generator : \A B : Without(gen, B) \in Generator
  BY DEF Without, Generator
<1> QED BY <1>2, <1>3, <1>4, <1>5

\* Hosts that fit below the limit can be started on top of the busy ones.
LEMMA ScanHostsFit ==
    ASSUME NEW B \in SUBSET Entry, NEW busy, HostsOK(busy),
           Cardinality(busy) + Cardinality(B) <= MaxSimultaneousRequests
    PROVE  HostsOK(ScanHosts(B, busy))
<1> DEFINE new == {NewScan(e, busy) : e \in B}
           f   == [e \in B |-> NewScan(e, busy)]
<1>1. IsFiniteSet(B) /\ Cardinality(B) \in Nat /\ Cardinality(busy) \in Nat
  BY EntriesFinite, FS_Subset, FS_CardinalityType DEF HostsOK
<1>2. IsFiniteSet(new) /\ Cardinality(new) <= Cardinality(B)
  <2>1. f \in Surjection(B, new)
    BY DEF Surjection
  <2> HIDE DEF new, f
  <2> QED BY <2>1, <1>1, FS_Surjection
<1>3. ASSUME NEW e \in B PROVE NewScan(e, busy) \in HostScan
  <2>1. Cardinality(B) # 0
    BY <1>1, <1>3, FS_EmptySet
  <2>2. FreeNr(e, busy) \in 1..MaxSimultaneousRequests
    BY <1>1, <2>1, FreeNrExists, LimitAssumption DEF HostsOK
  <2>3. e[1] \in Network \cup {"priority"} /\ e[2] \in Addr
    BY DEF Entry
  <2>4. Detectors - 1 \in 0..Detectors-1
    BY DetectorAssumption
  <2> QED BY <2>2, <2>3, <2>4 DEF NewScan, HostScan
<1>4. /\ IsFiniteSet(busy \cup new)
      /\ Cardinality(busy \cup new) <= Cardinality(busy) + Cardinality(new)
  <2> HIDE DEF new
  <2>1. IsFiniteSet(busy \cap new) /\ Cardinality(busy \cap new) \in Nat
    BY <1>2, FS_Subset, FS_CardinalityType
  <2>2. Cardinality(new) \in Nat
    BY <1>2, FS_CardinalityType
  <2>3. /\ IsFiniteSet(busy \cup new)
        /\ Cardinality(busy \cup new) =
              Cardinality(busy) + Cardinality(new) - Cardinality(busy \cap new)
    <3>1. IsFiniteSet(busy)
      BY DEF HostsOK
    <3> QED BY <1>2, <3>1, FS_Union, Zenon
  <2> QED BY <1>1, <2>1, <2>2, <2>3
<1>5. Cardinality(new) \in Nat /\ Cardinality(busy \cup new) \in Nat
  BY <1>2, <1>4, FS_CardinalityType
<1>6. busy \cup new \subseteq HostScan
  BY <1>3 DEF HostsOK
<1>7. Cardinality(busy \cup new) <= MaxSimultaneousRequests
  <2> HIDE DEF new
  <2> QED BY <1>1, <1>2, <1>4, <1>5, LimitAssumption
<1> QED BY <1>4, <1>6, <1>7 DEF HostsOK, ScanHosts

----------------------------------------------------------------------------
(* Type correctness and the bound on simultaneous hosts.                   *)

\* continueScan keeps within the bound, whatever is busy when it is called.
LEMMA ContinueScanKeeps ==
    ASSUME NEW type, NEW found \in SUBSET Addr, NEW s \in Settings,
           NEW busy, HostsOK(busy),
           mAddressGenerator \in Generator, probed \subseteq Addr,
           ContinueScan(type, found, s, busy)
    PROVE  HostVarsOK'
<1> DEFINE addresses == found \cup Known(s.ipAddresses, s.knownIpAddresses)
           gen == Restarted(addresses, type)
<1>1. addresses \in SUBSET Addr
  BY DEF Known, Settings
<1>2. gen \in Generator
  <2>1. {p \in Lan : p[2] \notin addresses} \subseteq Network \X Addr
    BY LanAssumption
  <2> HIDE DEF addresses
  <2> QED BY <1>1, <2>1 DEF Restarted, Generator
<1>3. CASE type = "Priority" /\ addresses = {}
  BY <1>3 DEF ContinueScan, HostVarsOK, Generator
<1>4. CASE ~(type = "Priority" /\ addresses = {})
  <2>1. PICK B \in Batches(gen, busy) :
           /\ mActiveHosts' = ScanHosts(B, busy)
           /\ mAddressGenerator' = Without(gen, B)
           /\ probed' = Hosts(B)
    BY <1>4 DEF ContinueScan
  <2>2. /\ B \in SUBSET Entry
        /\ Cardinality(busy) + Cardinality(B) <= MaxSimultaneousRequests
    <3> HIDE DEF gen
    <3>1. Pending(gen) \subseteq Entry
      BY <1>2, EntriesFinite
    <3> QED BY <3>1 DEF Batches
  <2>3. HostsOK(ScanHosts(B, busy))
    BY <2>2, ScanHostsFit
  <2>4. Without(gen, B) \in Generator /\ Hosts(B) \subseteq Addr
    <3> HIDE DEF gen
    <3> QED BY <1>2, <2>2, EntriesFinite
  <2>5. HostsOK(mActiveHosts)'
    BY <2>1, <2>3 DEF HostsOK
  <2> HIDE DEF gen
  <2> QED BY <2>1, <2>4, <2>5 DEF HostVarsOK
<1> QED BY <1>3, <1>4

\* scan keeps the invariant, for every type and all settings.
LEMMA ScanKeeps ==
    ASSUME IInv, NEW type \in ScanType, NEW s \in Settings, Scan(type, s)
    PROVE  HostVarsOK' /\ ScanVarsOK'
<1> USE DEF ScanVarsOK
<1>1. HostVarsOK'
  <2>1. CASE type = "Full" \/ (type = "TryPriority" /\ s.autoScan)
    BY <2>1 DEF Scan, IInv, HostVarsOK, hostVars, HostsOK
  <2>2. CASE ~(type = "Full" \/ (type = "TryPriority" /\ s.autoScan))
    <3>1. ContinueScan(type, {}, s, mActiveHosts)
      BY <2>2 DEF Scan
    <3> QED BY <3>1, ContinueScanKeeps DEF IInv, HostVarsOK
  <2> QED BY <2>1, <2>2
<1>2. mUdpDetector' \in Detector
  <2>1. mUdpDetector \in Detector
    BY DEF IInv
  <2>2. \/ mUdpDetector' = [timeout |-> TRUE, devicesFound |-> {}]
        \/ mUdpDetector' = [mUdpDetector EXCEPT !.devicesFound = {}]
    BY DEF Scan
  <2>3. CASE mUdpDetector' = [timeout |-> TRUE, devicesFound |-> {}]
    BY <2>3 DEF Detector
  <2>4. CASE mUdpDetector' = [mUdpDetector EXCEPT !.devicesFound = {}]
    <3>1. [mUdpDetector EXCEPT !.devicesFound = {}]
             = [timeout |-> mUdpDetector.timeout, devicesFound |-> {}]
      BY <2>1 DEF Detector
    <3> QED BY <2>1, <2>4, <3>1 DEF Detector
  <2> QED BY <2>2, <2>3, <2>4
<1>3. mTriedFull' = mTriedFull /\ mScanType' = type /\ mDevicesFound' = {}
      /\ mAutoDetect' = (type = "Full") /\ settings' = s /\ knownWrites' = knownWrites
  BY DEF Scan
<1>4. mTriedFull \in BOOLEAN /\ knownWrites \in Seq(SUBSET Addr)
  BY DEF IInv
<1> QED BY <1>1, <1>2, <1>3, <1>4

\* Replacing a HostScan by another one keeps a set of busy hosts within the
\* bound.
LEMMA ReplaceKeeps ==
    ASSUME NEW busy, HostsOK(busy), NEW s \in busy, NEW t \in HostScan
    PROVE  HostsOK(busy \ {s}) /\ HostsOK((busy \ {s}) \cup {t})
           /\ Cardinality(busy \ {s}) + 1 <= MaxSimultaneousRequests
<1>1. IsFiniteSet(busy) /\ Cardinality(busy) \in Nat
  BY FS_CardinalityType DEF HostsOK
<1>2. /\ IsFiniteSet(busy \ {s})
      /\ Cardinality(busy \ {s}) = Cardinality(busy) - 1
  BY <1>1, FS_RemoveElement
<1>3. /\ IsFiniteSet((busy \ {s}) \cup {t})
      /\ Cardinality((busy \ {s}) \cup {t}) <= Cardinality(busy)
  <2> DEFINE rest == busy \ {s}
  <2>1. IsFiniteSet(rest) /\ Cardinality(rest) = Cardinality(busy) - 1
    BY <1>2
  <2> HIDE DEF rest
  <2>2. /\ IsFiniteSet(rest \cup {t})
        /\ Cardinality(rest \cup {t}) =
              IF t \in rest THEN Cardinality(rest) ELSE Cardinality(rest) + 1
    BY <2>1, FS_AddElement
  <2>3. Cardinality(rest \cup {t}) <= Cardinality(busy)
    BY <1>1, <2>1, <2>2
  <2> QED BY <2>2, <2>3 DEF rest
<1>4. Cardinality((busy \ {s}) \cup {t}) \in Nat
  BY <1>3, FS_CardinalityType
<1> QED BY <1>1, <1>2, <1>3, <1>4, LimitAssumption DEF HostsOK

\* The constructor of the gateway establishes the invariant.
LEMMA InitInv == Init => IInv
<1> SUFFICES ASSUME Init PROVE IInv
  OBVIOUS
<1>1. HostsOK({})
  BY FS_EmptySet, LimitAssumption DEF HostsOK
<1>2. HostVarsOK
  BY <1>1 DEF Init, HostVarsOK, Generator
<1>3. ScanVarsOK
  BY EmptySeq DEF Init, ScanVarsOK, ScanType, Detector, Settings
<1>4. mTimer = FALSE /\ requests = 0
  BY DEF Init
<1>5. requests \in 0..MaxRequests
  BY <1>4, RequestAssumption
<1> QED BY <1>2, <1>3, <1>4, <1>5 DEF IInv

\* Every action keeps the invariant.
LEMMA NextInv == IInv /\ [Next]_vars => IInv'
<1> SUFFICES ASSUME IInv, [Next]_vars PROVE IInv'
  OBVIOUS
<1>0. /\ {"None", "Full", "Priority", "TryPriority"} = ScanType
      /\ HostVarsOK /\ ScanVarsOK /\ settings \in Settings
      /\ mUdpDetector \in Detector /\ HostsOK(mActiveHosts)
      /\ mAddressGenerator \in Generator /\ probed \subseteq Addr
      /\ knownWrites \in Seq(SUBSET Addr)
  BY DEF IInv, ScanType, HostVarsOK, ScanVarsOK
<1>1. CASE StartDetection
  <2>1. HostVarsOK' /\ ScanVarsOK'
    BY <1>0, <1>1, ScanKeeps DEF StartDetection
  <2> QED BY <1>1, <2>1 DEF StartDetection, IInv
<1>2. CASE OnTimer
  <2>1. HostVarsOK' /\ ScanVarsOK'
    BY <1>0, <1>2, ScanKeeps DEF OnTimer
  <2> QED BY <1>2, <2>1 DEF OnTimer, IInv
<1>3. ASSUME Request, HostVarsOK', ScanVarsOK' PROVE IInv'
  BY <1>3, RequestAssumption DEF Request, IInv
<1>4. CASE StartDetectionAgain
  <2>1. HostVarsOK' /\ ScanVarsOK'
    BY <1>0, <1>4, ScanKeeps DEF StartDetectionAgain
  <2> QED BY <1>3, <1>4, <2>1 DEF StartDetectionAgain
<1>5. CASE FullScan
  <2>1. HostVarsOK' /\ ScanVarsOK'
    BY <1>0, <1>5, ScanKeeps DEF FullScan
  <2> QED BY <1>3, <1>5, <2>1 DEF FullScan
<1>6. CASE OnPortNumberChanged
  <2>1. HostVarsOK' /\ ScanVarsOK'
    BY <1>0, <1>6, ScanKeeps DEF OnPortNumberChanged
  <2> QED BY <1>3, <1>6, <2>1 DEF OnPortNumberChanged
<1>7. CASE OnIpAddressesChanged
  <2>1. PICK ip \in SUBSET Addr : Scan("Priority", [settings EXCEPT !.ipAddresses = ip])
    BY <1>7 DEF OnIpAddressesChanged
  <2>2. [settings EXCEPT !.ipAddresses = ip] \in Settings
    BY <1>0 DEF Settings
  <2>3. HostVarsOK' /\ ScanVarsOK'
    BY <1>0, <2>1, <2>2, ScanKeeps
  <2> QED BY <1>3, <1>7, <2>3 DEF OnIpAddressesChanged
<1>8. CASE SetAutoScan
  <2>1. settings' \in Settings
    BY <1>0, <1>8 DEF SetAutoScan, Settings
  <2>2. HostVarsOK'
    BY <1>0, <1>8 DEF SetAutoScan, hostVars, HostVarsOK, HostsOK
  <2>3. ScanVarsOK'
    BY <1>0, <1>8, <2>1 DEF SetAutoScan, scanVars, ScanVarsOK
  <2> QED BY <1>3, <1>8, <2>2, <2>3 DEF SetAutoScan
<1>9. ASSUME NEW a \in Addr, UdpResponse(a) PROVE IInv'
  <2>1. mUdpDetector' \in Detector
    BY <1>0, <1>9 DEF UdpResponse, Detector
  <2>2. HostVarsOK'
    BY <1>0, <1>9 DEF UdpResponse, hostVars, HostVarsOK, HostsOK
  <2>3. ScanVarsOK'
    BY <1>0, <1>9, <2>1 DEF UdpResponse, scanVars, ScanVarsOK
  <2> QED BY <1>9, <2>2, <2>3 DEF UdpResponse, IInv
<1>10. CASE UdpTimeout
  <2>1. mUdpDetector' \in Detector
    BY <1>0, <1>10 DEF UdpTimeout, Detector
  <2>2. HostVarsOK'
    <3>1. mUdpDetector.devicesFound \in SUBSET Addr
      BY <1>0 DEF Detector
    <3>2. ContinueScan(mScanType, mUdpDetector.devicesFound, settings, mActiveHosts)
      BY <1>10 DEF UdpTimeout
    <3> QED BY <1>0, <3>1, <3>2, ContinueScanKeeps
  <2>3. ScanVarsOK'
    BY <1>0, <1>10, <2>1 DEF UdpTimeout, scanVars, ScanVarsOK
  <2> QED BY <1>10, <2>2, <2>3 DEF UdpTimeout, IInv
<1>11. ASSUME NEW s \in mActiveHosts, DeviceFound(s) PROVE IInv'
  <2>1. s \in HostScan /\ s.host \in Addr
    BY <1>0 DEF HostsOK, HostScan
  <2>2. [s EXCEPT !.left = 0] \in HostScan
    BY <2>1, DetectorAssumption DEF HostScan
  <2>3. HostsOK((mActiveHosts \ {s}) \cup {[s EXCEPT !.left = 0]})
    BY <1>0, <2>2, ReplaceKeeps
  <2>4. HostVarsOK'
    BY <1>0, <1>11, <2>3 DEF DeviceFound, HostVarsOK, HostsOK
  <2>5. knownWrites' \in Seq(SUBSET Addr)
    <3>1. settings.knownIpAddresses \cup {s.host} \in SUBSET Addr
      BY <1>0, <2>1 DEF Settings
    <3>2. Append(knownWrites, settings.knownIpAddresses \cup {s.host}) \in Seq(SUBSET Addr)
      BY <1>0, <3>1, AppendProperties
    <3> QED BY <1>0, <1>11, <3>2 DEF DeviceFound
  <2>6. ScanVarsOK'
    BY <1>0, <1>11, <2>1, <2>5 DEF DeviceFound, ScanVarsOK
  <2> QED BY <1>11, <2>4, <2>6 DEF DeviceFound, IInv
<1>12. ASSUME NEW s \in mActiveHosts, NextDetector(s) PROVE IInv'
  <2>1. s \in HostScan /\ s.left \in 0..Detectors-1 /\ s.left > 0
    BY <1>0, <1>12 DEF HostsOK, HostScan, NextDetector
  <2>2. [s EXCEPT !.left = @ - 1] \in HostScan
    BY <2>1, DetectorAssumption DEF HostScan
  <2>3. HostsOK((mActiveHosts \ {s}) \cup {[s EXCEPT !.left = @ - 1]})
    BY <1>0, <2>2, ReplaceKeeps
  <2>4. HostVarsOK'
    BY <1>0, <1>12, <2>3 DEF NextDetector, HostVarsOK, HostsOK
  <2>5. ScanVarsOK'
    BY <1>0, <1>12 DEF NextDetector, scanVars, ScanVarsOK
  <2> QED BY <1>12, <2>4, <2>5 DEF NextDetector, IInv
<1>13. ASSUME NEW s \in mActiveHosts, DetectionDone(s) PROVE IInv'
  <2> DEFINE busy == mActiveHosts \ {s}
  <2>1. HostsOK(busy) /\ Cardinality(busy) + 1 <= MaxSimultaneousRequests
    <3>1. s \in HostScan
      BY <1>0 DEF HostsOK
    <3> QED BY <1>0, <3>1, ReplaceKeeps
  <2> HIDE DEF busy
  <2>2. /\ HostVarsOK' /\ mScanType' \in ScanType /\ mAutoDetect' \in BOOLEAN
        /\ mTriedFull' \in BOOLEAN /\ mTimer' \in BOOLEAN
    <3>1. CASE mScanType # "None" /\ HasNext(mAddressGenerator)
      <4>1. PICK e \in Issuable(mAddressGenerator) :
               /\ mActiveHosts' = ScanHosts({e}, busy)
               /\ mAddressGenerator' = Without(mAddressGenerator, {e})
               /\ probed' = probed \cup Hosts({e})
        BY <1>13, <3>1 DEF DetectionDone, busy
      <4>2. {e} \in SUBSET Entry
        <5>1. e \in Pending(mAddressGenerator)
          BY DEF Issuable, Pending
        <5> QED BY <1>0, <5>1, EntriesFinite
      <4>3. HostsOK(ScanHosts({e}, busy))
        BY <2>1, <4>2, FS_Singleton, ScanHostsFit
      <4>4. Without(mAddressGenerator, {e}) \in Generator /\ Hosts({e}) \subseteq Addr
        BY <1>0, <4>2, EntriesFinite
      <4>5. HostVarsOK'
        BY <1>0, <4>1, <4>3, <4>4 DEF HostVarsOK, HostsOK
      <4> QED BY <1>13, <3>1, <4>5 DEF DetectionDone, IInv, ScanVarsOK
    <3>2. CASE ~(mScanType # "None" /\ HasNext(mAddressGenerator)) /\ AllDone(busy)
      <4>1. ScanComplete(busy)
        BY <1>13, <3>2 DEF DetectionDone, busy
      <4>2. CASE ContinueScan("Full", mUdpDetector.devicesFound, settings, busy)
                 /\ mScanType' = "Full" /\ mTriedFull' = TRUE /\ mAutoDetect' = TRUE
                 /\ mTimer' = mTimer
        <5>1. mUdpDetector.devicesFound \in SUBSET Addr
          BY <1>0 DEF Detector
        <5>2. HostVarsOK'
          BY <1>0, <2>1, <4>2, <5>1, ContinueScanKeeps
        <5> QED BY <1>0, <4>2, <5>2 DEF IInv
      <4>3. CASE /\ mScanType' = "None" /\ mAutoDetect' = FALSE /\ mTimer' = TRUE
                 /\ mActiveHosts' = busy
                 /\ UNCHANGED <<mTriedFull, mAddressGenerator, probed>>
        <5>1. HostVarsOK'
          BY <1>0, <2>1, <4>3 DEF HostVarsOK, HostsOK
        <5> QED BY <1>0, <4>3, <5>1 DEF ScanVarsOK
      <4> QED BY <4>1, <4>2, <4>3 DEF ScanComplete
    <3>3. CASE ~(mScanType # "None" /\ HasNext(mAddressGenerator)) /\ ~AllDone(busy)
      <4>1. /\ mActiveHosts' = busy
            /\ UNCHANGED <<mScanType, mAutoDetect, mTriedFull, mTimer,
                           mAddressGenerator, probed>>
        BY <1>13, <3>3 DEF DetectionDone, busy
      <4>2. HostVarsOK'
        BY <1>0, <2>1, <4>1 DEF HostVarsOK, HostsOK
      <4> QED BY <4>1, <4>2 DEF IInv, ScanVarsOK
    <3> QED BY <3>1, <3>2, <3>3
  <2>3. UNCHANGED <<mDevicesFound, mUdpDetector, settings, knownWrites, requests>>
    BY <1>13 DEF DetectionDone
  <2>4. ScanVarsOK'
    BY <1>0, <2>2, <2>3 DEF ScanVarsOK
  <2> QED BY <2>2, <2>3, <2>4 DEF IInv
<1>14. CASE KnownIpAddressesArrive
  <2>1. Head(knownWrites) \in SUBSET Addr /\ Tail(knownWrites) \in Seq(SUBSET Addr)
    BY <1>0, <1>14, HeadTailProperties DEF KnownIpAddressesArrive
  <2>2. settings' \in Settings
    BY <1>0, <1>14, <2>1 DEF KnownIpAddressesArrive, Settings
  <2>3. HostVarsOK'
    BY <1>0, <1>14 DEF KnownIpAddressesArrive, hostVars, HostVarsOK, HostsOK
  <2>4. ScanVarsOK'
    BY <1>0, <1>14, <2>1, <2>2 DEF KnownIpAddressesArrive, scanVars, ScanVarsOK
  <2> QED BY <1>14, <2>3, <2>4 DEF KnownIpAddressesArrive, IInv
<1>15. CASE UNCHANGED vars
  BY <1>15 DEF IInv, HostVarsOK, ScanVarsOK, HostsOK, vars, scanVars, hostVars
<1> QED BY <1>1, <1>2, <1>4, <1>5, <1>6, <1>7, <1>8, <1>9, <1>10, <1>11, <1>12,
           <1>13, <1>14, <1>15 DEF Next

\* The inductive invariant holds in every reachable state.
LEMMA Invariance == Spec => []IInv
BY InitInv, NextInv, PTL DEF Spec

\* Every variable keeps to its type; in particular a new HostScan can always
\* be told from the others of its host, and no detector is started twice.
THEOREM TypeCorrect == Spec => []TypeOK
<1>1. IInv => TypeOK
  BY DEF IInv, HostVarsOK, ScanVarsOK, HostsOK, TypeOK, Settings, Generator, Detector
<1> QED BY Invariance, <1>1, PTL

\* However many callers start hosts on top of busy ones, the gateway never
\* has more than MaxSimultaneousRequests of them (continueScan, scanHost).
THEOREM Bounded == Spec => []ActiveBound
<1>1. IInv => ActiveBound
  BY DEF IInv, HostVarsOK, HostsOK, ActiveBound
<1> QED BY Invariance, <1>1, PTL

----------------------------------------------------------------------------
(* What the scans keep consistent.                                         *)

\* /AutoDetect and the type of the scan change together, in scan(), in the
\* fall back and when a scan is complete.
THEOREM AutoDetectMirrors == Spec => []AutoDetectMirrorsFull
<1>1. Init => AutoDetectMirrorsFull
  BY DEF Init, AutoDetectMirrorsFull
<1>2. AutoDetectMirrorsFull /\ [Next]_vars => AutoDetectMirrorsFull'
  <2> SUFFICES ASSUME AutoDetectMirrorsFull, [Next]_vars
               PROVE  AutoDetectMirrorsFull'
    OBVIOUS
  <2> USE DEF AutoDetectMirrorsFull
  <2>1. ASSUME NEW type, NEW s, Scan(type, s) PROVE AutoDetectMirrorsFull'
    BY <2>1 DEF Scan
  <2>2. CASE StartDetection \/ OnTimer
    BY <2>1, <2>2 DEF StartDetection, OnTimer
  <2>3. CASE StartDetectionAgain \/ FullScan \/ OnPortNumberChanged \/ OnIpAddressesChanged
    BY <2>1, <2>3 DEF StartDetectionAgain, FullScan, OnPortNumberChanged,
                      OnIpAddressesChanged
  <2>4. CASE \/ SetAutoScan \/ KnownIpAddressesArrive
             \/ \E a \in Addr : UdpResponse(a)
             \/ UdpTimeout
    BY <2>4 DEF SetAutoScan, KnownIpAddressesArrive, UdpResponse, UdpTimeout, scanVars
  <2>5. ASSUME NEW s \in mActiveHosts, DeviceFound(s) \/ NextDetector(s)
        PROVE  AutoDetectMirrorsFull'
    BY <2>5 DEF DeviceFound, NextDetector, scanVars
  <2>6. ASSUME NEW s \in mActiveHosts, DetectionDone(s)
        PROVE  AutoDetectMirrorsFull'
    <3>1. \/ ScanComplete(mActiveHosts \ {s})
          \/ UNCHANGED <<mScanType, mAutoDetect>>
      BY <2>6 DEF DetectionDone
    <3> QED BY <3>1 DEF ScanComplete
  <2>7. CASE UNCHANGED vars
    BY <2>7 DEF vars, scanVars
  <2> QED BY <2>2, <2>3, <2>4, <2>5, <2>6, <2>7 DEF Next
<1> QED BY <1>1, <1>2, PTL DEF Spec

\* continueScan starts no host, with none busy, only if there is neither a
\* manual nor a known address: there is always room for one host.
LEMMA NothingToAsk ==
    ASSUME NEW type, NEW found, NEW s, NEW busy, ContinueScan(type, found, s, busy),
           mActiveHosts' = {}
    PROVE  s.ipAddresses \cup s.knownIpAddresses = {}
<1> DEFINE addresses == found \cup Known(s.ipAddresses, s.knownIpAddresses)
           gen       == Restarted(addresses, type)
<1>1. CASE type = "Priority" /\ addresses = {}
  BY <1>1 DEF Known
<1>2. CASE ~(type = "Priority" /\ addresses = {})
  <2>1. PICK B \in Batches(gen, busy) : mActiveHosts' = ScanHosts(B, busy)
    BY <1>2 DEF ContinueScan
  <2>2. busy = {} /\ B = {}
    BY <2>1 DEF ScanHosts
  <2>3. Pending(gen) = {}
    <3> HIDE DEF gen
    <3>1. B # Pending(gen) =>
             Cardinality(busy) + Cardinality(B) >= MaxSimultaneousRequests
      BY <2>1 DEF Batches
    <3> QED BY <2>2, <3>1, FS_EmptySet, LimitAssumption
  <2>4. gen.priority = addresses
    BY DEF Restarted
  <2>5. addresses = {}
    <3> HIDE DEF gen, addresses
    <3>1. \A a \in addresses : <<"priority", a>> \in Pending(gen)
      BY <2>4 DEF Pending, Priority
    <3> QED BY <2>3, <3>1
  <2> QED BY <2>5 DEF Known
<1> QED BY <1>1, <1>2

\* While an address is configured the gateway does not stall: whichever slot
\* restarts the generator, a host is busy afterwards, and the last host that
\* finishes completes the scan or starts the fall back (onDetectionDone).
THEOREM StallsUnconfigured == Spec => StallsOnlyUnconfigured
<1>1. IInv /\ [Next]_vars => [~Stalled /\ Stalled' => Configured' = {}]_vars
  <2> SUFFICES ASSUME IInv, Next, ~Stalled, Stalled' PROVE Configured' = {}
    OBVIOUS
  <2> USE DEF Configured
  <2>0. mUdpDetector \in Detector
    BY DEF IInv, ScanVarsOK
  <2>1. mScanType' # "None" /\ mActiveHosts' = {} /\ ~mUdpDetector'.timeout
    BY DEF Stalled
  <2>2. ASSUME NEW type, NEW s, Scan(type, s) PROVE Configured' = {}
    <3>1. ContinueScan(type, {}, s, mActiveHosts) /\ settings' = s
      BY <2>1, <2>2 DEF Scan
    <3> QED BY <2>1, <3>1, NothingToAsk
  <2>3. CASE StartDetection \/ OnTimer
    BY <2>2, <2>3 DEF StartDetection, OnTimer
  <2>4. CASE StartDetectionAgain \/ FullScan \/ OnPortNumberChanged \/ OnIpAddressesChanged
    BY <2>2, <2>4 DEF StartDetectionAgain, FullScan, OnPortNumberChanged,
                      OnIpAddressesChanged
  <2>5. CASE SetAutoScan \/ KnownIpAddressesArrive
    BY <2>5 DEF SetAutoScan, KnownIpAddressesArrive, Stalled, scanVars, hostVars
  <2>6. CASE \E a \in Addr : UdpResponse(a)
    <3>1. mUdpDetector'.timeout = mUdpDetector.timeout
      BY <2>0, <2>6 DEF UdpResponse, Detector
    <3> QED BY <2>6, <3>1 DEF UdpResponse, Stalled, scanVars, hostVars
  <2>7. CASE UdpTimeout
    BY <2>1, <2>7, NothingToAsk DEF UdpTimeout
  <2>8. ASSUME NEW s \in mActiveHosts, DeviceFound(s) \/ NextDetector(s)
        PROVE  FALSE
    BY <2>1, <2>8 DEF DeviceFound, NextDetector
  <2>9. ASSUME NEW s \in mActiveHosts, DetectionDone(s) PROVE Configured' = {}
    <3> DEFINE busy == mActiveHosts \ {s}
    <3>1. ~(mScanType # "None" /\ HasNext(mAddressGenerator))
      <4>1. SUFFICES ASSUME mScanType # "None" /\ HasNext(mAddressGenerator) PROVE FALSE
        OBVIOUS
      <4>2. PICK e : mActiveHosts' = ScanHosts({e}, busy)
        BY <2>9, <4>1 DEF DetectionDone
      <4> QED BY <2>1, <4>2 DEF ScanHosts
    <3>2. AllDone(busy)
      BY <2>1, <2>9, <3>1 DEF DetectionDone, AllDone
    <3>3. ScanComplete(busy) /\ settings' = settings
      BY <2>9, <3>1, <3>2 DEF DetectionDone
    <3>4. ContinueScan("Full", mUdpDetector.devicesFound, settings, busy)
      BY <2>1, <3>3 DEF ScanComplete
    <3> QED BY <2>1, <3>3, <3>4, NothingToAsk
  <2> QED BY <2>3, <2>4, <2>5, <2>6, <2>7, <2>8, <2>9 DEF Next
<1> QED BY <1>1, Invariance, PTL DEF Spec, StallsOnlyUnconfigured
\* Where continueScan starts a full sweep, every address of the networks is
\* started or waits.
LEMMA FullSweepStarts ==
    ASSUME NEW found, NEW s, NEW busy, ContinueScan("Full", found, s, busy)
    PROVE  LanHosts \subseteq Hosts(Pending(mAddressGenerator))' \cup probed'
<1> DEFINE addresses == found \cup Known(s.ipAddresses, s.knownIpAddresses)
           gen       == Restarted(addresses, "Full")
<1>1. PICK B : mAddressGenerator' = Without(gen, B) /\ probed' = Hosts(B)
  BY DEF ContinueScan
<1>2. SUFFICES ASSUME NEW p \in Lan
               PROVE  p[2] \in Hosts(Pending(Without(gen, B))) \cup Hosts(B)
  BY <1>1 DEF LanHosts, Hosts
<1>3. gen.priority = addresses /\ gen.sweep = {q \in Lan : q[2] \notin addresses}
  BY DEF Restarted
<1> HIDE DEF addresses, gen
<1>4. CASE p[2] \in addresses
  <2>1. <<"priority", p[2]>> \in B \cup Pending(Without(gen, B))
    BY <1>3, <1>4 DEF Pending, Priority, Without
  <2>2. <<"priority", p[2]>>[2] = p[2]
    OBVIOUS
  <2> QED BY <2>1, <2>2 DEF Hosts
<1>5. CASE p[2] \notin addresses
  <2>1. p \in B \cup Pending(Without(gen, B))
    BY <1>3, <1>5 DEF Pending, Without
  <2> QED BY <2>1 DEF Hosts
<1> QED BY <1>4, <1>5

\* No address of the network is lost by a full sweep, also when a new scan
\* restarts the generator while hosts of an older one are draining it.
THEOREM NoAddressLost == Spec => []SweepNotDropped
<1>1. Init => SweepNotDropped
  BY DEF Init, SweepNotDropped
<1>2. IInv /\ SweepNotDropped /\ [Next]_vars => SweepNotDropped'
  <2> SUFFICES ASSUME IInv, SweepNotDropped, [Next]_vars,
                      mScanType' = "Full", ~mUdpDetector'.timeout
               PROVE  LanHosts \subseteq Hosts(Pending(mAddressGenerator))' \cup probed'
    BY DEF SweepNotDropped
  <2>0. mUdpDetector \in Detector /\ mAddressGenerator \in Generator
    BY DEF IInv, ScanVarsOK, HostVarsOK
  <2>1. ASSUME UNCHANGED <<mScanType, mAddressGenerator, probed>>,
               mUdpDetector'.timeout = mUdpDetector.timeout
        PROVE  LanHosts \subseteq Hosts(Pending(mAddressGenerator))' \cup probed'
    BY <2>1 DEF SweepNotDropped
  <2>2. ASSUME NEW type, NEW s, Scan(type, s) PROVE FALSE
    BY <2>2 DEF Scan
  <2>3. CASE StartDetection \/ OnTimer
    BY <2>2, <2>3 DEF StartDetection, OnTimer
  <2>4. CASE StartDetectionAgain \/ FullScan \/ OnPortNumberChanged \/ OnIpAddressesChanged
    BY <2>2, <2>4 DEF StartDetectionAgain, FullScan, OnPortNumberChanged,
                      OnIpAddressesChanged
  <2>5. CASE SetAutoScan \/ KnownIpAddressesArrive
    BY <2>1, <2>5 DEF SetAutoScan, KnownIpAddressesArrive, scanVars, hostVars
  <2>6. CASE \E a \in Addr : UdpResponse(a)
    <3>1. mUdpDetector'.timeout = mUdpDetector.timeout
      BY <2>0, <2>6 DEF UdpResponse, Detector
    <3> QED BY <2>1, <2>6, <3>1 DEF UdpResponse, scanVars, hostVars
  <2>7. CASE UdpTimeout
    <3>1. ContinueScan("Full", mUdpDetector.devicesFound, settings, mActiveHosts)
      BY <2>7 DEF UdpTimeout, scanVars
    <3> QED BY <3>1, FullSweepStarts
  <2>8. ASSUME NEW s \in mActiveHosts, DeviceFound(s) \/ NextDetector(s)
        PROVE  LanHosts \subseteq Hosts(Pending(mAddressGenerator))' \cup probed'
    BY <2>1, <2>8 DEF DeviceFound, NextDetector, scanVars
  <2>9. ASSUME NEW s \in mActiveHosts, DetectionDone(s)
        PROVE  LanHosts \subseteq Hosts(Pending(mAddressGenerator))' \cup probed'
    <3>1. mUdpDetector' = mUdpDetector
      BY <2>9 DEF DetectionDone
    <3>2. CASE mScanType # "None" /\ HasNext(mAddressGenerator)
      <4>1. PICK e : /\ mAddressGenerator' = Without(mAddressGenerator, {e})
                     /\ probed' = probed \cup Hosts({e})
        BY <2>9, <3>2 DEF DetectionDone
      <4>2. LanHosts \subseteq Hosts(Pending(mAddressGenerator)) \cup probed
        BY <2>9, <3>1, <3>2 DEF DetectionDone, SweepNotDropped
      <4>3. Pending(mAddressGenerator) \subseteq Pending(mAddressGenerator)' \cup {e}
        BY <2>0, <4>1 DEF Pending, Priority, Without, Generator
      <4> QED BY <4>1, <4>2, <4>3 DEF Hosts
    <3>3. CASE ~(mScanType # "None" /\ HasNext(mAddressGenerator))
               /\ AllDone(mActiveHosts \ {s})
      <4>1. ScanComplete(mActiveHosts \ {s})
        BY <2>9, <3>3 DEF DetectionDone
      <4>2. ContinueScan("Full", mUdpDetector.devicesFound, settings, mActiveHosts \ {s})
        BY <4>1 DEF ScanComplete
      <4> QED BY <4>2, FullSweepStarts
    <3>4. CASE ~(mScanType # "None" /\ HasNext(mAddressGenerator))
               /\ ~AllDone(mActiveHosts \ {s})
      BY <2>1, <2>9, <3>1, <3>4 DEF DetectionDone
    <3> QED BY <3>2, <3>3, <3>4
  <2>10. CASE UNCHANGED vars
    BY <2>1, <2>10 DEF vars, scanVars, hostVars
  <2> QED BY <2>3, <2>4, <2>5, <2>6, <2>7, <2>8, <2>9, <2>10 DEF Next
<1> QED BY <1>1, <1>2, Invariance, PTL DEF Spec

----------------------------------------------------------------------------
(* The gateway uses its generator as AddressSweep allows.                  *)

\* Taking the entries B from the generator, priority addresses first.
LEMMA TakeIs ==
    ASSUME NEW gen \in Generator, NEW B, NEW before,
           B \subseteq Pending(gen),
           B \cap gen.sweep # {} => Priority(gen.priority) \subseteq B,
           mAddressGenerator' = Without(gen, B),
           probed' = before \cup Hosts(B)
    PROVE  Sweep!Take(gen, before)
<1>1. /\ mAddressGenerator'.priority = {a \in gen.priority : <<"priority", a>> \notin B}
      /\ mAddressGenerator'.sweep = gen.sweep \ B
  BY DEF Without
<1>2. /\ mAddressGenerator'.priority \subseteq gen.priority
      /\ mAddressGenerator'.sweep \subseteq gen.sweep
  BY <1>1
<1>3. ASSUME mAddressGenerator'.priority # {}
      PROVE  mAddressGenerator'.sweep = gen.sweep
  BY <1>1, <1>3 DEF Priority
<1>4. Hosts(B) = (gen.priority \ mAddressGenerator'.priority)
                 \cup {p[2] : p \in gen.sweep \ mAddressGenerator'.sweep}
  <2> DEFINE P == {a \in gen.priority : <<"priority", a>> \in B}
             S == gen.sweep \cap B
  <2>1. /\ gen.priority \ mAddressGenerator'.priority = P
        /\ gen.sweep \ mAddressGenerator'.sweep = S
    BY <1>1
  <2>2. ASSUME NEW e \in B PROVE e[2] \in P \cup {p[2] : p \in S}
    <3>1. CASE e \in gen.sweep
      BY <3>1
    <3>2. CASE e \in Priority(gen.priority)
      <4>1. PICK a \in gen.priority : e = <<"priority", a>>
        BY <3>2 DEF Priority
      <4> QED BY <4>1
    <3> QED BY <3>1, <3>2 DEF Pending
  <2>3. ASSUME NEW a \in P PROVE a \in Hosts(B)
    <3>1. <<"priority", a>> \in B /\ <<"priority", a>>[2] = a
      OBVIOUS
    <3> QED BY <3>1 DEF Hosts
  <2>4. ASSUME NEW p \in S PROVE p[2] \in Hosts(B)
    BY DEF Hosts
  <2>5. ASSUME NEW x \in Hosts(B) PROVE x \in P \cup {p[2] : p \in S}
    BY <2>2 DEF Hosts
  <2> HIDE DEF P, S
  <2>6. Hosts(B) = P \cup {p[2] : p \in S}
    BY <2>3, <2>4, <2>5
  <2> QED BY <2>1, <2>6
<1> QED BY <1>2, <1>3, <1>4 DEF Sweep!Take

\* continueScan restarts the generator, and takes what it may.
LEMMA ContinueScanRestarts ==
    ASSUME NEW type, NEW found \in SUBSET Addr, NEW s \in Settings,
           NEW busy, ContinueScan(type, found, s, busy)
    PROVE  \/ Sweep!Restart
           \/ UNCHANGED <<mAddressGenerator, probed>>
<1> DEFINE addresses == found \cup Known(s.ipAddresses, s.knownIpAddresses)
           gen == Restarted(addresses, type)
<1>1. addresses \in SUBSET Addr
  BY DEF Known, Settings
<1>2. CASE type = "Priority" /\ addresses = {}
  BY <1>2 DEF ContinueScan
<1>3. CASE ~(type = "Priority" /\ addresses = {})
  <2>1. PICK B \in Batches(gen, busy) :
           mAddressGenerator' = Without(gen, B) /\ probed' = Hosts(B)
    BY <1>3 DEF ContinueScan
  <2> DEFINE taken == {a \in addresses : <<"priority", a>> \in B}
             all   == type = "Full"
  <2>2. /\ B \subseteq Pending(gen)
        /\ B \cap gen.sweep # {} => Priority(gen.priority) \subseteq B
    <3> HIDE DEF gen
    <3> QED BY DEF Batches
  <2>3. gen = [priority |-> addresses,
               sweep    |-> IF all THEN {p \in Lan : p[2] \notin addresses} ELSE {}]
    BY DEF Restarted
  <2>4. gen \in Generator
    <3>1. {p \in Lan : p[2] \notin addresses} \subseteq Network \X Addr
      BY LanAssumption
    <3> HIDE DEF addresses, gen
    <3> QED BY <1>1, <2>3, <3>1 DEF Generator
  <2> HIDE DEF gen, addresses
  <2>5. mAddressGenerator'.priority \cup taken = addresses
    BY <2>1, <2>3 DEF Without
  <2>6. Sweep!Restarted(mAddressGenerator'.priority \cup taken, all) = gen
    BY <2>3, <2>5 DEF Sweep!Restarted
  <2>7. Sweep!Take(gen, {})
    <3>1. probed' = {} \cup Hosts(B)
      BY <2>1
    <3> QED BY <2>1, <2>2, <2>4, <3>1, TakeIs
  <2>8. Sweep!TypeOK'
    <3>1. mAddressGenerator' \in Generator
      BY <2>1, <2>4, EntriesFinite
    <3>2. probed' \subseteq Addr
      <4>1. B \subseteq Entry
        BY <2>2, <2>4, EntriesFinite
      <4> QED BY <2>1, <4>1, EntriesFinite
    <3> QED BY <3>1, <3>2, LanAssumption DEF Sweep!TypeOK, Generator
  <2>9. taken \in SUBSET probed' /\ all \in BOOLEAN
    <3>1. ASSUME NEW a \in taken PROVE a \in Hosts(B)
      <4>1. <<"priority", a>> \in B /\ <<"priority", a>>[2] = a
        OBVIOUS
      <4> QED BY <4>1 DEF Hosts
    <3> QED BY <2>1, <3>1
  <2> HIDE DEF taken, all
  <2> QED BY <2>6, <2>7, <2>8, <2>9 DEF Sweep!Restart
<1> QED BY <1>2, <1>3

\* Restarts and single steps of the iteration are all the gateway does with
\* its generator, whichever of its slots does it.
THEOREM ImplementsSweep == Spec => UsesSweep
<1>1. Init => Sweep!Init
  BY LanAssumption DEF Init, Sweep!Init, Sweep!TypeOK
<1>2. IInv /\ [Next]_vars
        => [Sweep!Next]_<<Lan, mAddressGenerator, probed>>
  <2> SUFFICES ASSUME IInv, [Next]_vars
               PROVE  Sweep!Next \/ UNCHANGED <<mAddressGenerator, probed>>
    OBVIOUS
  <2>0. settings \in Settings /\ mUdpDetector.devicesFound \in SUBSET Addr
    BY DEF IInv, ScanVarsOK, Detector
  <2>1. ASSUME NEW type, NEW s \in Settings, Scan(type, s)
        PROVE  Sweep!Next \/ UNCHANGED <<mAddressGenerator, probed>>
    <3>1. ContinueScan(type, {}, s, mActiveHosts) \/ UNCHANGED hostVars
      BY <2>1 DEF Scan
    <3> QED BY <3>1, ContinueScanRestarts DEF hostVars, Sweep!Next
  <2>2. CASE StartDetection \/ OnTimer
    BY <2>0, <2>1, <2>2 DEF StartDetection, OnTimer
  <2>3. CASE StartDetectionAgain \/ FullScan \/ OnPortNumberChanged
    BY <2>0, <2>1, <2>3 DEF StartDetectionAgain, FullScan, OnPortNumberChanged
  <2>4. CASE OnIpAddressesChanged
    <3>1. PICK ip \in SUBSET Addr : Scan("Priority", [settings EXCEPT !.ipAddresses = ip])
      BY <2>4 DEF OnIpAddressesChanged
    <3>2. [settings EXCEPT !.ipAddresses = ip] \in Settings
      BY <2>0 DEF Settings
    <3> QED BY <2>1, <3>1, <3>2
  <2>5. CASE SetAutoScan \/ KnownIpAddressesArrive \/ \E a \in Addr : UdpResponse(a)
    BY <2>5 DEF SetAutoScan, KnownIpAddressesArrive, UdpResponse, hostVars
  <2>6. CASE UdpTimeout
    BY <2>0, <2>6, ContinueScanRestarts DEF UdpTimeout, Sweep!Next
  <2>7. ASSUME NEW s \in mActiveHosts, DeviceFound(s) \/ NextDetector(s)
        PROVE  UNCHANGED <<mAddressGenerator, probed>>
    BY <2>7 DEF DeviceFound, NextDetector
  <2>8. ASSUME NEW s \in mActiveHosts, DetectionDone(s)
        PROVE  Sweep!Next \/ UNCHANGED <<mAddressGenerator, probed>>
    <3>1. CASE mScanType # "None" /\ HasNext(mAddressGenerator)
      <4>1. PICK e \in Issuable(mAddressGenerator) :
               /\ mAddressGenerator' = Without(mAddressGenerator, {e})
               /\ probed' = probed \cup Hosts({e})
        BY <2>8, <3>1 DEF DetectionDone
      <4>2. Sweep!Take(mAddressGenerator, probed)
        <5>1. mAddressGenerator \in Generator
          BY DEF IInv, HostVarsOK
        <5>2. ASSUME {e} \cap mAddressGenerator.sweep # {}
              PROVE  mAddressGenerator.priority = {}
          <6>1. e \notin Priority(mAddressGenerator.priority)
            BY <5>1, <5>2, NetworkAssumption DEF Priority, Generator
          <6> QED BY <6>1 DEF Issuable
        <5>3. {e} \subseteq Pending(mAddressGenerator)
          BY DEF Issuable, Pending
        <5> QED BY <4>1, <5>1, <5>2, <5>3, TakeIs DEF Priority
      <4> QED BY <4>2 DEF Sweep!Issue, Sweep!Next
    <3>2. CASE ~(mScanType # "None" /\ HasNext(mAddressGenerator))
      <4>1. \/ ScanComplete(mActiveHosts \ {s})
            \/ UNCHANGED <<mAddressGenerator, probed>>
        BY <2>8, <3>2 DEF DetectionDone
      <4>2. \/ ContinueScan("Full", mUdpDetector.devicesFound, settings,
                            mActiveHosts \ {s})
            \/ UNCHANGED <<mAddressGenerator, probed>>
        BY <4>1 DEF ScanComplete
      <4> QED BY <2>0, <4>2, ContinueScanRestarts DEF Sweep!Next
    <3> QED BY <3>1, <3>2
  <2>9. CASE UNCHANGED vars
    BY <2>9 DEF vars, hostVars
  <2> QED BY <2>2, <2>3, <2>4, <2>5, <2>6, <2>7, <2>8, <2>9 DEF Next
<1> QED BY <1>1, <1>2, Invariance, PTL DEF Spec, UsesSweep, Sweep!Spec

----------------------------------------------------------------------------
(* The periodic scan, until the first outside request.                     *)

\* Every scan begins with no host busy and the generator empty: what is busy
\* was taken from this scan's generator, which never yields an entry twice, nor
\* a priority address as one of a network.
Of(s) == <<s.from, s.host>>

Entries == Pending(mAddressGenerator) \cup {Of(s) : s \in mActiveHosts}

OnceEach(E) == \A e, f \in E : e[1] = "priority" /\ e[2] = f[2] => e = f

Distinct ==
    /\ \A s \in mActiveHosts : Of(s) \notin Pending(mAddressGenerator)
    /\ \A s, t \in mActiveHosts : Of(s) = Of(t) => s = t
    /\ OnceEach(Entries)

Waiting == mActiveHosts = {} /\ Pending(mAddressGenerator) = {}

Quiet ==
    /\ ~mTimer => mScanType = "None"
    /\ mScanType = "None" \/ mUdpDetector.timeout => Waiting
    /\ mScanType = "None" => ~mUdpDetector.timeout
    /\ Distinct

QInv == requests = 0 => Quiet

\* Starting an entry that waits in the generator, beside the busy hosts.
LEMMA StartDistinct ==
    ASSUME NEW e, NEW busy, busy \subseteq mActiveHosts, Distinct,
           e \in Pending(mAddressGenerator) \cap Entry,
           mAddressGenerator \in Generator,
           mActiveHosts' = ScanHosts({e}, busy),
           mAddressGenerator' = Without(mAddressGenerator, {e})
    PROVE  Distinct'
<1> DEFINE new == NewScan(e, busy)
<1>1. mActiveHosts' = busy \cup {new}
  BY DEF ScanHosts
<1>2. Of(new) = e
  BY DEF Of, NewScan, Entry
<1>3. Pending(mAddressGenerator)' = Pending(mAddressGenerator) \ {e}
  BY DEF Pending, Priority, Without, Generator
<1> HIDE DEF new
<1>4. Entries' \subseteq Entries
  BY <1>1, <1>2, <1>3 DEF Entries
<1>5. OnceEach(Entries)'
  BY <1>4 DEF Distinct, OnceEach
<1>6. \A s \in mActiveHosts' : Of(s) \notin Pending(mAddressGenerator)'
  BY <1>1, <1>2, <1>3 DEF Distinct
<1>7. \A s, t \in mActiveHosts' : Of(s) = Of(t) => s = t
  BY <1>1, <1>2 DEF Distinct
<1> QED BY <1>5, <1>6, <1>7 DEF Distinct, Of

\* continueScan with no host busy.
LEMMA FreshScanDistinct ==
    ASSUME NEW type, NEW found \in SUBSET Addr, NEW s \in Settings,
           ContinueScan(type, found, s, {}), Distinct
    PROVE  Distinct'
<1> DEFINE addresses == found \cup Known(s.ipAddresses, s.knownIpAddresses)
           gen == Restarted(addresses, type)
<1>1. CASE type = "Priority" /\ addresses = {}
  <2>1. mActiveHosts' = {} /\ mAddressGenerator' = mAddressGenerator
    BY <1>1 DEF ContinueScan
  <2>2. OnceEach(Entries)'
    BY <2>1 DEF Distinct, OnceEach, Entries, Pending
  <2> QED BY <2>1, <2>2 DEF Distinct
<1>2. CASE ~(type = "Priority" /\ addresses = {})
  <2>1. PICK B : /\ B \in SUBSET Pending(gen)
                 /\ mActiveHosts' = ScanHosts(B, {})
                 /\ mAddressGenerator' = Without(gen, B)
    BY <1>2 DEF ContinueScan, Batches
  <2>2. addresses \in SUBSET Addr
    BY DEF Known, Settings
  <2>3. /\ gen.priority = addresses
        /\ gen.sweep \in SUBSET (Network \X Addr)
        /\ \A p \in gen.sweep : p[2] \notin addresses
    BY LanAssumption DEF Restarted
  <2> HIDE DEF gen, addresses
  <2>4. OnceEach(Pending(gen))
    BY <2>3, NetworkAssumption DEF OnceEach, Pending, Priority
  <2>5. Pending(mAddressGenerator)' = Pending(gen) \ B
    BY <2>1, <2>3 DEF Pending, Priority, Without
  <2>6. \A e \in B : Of(NewScan(e, {})) = e
    <3>1. B \subseteq Entry
      BY <2>1, <2>2, <2>3 DEF Pending, Priority, Entry
    <3> QED BY <3>1 DEF Of, NewScan, Entry
  <2>7. \A t \in mActiveHosts' : Of(t) \in B /\ t = NewScan(Of(t), {})
    BY <2>1, <2>6 DEF ScanHosts
  <2>8. Entries' \subseteq Pending(gen)
    BY <2>1, <2>5, <2>7 DEF Entries, Of
  <2>9. OnceEach(Entries)'
    BY <2>4, <2>8 DEF OnceEach
  <2>10. \A t \in mActiveHosts' : Of(t) \notin Pending(mAddressGenerator)'
    BY <2>5, <2>7
  <2>11. \A t, u \in mActiveHosts' : Of(t) = Of(u) => t = u
    BY <2>7
  <2> QED BY <2>9, <2>10, <2>11 DEF Distinct, Of
<1> QED BY <1>1, <1>2

\* A scan that begins in a quiet state with no host busy.
LEMMA ScanQuiet ==
    ASSUME IInv, Waiting, Distinct, ~mUdpDetector.timeout,
           NEW type \in ScanType \ {"None"}, Scan(type, settings), mTimer'
    PROVE  Quiet'
<1>0. mUdpDetector \in Detector
  BY DEF IInv, ScanVarsOK
<1>1. mScanType' # "None"
  BY DEF Scan
<1>2. CASE UNCHANGED hostVars
  BY <1>1, <1>2 DEF Quiet, Distinct, OnceEach, Entries, Of, Waiting, hostVars, Pending
<1>3. CASE /\ ContinueScan(type, {}, settings, mActiveHosts)
           /\ mUdpDetector' = [mUdpDetector EXCEPT !.devicesFound = {}]
  <2>1. ~mUdpDetector'.timeout
    BY <1>0, <1>3 DEF Detector
  <2>2. Distinct'
    BY <1>3, FreshScanDistinct DEF Waiting, IInv, ScanVarsOK
  <2> QED BY <1>1, <2>1, <2>2 DEF Quiet
<1> QED BY <1>2, <1>3 DEF Scan

\* Every action keeps it: a request from outside ends the period it is about.
LEMMA QuietInv == IInv /\ QInv /\ [Next]_vars => QInv'
<1> SUFFICES ASSUME IInv, QInv, [Next]_vars, requests' = 0 PROVE Quiet'
  BY DEF QInv
<1>0. mUdpDetector \in Detector /\ mAddressGenerator \in Generator
      /\ settings \in Settings /\ mUdpDetector.devicesFound \in SUBSET Addr
      /\ requests \in Nat /\ "TryPriority" \in ScanType
  BY RequestAssumption DEF IInv, ScanVarsOK, HostVarsOK, ScanType, Detector
<1>1. ~Request
  BY <1>0 DEF Request
<1>2. requests = 0 /\ Quiet
  <2>1. requests' = requests
    BY <1>1 DEF Next, StartDetection, OnTimer, StartDetectionAgain, FullScan,
                OnPortNumberChanged, OnIpAddressesChanged, SetAutoScan, UdpResponse,
                UdpTimeout, KnownIpAddressesArrive, DeviceFound, NextDetector,
                DetectionDone, vars
  <2> QED BY <2>1 DEF QInv
<1>3. CASE StartDetection \/ OnTimer
  <2>1. mScanType = "None" /\ mTimer' /\ Scan("TryPriority", settings)
    BY <1>2, <1>3 DEF StartDetection, OnTimer, Quiet
  <2> QED BY <1>0, <1>2, <2>1, ScanQuiet DEF Quiet
<1>4. CASE \E a \in Addr : UdpResponse(a)
  <2>1. mUdpDetector'.timeout = mUdpDetector.timeout
    BY <1>0, <1>4 DEF UdpResponse, Detector
  <2> QED BY <1>2, <1>4, <2>1
          DEF UdpResponse, Quiet, Distinct, OnceEach, Entries, Of, Waiting, scanVars,
              hostVars, Pending
<1>5. CASE UdpTimeout
  <2>1. Waiting /\ mScanType # "None"
    BY <1>2, <1>5 DEF UdpTimeout, Quiet
  <2>2. Distinct'
    BY <1>0, <1>2, <1>5, <2>1, FreshScanDistinct DEF UdpTimeout, Waiting, Quiet
  <2>3. ~mUdpDetector'.timeout
    BY <1>0, <1>5 DEF UdpTimeout, Detector
  <2> QED BY <1>2, <1>5, <2>1, <2>2, <2>3 DEF UdpTimeout, Quiet, scanVars
<1>6. ASSUME NEW s \in mActiveHosts PROVE mScanType # "None" /\ ~mUdpDetector.timeout
  BY <1>2, <1>6 DEF Quiet, Waiting
<1>7. ASSUME NEW s \in mActiveHosts, NEW t, t.host = s.host, t.from = s.from,
             mActiveHosts' = (mActiveHosts \ {s}) \cup {t},
             UNCHANGED <<mScanType, mTimer, mAddressGenerator, probed>>,
             mUdpDetector' = mUdpDetector
      PROVE  Quiet'
  <2>1. Of(t) = Of(s) /\ Entries' \subseteq Entries
    BY <1>7 DEF Of, Entries, Pending
  <2>2. OnceEach(Entries)'
    BY <1>2, <2>1 DEF Quiet, Distinct, OnceEach
  <2>3. Distinct'
    BY <1>2, <1>7, <2>1, <2>2 DEF Quiet, Distinct, Of, Pending
  <2> QED BY <1>2, <1>6, <1>7, <2>3 DEF Quiet
<1>8. ASSUME NEW s \in mActiveHosts, DeviceFound(s) PROVE Quiet'
  <2>1. s \in HostScan
    BY DEF IInv, HostVarsOK, HostsOK
  <2>2. [s EXCEPT !.left = 0].host = s.host /\ [s EXCEPT !.left = 0].from = s.from
    BY <2>1 DEF HostScan
  <2> QED BY <1>7, <1>8, <2>2 DEF DeviceFound
<1>9. ASSUME NEW s \in mActiveHosts, NextDetector(s) PROVE Quiet'
  <2>1. s \in HostScan
    BY DEF IInv, HostVarsOK, HostsOK
  <2>2. /\ [s EXCEPT !.left = @ - 1].host = s.host
        /\ [s EXCEPT !.left = @ - 1].from = s.from
    BY <2>1 DEF HostScan
  <2> QED BY <1>7, <1>9, <2>2 DEF NextDetector, scanVars
<1>10. ASSUME NEW s \in mActiveHosts, DetectionDone(s) PROVE Quiet'
  <2> DEFINE busy == mActiveHosts \ {s}
  <2>1. ~mUdpDetector'.timeout
    BY <1>6, <1>10 DEF DetectionDone
  <2>2. CASE HasNext(mAddressGenerator)
    <3>1. PICK e \in Issuable(mAddressGenerator) :
             /\ mActiveHosts' = ScanHosts({e}, busy)
             /\ mAddressGenerator' = Without(mAddressGenerator, {e})
             /\ UNCHANGED <<mScanType, mTimer>>
      BY <1>6, <1>10, <2>2 DEF DetectionDone
    <3>2. e \in Pending(mAddressGenerator) \cap Entry
      <4>1. e \in Pending(mAddressGenerator)
        BY DEF Issuable, Pending
      <4> QED BY <1>0, <4>1, EntriesFinite
    <3>3. Distinct'
      BY <1>0, <1>2, <3>1, <3>2, StartDistinct DEF Quiet
    <3> QED BY <1>2, <1>6, <2>1, <3>1, <3>3 DEF Quiet
  <2>3. CASE ~HasNext(mAddressGenerator) /\ AllDone(busy)
    <3>1. ScanComplete(busy) /\ busy = {}
      BY <1>10, <2>3 DEF DetectionDone, AllDone
    <3>2. mTimer
      BY <1>2, <1>6 DEF Quiet
    <3>3. CASE /\ mScanType' = "Full" /\ mTimer' = mTimer
               /\ ContinueScan("Full", mUdpDetector.devicesFound, settings, busy)
      <4>1. Distinct'
        BY <1>0, <1>2, <3>1, <3>3, FreshScanDistinct DEF Quiet
      <4> QED BY <2>1, <3>2, <3>3, <4>1 DEF Quiet
    <3>4. CASE /\ mScanType' = "None" /\ mActiveHosts' = busy
               /\ UNCHANGED <<mAddressGenerator, probed>>
      <4>1. Waiting'
        BY <2>3, <3>1, <3>4 DEF Waiting, HasNext, Pending
      <4>2. Distinct'
        BY <4>1 DEF Waiting, Distinct, OnceEach, Entries
      <4> QED BY <2>1, <3>4, <4>1, <4>2 DEF Quiet
    <3> QED BY <3>1, <3>3, <3>4 DEF ScanComplete
  <2>4. CASE ~HasNext(mAddressGenerator) /\ ~AllDone(busy)
    <3>1. /\ mActiveHosts' = busy
          /\ UNCHANGED <<mScanType, mTimer, mAddressGenerator, probed>>
      BY <1>10, <2>4 DEF DetectionDone
    <3>2. Entries' \subseteq Entries
      BY <3>1 DEF Entries, Of, Pending
    <3>3. OnceEach(Entries)'
      BY <1>2, <3>2 DEF Quiet, Distinct, OnceEach
    <3>4. Distinct'
      BY <1>2, <3>1, <3>3 DEF Quiet, Distinct, Of, Pending
    <3> QED BY <1>2, <1>6, <2>1, <3>1, <3>4 DEF Quiet
  <2> QED BY <2>2, <2>3, <2>4
<1>11. CASE KnownIpAddressesArrive \/ UNCHANGED vars
  <2>1. UNCHANGED <<mScanType, mTimer, mUdpDetector, mActiveHosts, mAddressGenerator>>
    BY <1>11 DEF KnownIpAddressesArrive, vars, scanVars, hostVars
  <2> QED BY <1>2, <2>1 DEF Quiet, Distinct, OnceEach, Entries, Of, Waiting, Pending
<1> QED BY <1>1, <1>3, <1>4, <1>5, <1>8, <1>9, <1>10, <1>11
        DEF Next, StartDetectionAgain, FullScan, OnPortNumberChanged,
            OnIpAddressesChanged, SetAutoScan

\* It holds in every reachable state.
LEMMA QuietInvariance == Spec => []QInv
<1>1. Init => QInv
  BY DEF Init, QInv, Quiet, Distinct, OnceEach, Entries, Waiting, Pending, Priority
<1> QED BY <1>1, QuietInv, Invariance, PTL DEF Spec

\* Left alone the gateway never probes a host twice at once but for the sweeps
\* of two networks it is in, although the UDP timer, the 60 s timer and
\* finishing hosts all start hosts.
THEOREM ProbesOnce == Spec => []NoDoubleProbe
<1>1. IInv /\ QInv => NoDoubleProbe
  <2> SUFFICES ASSUME IInv, Distinct,
                      NEW s \in mActiveHosts, NEW t \in mActiveHosts,
                      s.host = t.host, s # t
               PROVE  s.from # t.from /\ {s.from, t.from} \subseteq Network
    BY DEF QInv, Quiet, NoDoubleProbe
  <2>1. Of(s) # Of(t)
    BY DEF Distinct
  <2>2. s.from # t.from
    BY <2>1 DEF Of
  <2>3. Of(s) \in Entries /\ Of(t) \in Entries
    BY DEF Entries
  <2>4. s.from # "priority" /\ t.from # "priority"
    BY <2>1, <2>3 DEF Distinct, OnceEach, Of
  <2>5. s \in HostScan /\ t \in HostScan
    BY DEF IInv, HostVarsOK, HostsOK
  <2> QED BY <2>2, <2>4, <2>5 DEF HostScan
<1> QED BY <1>1, Invariance, QuietInvariance, PTL

\* Left alone it leaves nothing over between scans.
THEOREM IdleIsDone == Spec => []IdleMeansDone
<1>1. QInv => IdleMeansDone
  BY DEF QInv, Quiet, Waiting, IdleMeansDone, HasNext
<1> QED BY <1>1, QuietInvariance, PTL

\* Left alone, a full scan that is complete has probed every network.
THEOREM FullScanIsFull == Spec => FullScanCovers
<1>1. IInv /\ QInv /\ SweepNotDropped /\ [Next]_vars =>
        [mScanType = "Full" /\ mScanType' = "None" /\ requests = 0
           => LanHosts \subseteq probed]_vars
  <2> SUFFICES ASSUME IInv, QInv, SweepNotDropped, Next, requests = 0,
                      mScanType = "Full", mScanType' = "None"
               PROVE  LanHosts \subseteq probed
    OBVIOUS
  <2>1. PICK s \in mActiveHosts : DetectionDone(s)
    BY DEF Next, StartDetection, OnTimer, StartDetectionAgain, FullScan,
           OnPortNumberChanged, OnIpAddressesChanged, SetAutoScan, UdpResponse,
           UdpTimeout, KnownIpAddressesArrive, DeviceFound, NextDetector, Scan,
           scanVars
  <2>2. ~mUdpDetector.timeout
    BY DEF QInv, Quiet, Waiting
  <2>3. ~HasNext(mAddressGenerator)
    BY <2>1 DEF DetectionDone
  <2> QED BY <2>2, <2>3 DEF SweepNotDropped, HasNext, Hosts
<1> QED BY <1>1, Invariance, QuietInvariance, NoAddressLost, PTL DEF Spec, FullScanCovers
============================================================================
