--------------------------- MODULE HostScanProofs ---------------------------
(***************************************************************************)
(* Theorems about HostScan, for any set of inverters the Solar API may     *)
(* report and any answers: the detection on a host is over when nothing is *)
(* under way, each inverter that was reported is announced, and it does    *)
(* what InverterGateway takes it to do (HostDetection).                    *)
(*                                                                         *)
(* The inductive invariant names the phases a detection goes through. Of   *)
(* the probes it keeps which ones there are and that their states are      *)
(* those the handlers know; their clients may do anything.                 *)
(***************************************************************************)
EXTENDS HostScan, TLAPS

Three == Tail(Detectors)
Two   == Tail(Three)

\* The records handlers work on.
ScanFields  == {"detectors", "api", "deviceFound", "reported", "found", "wrapped", "finished"}
ProbeFields == {"client", "state", "currentRegister", "named", "phased"}

IsPair(s) ==
    /\ DOMAIN s = {"scan", "probes"}
    /\ DOMAIN s.scan = ScanFields

ProbesOK(p) ==
    \A k \in DOMAIN p : /\ DOMAIN p[k] = ProbeFields
                        /\ p[k].state \in SMAStates \cup SunspecStates

\* The Solar API is asked.
Asking(sc, D) ==
    /\ sc.api \in {"deviceInfo", "converterInfo"} /\ D = {} /\ sc.detectors = Three
    /\ sc.deviceFound = <<>> /\ sc.reported = {} /\ sc.found = {} /\ sc.finished = 0

\* SunSpec is tried for each inverter of the Solar API, those in D are left.
Probing(sc, D) ==
    /\ sc.api = "idle" /\ D # {} /\ D \subseteq Inverters
    /\ DOMAIN sc.deviceFound = D /\ \A i \in D : ~sc.deviceFound[i]
    /\ D \subseteq sc.reported /\ sc.found = sc.reported \ D
    /\ sc.detectors = IF sc.found = {} THEN Three ELSE <<>>
    /\ sc.finished = 0

\* One of the other detectors is at work.
Trying(sc, D, k, rest) ==
    /\ sc.api = "idle" /\ D = {k} /\ sc.detectors = rest
    /\ sc.reported = {} /\ sc.found = {} /\ sc.finished = 0

Over(sc, D) ==
    /\ sc.api = "idle" /\ D = {} /\ sc.detectors = <<>> /\ sc.finished = 1
    /\ sc.reported \subseteq sc.found
    /\ sc.reported # {} => sc.found \subseteq sc.reported

Phase(sc, D) ==
    \/ Asking(sc, D)
    \/ Probing(sc, D)
    \/ Trying(sc, D, "SunspecDetector", Two)
    \/ Trying(sc, D, "SMADetector", <<>>)
    \/ Over(sc, D)

\* A step of HostDetection, seen on two scans.
Steps(a, b) ==
    \/ /\ a.finished = 0 /\ a.found \subseteq b.found /\ a.found # b.found
       /\ b.detectors = <<>> /\ b.finished \in {0, 1}
    \/ /\ a.finished = 0 /\ a.found = {} /\ b.found = a.found /\ b.finished = a.finished
       /\ \/ a.detectors = Three /\ b.detectors = Two
          \/ a.detectors = Two /\ b.detectors = <<>>
    \/ /\ a.finished = 0 /\ a.detectors = <<>> /\ b.detectors = <<>>
       /\ b.found = a.found /\ b.finished = 1
    \/ b.detectors = a.detectors /\ b.found = a.found /\ b.finished = a.finished

Fine(s) == IsPair(s) /\ ProbesOK(s.probes) /\ Phase(s.scan, DOMAIN s.probes)

\* A handler that only goes on asking.
Quiet(s, t) ==
    /\ IsPair(t)
    /\ ProbesOK(t.probes)
    /\ DOMAIN t.probes = DOMAIN s.probes
    /\ \A f \in ScanFields \ {"wrapped"} : t.scan[f] = s.scan[f]

----------------------------------------------------------------------------
\* The lists of detectors.
LEMMA DetectorLists ==
    /\ Three # <<>> /\ Head(Three) = "SunspecDetector" /\ Len(Three) = 2
    /\ Two # <<>> /\ Head(Two) = "SMADetector" /\ Tail(Two) = <<>> /\ Len(Two) = 1
    /\ Three # Two
<1>1. Three = <<"SunspecDetector", "SMADetector">>
  BY DEF Three, Detectors
<1>2. Two = <<"SMADetector">>
  BY <1>1 DEF Two
<1> QED BY <1>1, <1>2

\* HostScan::scan with no detector left.
LEMMA ScanEnds ==
    ASSUME NEW s, IsPair(s), ProbesOK(s.probes), s.scan.detectors = <<>>
    PROVE  /\ IsPair(Scan(s)) /\ Scan(s).probes = s.probes
           /\ Scan(s).scan.finished = s.scan.finished + 1
           /\ \A f \in ScanFields \ {"finished"} : Scan(s).scan[f] = s.scan[f]
<1>1. Scan(s) = [s EXCEPT !.scan.finished = @ + 1]
  BY DEF Scan
<1> QED BY <1>1 DEF IsPair, ScanFields

\* A new probe begins in a state its detector knows.
LEMMA NewProbeOK ==
    ASSUME NEW k
    PROVE  /\ DOMAIN NewProbe(k) = ProbeFields
           /\ NewProbe(k).state \in SMAStates \cup SunspecStates
  BY DEF NewProbe, ProbeFields, SMAStates, SunspecStates, SMANext

\* start of one or several probes: each of the given keys gets one.
LEMMA ProbesStarted ==
    ASSUME NEW s, IsPair(s), ProbesOK(s.probes), NEW keys
    PROVE  /\ IsPair(StartProbes(s, keys)) /\ ProbesOK(StartProbes(s, keys).probes)
           /\ StartProbes(s, keys).scan = s.scan
           /\ DOMAIN StartProbes(s, keys).probes = keys \cup DOMAIN s.probes
<1> DEFINE p == [k \in keys \cup DOMAIN s.probes |->
                    IF k \in keys THEN NewProbe(k) ELSE s.probes[k]]
<1>1. ProbesOK(p) /\ DOMAIN p = keys \cup DOMAIN s.probes
  BY NewProbeOK DEF ProbesOK
<1>2. StartProbes(s, keys) = [s EXCEPT !.probes = p]
  BY DEF StartProbes
<1> HIDE DEF p
<1> QED BY <1>1, <1>2 DEF IsPair

\* HostScan::scan with a detector left that probes by itself.
LEMMA ScanGoesOn ==
    ASSUME NEW s, IsPair(s), ProbesOK(s.probes), s.scan.detectors \in {Three, Two}
    PROVE  /\ IsPair(Scan(s)) /\ ProbesOK(Scan(s).probes)
           /\ DOMAIN Scan(s).probes = {Head(s.scan.detectors)} \cup DOMAIN s.probes
           /\ Scan(s).scan.detectors = Tail(s.scan.detectors)
           /\ \A f \in ScanFields \ {"detectors"} : Scan(s).scan[f] = s.scan[f]
<1> DEFINE t == [s EXCEPT !.scan.detectors = Tail(@)]
<1>1. s.scan.detectors # <<>> /\ Head(s.scan.detectors) # "SolarApiDetector"
  BY DetectorLists
<1>2. Scan(s) = StartProbes(t, {Head(s.scan.detectors)})
  BY <1>1 DEF Scan
<1>3. /\ IsPair(t) /\ t.probes = s.probes
      /\ t.scan.detectors = Tail(s.scan.detectors)
      /\ \A f \in ScanFields \ {"detectors"} : t.scan[f] = s.scan[f]
  BY DEF IsPair, ScanFields
<1> HIDE DEF t
<1> QED BY <1>2, <1>3, ProbesStarted

----------------------------------------------------------------------------
(* The end of a probe.                                                     *)

\* A probe is removed before its end is announced.
Removed(s, k) == [s EXCEPT !.probes = Restrict(@, DOMAIN @ \ {k})]

\* Removing a probe leaves the scan and the other probes alone.
LEMMA RemovedKeeps ==
    ASSUME NEW s, IsPair(s), ProbesOK(s.probes), NEW k
    PROVE  /\ IsPair(Removed(s, k)) /\ ProbesOK(Removed(s, k).probes)
           /\ Removed(s, k).scan = s.scan
           /\ DOMAIN Removed(s, k).probes = DOMAIN s.probes \ {k}
<1> DEFINE p == Restrict(s.probes, DOMAIN s.probes \ {k})
<1>1. ProbesOK(p) /\ DOMAIN p = DOMAIN s.probes \ {k}
  BY DEF Restrict, ProbesOK
<1>2. Removed(s, k) = [s EXCEPT !.probes = p]
  BY DEF Removed
<1> HIDE DEF p
<1> QED BY <1>1, <1>2 DEF IsPair

\* The detection of the Solar API ends with its last SunSpec detection: sc is
\* the scan, in which i has been settled.
LEMMA CheckedFine ==
    ASSUME NEW s, IsPair(s), ProbesOK(s.probes),
           s.scan.api = "idle", s.scan.finished = 0, s.scan.detectors = <<>>,
           DOMAIN s.probes \subseteq Inverters,
           DOMAIN s.scan.deviceFound = DOMAIN s.probes,
           \A i \in DOMAIN s.probes : ~s.scan.deviceFound[i],
           DOMAIN s.probes \subseteq s.scan.reported,
           s.scan.found = s.scan.reported \ DOMAIN s.probes,
           s.scan.found # {}
    PROVE  /\ Fine(CheckFinished(s))
           /\ CheckFinished(s).scan.detectors = <<>>
           /\ CheckFinished(s).scan.found = s.scan.found
           /\ CheckFinished(s).scan.finished \in {0, 1}
           /\ CheckFinished(s).probes = s.probes
<1>1. CASE DOMAIN s.probes # {}
  <2>1. CheckFinished(s) = s
    BY <1>1 DEF CheckFinished
  <2>2. Probing(s.scan, DOMAIN s.probes)
    BY <1>1 DEF Probing
  <2> QED BY <2>1, <2>2 DEF Fine, Phase
<1>2. CASE DOMAIN s.probes = {}
  <2>1. CheckFinished(s) = Scan(s)
    BY <1>2 DEF CheckFinished
  <2>2. /\ IsPair(Scan(s)) /\ Scan(s).probes = s.probes
        /\ Scan(s).scan.finished = s.scan.finished + 1
        /\ \A f \in ScanFields \ {"finished"} : Scan(s).scan[f] = s.scan[f]
    BY ScanEnds
  <2>3. Over(Scan(s).scan, {})
    BY <1>2, <2>2 DEF Over, ScanFields
  <2>4. Fine(Scan(s))
    BY <1>2, <2>2, <2>3 DEF Fine, Phase
  <2>5. /\ Scan(s).scan.detectors = <<>> /\ Scan(s).scan.found = s.scan.found
        /\ Scan(s).scan.finished = 1
    BY <2>2 DEF ScanFields
  <2> QED BY <2>1, <2>2, <2>4, <2>5
<1> QED BY <1>1, <1>2

\* A SunSpec detection of the Solar API ends, whether or not it has found its
\* inverter: the inverter is announced.
LEMMA InverterDone ==
    ASSUME NEW s, IsPair(s), ProbesOK(s.probes),
           Probing(s.scan, DOMAIN s.probes), NEW i \in DOMAIN s.probes,
           NEW t \in {s, SetResult(s, i)}
    PROVE  /\ Fine(SetDone(t, i)) /\ Steps(s.scan, SetDone(t, i).scan)
           /\ i \notin DOMAIN SetDone(t, i).probes
<1> DEFINE D == DOMAIN s.probes
           r == Removed(t, i)
           c == [r EXCEPT !.scan.deviceFound = Restrict(@, DOMAIN @ \ {i})]
           e == IF r.scan.deviceFound[i] THEN c ELSE DeviceFound(c, i)
<1>1. i \in Inverters /\ i \notin s.scan.found /\ i \in s.scan.reported
  BY DEF Probing
<1>2. /\ IsPair(t) /\ t.probes = s.probes
      /\ \A f \in ScanFields \ {"detectors", "deviceFound", "found"} : t.scan[f] = s.scan[f]
      /\ DOMAIN t.scan.deviceFound = D
      /\ \A j \in D \ {i} : ~t.scan.deviceFound[j]
      /\ \/ /\ t.scan.deviceFound[i]
            /\ t.scan.detectors = <<>> /\ t.scan.found = s.scan.found \cup {i}
         \/ /\ ~t.scan.deviceFound[i]
            /\ t.scan.found = s.scan.found
  <2>1. CASE t = s
    BY <2>1 DEF Probing, ScanFields
  <2>2. CASE t = SetResult(s, i)
    <3> DEFINE d == [s EXCEPT !.scan.deviceFound[i] = TRUE]
    <3>1. t = DeviceFound(d, i)
      BY <1>1, <2>2 DEF SetResult, OnSunspecDeviceFound
    <3>2. /\ IsPair(d) /\ d.probes = s.probes
          /\ \A f \in ScanFields \ {"deviceFound"} : d.scan[f] = s.scan[f]
          /\ DOMAIN d.scan.deviceFound = D
          /\ d.scan.deviceFound[i]
          /\ \A j \in D \ {i} : ~d.scan.deviceFound[j]
      BY DEF IsPair, ScanFields, Probing
    <3> HIDE DEF d
    <3>3. /\ IsPair(t) /\ t.probes = d.probes
          /\ t.scan.detectors = <<>> /\ t.scan.found = d.scan.found \cup {i}
          /\ \A f \in ScanFields \ {"detectors", "found"} : t.scan[f] = d.scan[f]
      BY <3>1, <3>2 DEF DeviceFound, IsPair, ScanFields
    <3> QED BY <3>2, <3>3 DEF ScanFields
  <2> QED BY <2>1, <2>2
<1>3. /\ IsPair(r) /\ ProbesOK(r.probes) /\ r.scan = t.scan /\ DOMAIN r.probes = D \ {i}
  BY <1>2, RemovedKeeps
<1>4. SetDone(t, i) = CheckFinished(e)
  BY <1>1, <1>2 DEF SetDone, OnSunspecDone, Removed
<1>5. /\ IsPair(c) /\ c.probes = r.probes
      /\ \A f \in ScanFields \ {"deviceFound"} : c.scan[f] = t.scan[f]
      /\ DOMAIN c.scan.deviceFound = D \ {i}
      /\ \A j \in D \ {i} : ~c.scan.deviceFound[j]
  <2> DEFINE df == Restrict(t.scan.deviceFound, D \ {i})
  <2>1. DOMAIN df = D \ {i} /\ \A j \in D \ {i} : ~df[j]
    BY <1>2 DEF Restrict
  <2>2. c = [r EXCEPT !.scan.deviceFound = df]
    BY <1>2, <1>3
  <2> HIDE DEF c, df, r
  <2> QED BY <1>3, <2>1, <2>2 DEF IsPair, ScanFields
<1> HIDE DEF c, r
<1>6. /\ IsPair(e) /\ e.probes = r.probes
      /\ \A f \in ScanFields \ {"detectors", "found"} : e.scan[f] = c.scan[f]
      /\ e.scan.detectors = <<>> /\ e.scan.found = s.scan.found \cup {i}
  <2>1. CASE r.scan.deviceFound[i]
    BY <1>2, <1>3, <1>5, <2>1 DEF ScanFields
  <2>2. CASE ~r.scan.deviceFound[i]
    <3>1. e = DeviceFound(c, i) /\ c.scan.found = s.scan.found
      BY <1>2, <1>3, <1>5, <2>2 DEF ScanFields
    <3> HIDE DEF e
    <3> QED BY <1>5, <3>1 DEF DeviceFound, IsPair, ScanFields
  <2> QED BY <2>1, <2>2
<1> HIDE DEF e
<1>7. /\ e.scan.api = "idle" /\ e.scan.finished = 0 /\ e.scan.reported = s.scan.reported
      /\ e.scan.deviceFound = c.scan.deviceFound
  BY <1>2, <1>5, <1>6 DEF Probing, ScanFields
<1>8. e.scan.found = e.scan.reported \ DOMAIN e.probes
  BY <1>1, <1>3, <1>6, <1>7 DEF Probing
<1>9. /\ Fine(CheckFinished(e))
      /\ CheckFinished(e).scan.detectors = <<>>
      /\ CheckFinished(e).scan.found = e.scan.found
      /\ CheckFinished(e).scan.finished \in {0, 1}
      /\ CheckFinished(e).probes = e.probes
  <2>1. /\ DOMAIN e.probes = D \ {i} /\ D \subseteq Inverters /\ D \subseteq s.scan.reported
        /\ ProbesOK(e.probes) /\ e.scan.found # {}
    BY <1>3, <1>6 DEF Probing
  <2> QED BY <1>5, <1>6, <1>7, <1>8, <2>1, CheckedFine
<1>10. Steps(s.scan, CheckFinished(e).scan)
  BY <1>1, <1>6, <1>9 DEF Steps, Probing
<1> QED BY <1>3, <1>4, <1>6, <1>9, <1>10

\* A detector that asks by itself ends without a device.
LEMMA DetectorFails ==
    ASSUME NEW s, IsPair(s), ProbesOK(s.probes), NEW k,
           \/ Trying(s.scan, DOMAIN s.probes, "SunspecDetector", Two) /\ k = "SunspecDetector"
           \/ Trying(s.scan, DOMAIN s.probes, "SMADetector", <<>>) /\ k = "SMADetector"
    PROVE  /\ Fine(SetDone(s, k)) /\ Steps(s.scan, SetDone(s, k).scan)
           /\ k \notin DOMAIN SetDone(s, k).probes
<1> DEFINE r == Removed(s, k)
<1>1. k \notin Inverters /\ k \in DOMAIN s.probes
  BY InverterAssumption DEF Trying
<1>2. SetDone(s, k) = Scan(r)
  BY <1>1 DEF SetDone, Removed
<1>3. /\ IsPair(r) /\ ProbesOK(r.probes) /\ r.scan = s.scan /\ DOMAIN r.probes = {}
  BY RemovedKeeps DEF Trying
<1> HIDE DEF r
<1>4. CASE k = "SunspecDetector"
  <2>1. Trying(s.scan, DOMAIN s.probes, "SunspecDetector", Two)
    BY <1>4
  <2>2. r.scan.detectors = Two /\ Head(Two) = "SMADetector" /\ Tail(Two) = <<>>
    BY <1>3, <2>1, DetectorLists DEF Trying
  <2>3. /\ IsPair(Scan(r)) /\ ProbesOK(Scan(r).probes)
        /\ DOMAIN Scan(r).probes = {"SMADetector"}
        /\ Scan(r).scan.detectors = <<>>
        /\ \A f \in ScanFields \ {"detectors"} : Scan(r).scan[f] = s.scan[f]
    BY <1>3, <2>2, ScanGoesOn
  <2>4. Trying(Scan(r).scan, {"SMADetector"}, "SMADetector", <<>>)
    BY <2>1, <2>3 DEF Trying, ScanFields
  <2>5. Steps(s.scan, Scan(r).scan)
    BY <2>1, <2>3, DetectorLists DEF Trying, Steps, ScanFields
  <2>6. Fine(Scan(r))
    BY <2>3, <2>4 DEF Fine, Phase
  <2>7. k \notin DOMAIN Scan(r).probes
    BY <1>4, <2>3
  <2> QED BY <1>2, <2>5, <2>6, <2>7
<1>5. CASE k = "SMADetector"
  <2>1. Trying(s.scan, DOMAIN s.probes, "SMADetector", <<>>)
    BY <1>5
  <2>2. /\ IsPair(Scan(r)) /\ Scan(r).probes = r.probes
        /\ Scan(r).scan.finished = r.scan.finished + 1
        /\ \A f \in ScanFields \ {"finished"} : Scan(r).scan[f] = r.scan[f]
    BY <1>3, <2>1, ScanEnds DEF Trying
  <2>3. Over(Scan(r).scan, {})
    BY <1>3, <2>1, <2>2 DEF Trying, Over, ScanFields
  <2>4. Steps(s.scan, Scan(r).scan)
    BY <1>3, <2>1, <2>2 DEF Trying, Steps, ScanFields
  <2> QED BY <1>2, <1>3, <2>2, <2>3, <2>4 DEF Fine, Phase
<1> QED BY <1>4, <1>5

\* A detector that asks by itself has found its device and ends.
LEMMA DetectorFinds ==
    ASSUME NEW s, IsPair(s), ProbesOK(s.probes), NEW k \in {"SunspecDetector", "SMADetector"},
           NEW rest, Trying(s.scan, DOMAIN s.probes, k, rest)
    PROVE  /\ Fine(SetDone(SetResult(s, k), k))
           /\ Steps(s.scan, SetDone(SetResult(s, k), k).scan)
           /\ k \notin DOMAIN SetDone(SetResult(s, k), k).probes
<1> DEFINE t == SetResult(s, k)
           r == Removed(t, k)
<1>1. k \notin Inverters /\ DOMAIN s.probes = {k}
  BY InverterAssumption DEF Trying
<1>2. t = DeviceFound(s, k)
  BY <1>1 DEF SetResult
<1>3. /\ IsPair(t) /\ t.probes = s.probes
      /\ t.scan.detectors = <<>> /\ t.scan.found = s.scan.found \cup {k}
      /\ \A f \in ScanFields \ {"detectors", "found"} : t.scan[f] = s.scan[f]
  <2> HIDE DEF t
  <2> QED BY <1>2 DEF DeviceFound, IsPair, ScanFields
<1> HIDE DEF t
<1>4. SetDone(t, k) = Scan(r)
  BY <1>1, <1>3 DEF SetDone, Removed
<1>5. /\ IsPair(r) /\ ProbesOK(r.probes) /\ r.scan = t.scan /\ DOMAIN r.probes = {}
  BY <1>1, <1>3, RemovedKeeps
<1> HIDE DEF r
<1>6. /\ IsPair(Scan(r)) /\ Scan(r).probes = r.probes
      /\ Scan(r).scan.finished = r.scan.finished + 1
      /\ \A f \in ScanFields \ {"finished"} : Scan(r).scan[f] = r.scan[f]
  BY <1>3, <1>5, ScanEnds
<1>7. Over(Scan(r).scan, {})
  BY <1>3, <1>5, <1>6 DEF Trying, Over, ScanFields
<1>8. Steps(s.scan, Scan(r).scan)
  <2>1. s.scan.finished = 0 /\ s.scan.found = {}
    BY DEF Trying
  <2>2. Scan(r).scan.detectors = <<>> /\ Scan(r).scan.found = {k} /\ Scan(r).scan.finished = 1
    BY <1>3, <1>5, <1>6, <2>1 DEF ScanFields
  <2> QED BY <2>1, <2>2 DEF Steps
<1>9. Fine(Scan(r))
  BY <1>5, <1>6, <1>7 DEF Fine, Phase
<1>10. k \notin DOMAIN Scan(r).probes
  BY <1>5, <1>6
<1> QED BY <1>4, <1>8, <1>9, <1>10 DEF t

\* The end of any probe, whether or not it has found its device.
LEMMA ProbeDone ==
    ASSUME NEW s, Fine(s), NEW k \in DOMAIN s.probes, NEW t \in {s, SetResult(s, k)}
    PROVE  /\ Fine(SetDone(t, k)) /\ Steps(s.scan, SetDone(t, k).scan)
           /\ k \notin DOMAIN SetDone(t, k).probes
<1>1. IsPair(s) /\ ProbesOK(s.probes)
  BY DEF Fine
<1>2. CASE Probing(s.scan, DOMAIN s.probes)
  BY <1>1, <1>2, InverterDone
<1>3. CASE Trying(s.scan, DOMAIN s.probes, "SunspecDetector", Two)
  <2>1. k = "SunspecDetector"
    BY <1>3 DEF Trying
  <2> QED BY <1>1, <1>3, <2>1, DetectorFails, DetectorFinds
<1>4. CASE Trying(s.scan, DOMAIN s.probes, "SMADetector", <<>>)
  <2>1. k = "SMADetector"
    BY <1>4 DEF Trying
  <2> QED BY <1>1, <1>4, <2>1, DetectorFails, DetectorFinds
<1>5. DOMAIN s.probes # {}
  OBVIOUS
<1> QED BY <1>2, <1>3, <1>4, <1>5 DEF Fine, Phase, Asking, Over

----------------------------------------------------------------------------
(* The handlers of a probe.                                                *)

\* What only goes on asking changes nothing else.
LEMMA QuietFine ==
    ASSUME NEW s, Fine(s), NEW t, Quiet(s, t)
    PROVE  Fine(t) /\ Steps(s.scan, t.scan)
<1>1. /\ t.scan.detectors = s.scan.detectors /\ t.scan.api = s.scan.api
      /\ t.scan.deviceFound = s.scan.deviceFound /\ t.scan.reported = s.scan.reported
      /\ t.scan.found = s.scan.found /\ t.scan.finished = s.scan.finished
  BY DEF Quiet, ScanFields
<1>2. CASE Asking(s.scan, DOMAIN s.probes)
  BY <1>1, <1>2 DEF Asking, Fine, Phase, Quiet, Steps
<1>3. CASE Probing(s.scan, DOMAIN s.probes)
  BY <1>1, <1>3 DEF Probing, Fine, Phase, Quiet, Steps
<1>4. CASE Trying(s.scan, DOMAIN s.probes, "SunspecDetector", Two)
  BY <1>1, <1>4 DEF Trying, Fine, Phase, Quiet, Steps
<1>5. CASE Trying(s.scan, DOMAIN s.probes, "SMADetector", <<>>)
  BY <1>1, <1>5 DEF Trying, Fine, Phase, Quiet, Steps
<1>6. CASE Over(s.scan, DOMAIN s.probes)
  BY <1>1, <1>6 DEF Over, Fine, Phase, Quiet, Steps
<1> QED BY <1>2, <1>3, <1>4, <1>5, <1>6 DEF Fine, Phase

\* Two quiet handlers in a row.
LEMMA QuietTwice ==
    ASSUME NEW s, NEW t, NEW u, Quiet(s, t), Quiet(t, u)
    PROVE  Quiet(s, u)
  BY DEF Quiet

\* A pair whose probe k alone is changed.
LEMMA ProbeChanged ==
    ASSUME NEW s, IsPair(s), ProbesOK(s.probes), NEW k \in DOMAIN s.probes, NEW p,
           DOMAIN p = ProbeFields, p.state \in SMAStates \cup SunspecStates
    PROVE  /\ Quiet(s, [s EXCEPT !.probes[k] = p])
           /\ [s EXCEPT !.probes[k] = p].probes[k] = p
<1> DEFINE q == [s.probes EXCEPT ![k] = p]
<1>1. ProbesOK(q) /\ DOMAIN q = DOMAIN s.probes /\ q[k] = p
  BY DEF ProbesOK
<1>2. [s EXCEPT !.probes[k] = p] = [s EXCEPT !.probes = q]
  BY DEF IsPair
<1> HIDE DEF q
<1>3. /\ IsPair([s EXCEPT !.probes = q]) /\ [s EXCEPT !.probes = q].probes = q
      /\ [s EXCEPT !.probes = q].scan = s.scan
  BY DEF IsPair
<1> QED BY <1>1, <1>2, <1>3 DEF Quiet

\* startNextRequest.
LEMMA AskQuiet ==
    ASSUME NEW s, IsPair(s), ProbesOK(s.probes), NEW k \in DOMAIN s.probes,
           NEW state \in SMAStates \cup SunspecStates
    PROVE  Quiet(s, Ask(s, k, state))
<1> DEFINE p == [s.probes[k] EXCEPT !.state = state,
                                    !.client = SendFrame(@, state, 0)]
<1>1. DOMAIN p = ProbeFields /\ p.state \in SMAStates \cup SunspecStates
  <2>1. DOMAIN s.probes[k] = ProbeFields
    BY DEF ProbesOK
  <2> QED BY <2>1 DEF ProbeFields
<1>2. Ask(s, k, state) = [s EXCEPT !.probes[k] = p]
  <2>1. [s.probes EXCEPT ![k].state = state, ![k].client = SendFrame(@, state, 0)]
         = [s.probes EXCEPT ![k] = p]
    BY DEF ProbesOK, ProbeFields
  <2> QED BY <2>1 DEF Ask, IsPair
<1> HIDE DEF p
<1> QED BY <1>1, <1>2, ProbeChanged

\* The walk over the models goes on.
LEMMA AdvanceQuiet ==
    ASSUME NEW s, IsPair(s), ProbesOK(s.probes), NEW k \in DOMAIN s.probes,
           NEW size, NEW state \in SMAStates \cup SunspecStates
    PROVE  Quiet(s, Advance(s, k, size, state))
<1> DEFINE next == s.probes[k].currentRegister + 2 + size
           p == [s.probes[k] EXCEPT !.currentRegister = next % Registers]
           u == [s EXCEPT !.probes[k] = p]
           t == [u EXCEPT !.scan.wrapped = @ \/ next >= Registers]
<1>1. Advance(s, k, size, state) = Ask(t, k, state)
  <2>1. [s EXCEPT !.probes[k].currentRegister = next % Registers,
                  !.scan.wrapped = @ \/ next >= Registers] = t
    BY DEF IsPair
  <2> QED BY <2>1 DEF Advance
<1>2. Quiet(s, u)
  <2>1. DOMAIN p = ProbeFields /\ p.state \in SMAStates \cup SunspecStates
    BY DEF ProbesOK, ProbeFields
  <2> HIDE DEF p
  <2> QED BY <2>1, ProbeChanged
<1> HIDE DEF u
<1>3. Quiet(u, t)
  BY <1>2 DEF Quiet, IsPair, ScanFields
<1>4. Quiet(s, t)
  BY <1>2, <1>3, QuietTwice
<1> HIDE DEF t
<1>5. Quiet(t, Ask(t, k, state))
  BY <1>4, AskQuiet DEF Quiet
<1> QED BY <1>1, <1>4, <1>5, QuietTwice

\* A probe notes what it has seen.
LEMMA NotedQuiet ==
    ASSUME NEW s, IsPair(s), ProbesOK(s.probes), NEW k \in DOMAIN s.probes, NEW b
    PROVE  /\ Quiet(s, [s EXCEPT !.probes[k].phased = b])
           /\ Quiet(s, [s EXCEPT !.probes[k].named = b])
<1>1. [s EXCEPT !.probes[k].phased = b] =
        [s EXCEPT !.probes[k] = [s.probes[k] EXCEPT !.phased = b]]
  BY DEF IsPair
<1>2. [s EXCEPT !.probes[k].named = b] =
        [s EXCEPT !.probes[k] = [s.probes[k] EXCEPT !.named = b]]
  BY DEF IsPair
<1>3. /\ DOMAIN s.probes[k] = ProbeFields
      /\ s.probes[k].state \in SMAStates \cup SunspecStates
  BY DEF ProbesOK
<1>4. Quiet(s, [s EXCEPT !.probes[k] = [s.probes[k] EXCEPT !.phased = b]])
  BY <1>3, ProbeChanged DEF ProbeFields
<1>5. Quiet(s, [s EXCEPT !.probes[k] = [s.probes[k] EXCEPT !.named = b]])
  BY <1>3, ProbeChanged DEF ProbeFields
<1> QED BY <1>1, <1>2, <1>4, <1>5

\* onFinished: a quiet step or the end of the probe.
Outcome(s, k, t) ==
    \/ Quiet(s, t)
    \/ t = SetDone(s, k)
    \/ t = SetDone(SetResult(s, k), k)

\* What the registers may tell in a state.
Heard(state) == Values(state) \cup {Nothing}

\* Behind the header of a model the walk goes on, or the detection ends.
LEMMA ModuleHeaderOutcome ==
    ASSUME NEW s, IsPair(s), ProbesOK(s.probes), NEW k \in DOMAIN s.probes,
           s.probes[k].state = "ModuleHeader",
           NEW v \in Values("ModuleHeader"), v.id # None
    PROVE  Outcome(s, k, OnModuleHeader(s, k, v))
<1>1. v.id \in {"inverter", "data", "end", "other"}
  <2>1. "ModuleHeader" \notin SMAStates
    BY DEF SMAStates, SMANext
  <2> DEFINE ids == {"inverter", "data", "end"} \cup {"other", None}
  <2>2. Values("ModuleHeader") = [id : ids, size : Sizes]
    BY <2>1 DEF Values
  <2> HIDE DEF ids
  <2>3. v.id \in ids
    BY <2>2
  <2> QED BY <2>3 DEF ids
<1>2. "ModuleHeader" \in SunspecStates /\ "ModuleContent" \in SunspecStates
  BY DEF SunspecStates
<1>3. CASE v.id = "end"
  <2>1. OnModuleHeader(s, k, v) = SetDone(IF s.probes[k].named /\ s.probes[k].phased
                                          THEN SetResult(s, k) ELSE s, k)
    BY <1>3 DEF OnModuleHeader
  <2> QED BY <2>1 DEF Outcome
<1>4. CASE v.id = "data"
  <2>1. OnModuleHeader(s, k, v) = Ask(s, k, "ModuleContent")
    BY <1>4 DEF OnModuleHeader
  <2> QED BY <1>2, <2>1, AskQuiet DEF Outcome
<1>5. CASE v.id = "inverter"
  <2> DEFINE t == [s EXCEPT !.probes[k].phased = TRUE]
  <2>1. OnModuleHeader(s, k, v) = Advance(t, k, v.size, "ModuleHeader")
    BY <1>5 DEF OnModuleHeader
  <2>2. Quiet(s, t)
    BY NotedQuiet
  <2> HIDE DEF t
  <2>3. Quiet(t, Advance(t, k, v.size, "ModuleHeader"))
    BY <1>2, <2>2, AdvanceQuiet DEF Quiet
  <2> QED BY <2>1, <2>2, <2>3, QuietTwice DEF Outcome
<1>6. CASE v.id = "other"
  <2>1. OnModuleHeader(s, k, v) = Advance(s, k, v.size, "ModuleHeader")
    BY <1>6 DEF OnModuleHeader
  <2> QED BY <1>2, <2>1, AdvanceQuiet DEF Outcome
<1> QED BY <1>1, <1>3, <1>4, <1>5, <1>6

\* Behind the content of a model the walk goes on, or an SMA inverter ends it.
LEMMA ModuleContentOutcome ==
    ASSUME NEW s, IsPair(s), ProbesOK(s.probes), NEW k \in DOMAIN s.probes, NEW v
    PROVE  Outcome(s, k, OnModuleContent(s, k, v))
<1> DEFINE b == s.probes[k].named \/ v.id = "common"
           t == [s EXCEPT !.probes[k].named = b]
<1>1. CASE v.id = "SMA"
  BY <1>1 DEF OnModuleContent, Outcome
<1>2. CASE v.id # "SMA"
  <2>1. OnModuleContent(s, k, v) = Advance(t, k, v.size, "ModuleHeader")
    BY <1>2 DEF OnModuleContent
  <2>2. Quiet(s, t)
    BY NotedQuiet
  <2> HIDE DEF t
  <2>3. Quiet(t, Advance(t, k, v.size, "ModuleHeader"))
    BY <2>2, AdvanceQuiet DEF Quiet, SunspecStates
  <2> QED BY <2>1, <2>2, <2>3, QuietTwice DEF Outcome
<1> QED BY <1>1, <1>2

\* onFinished of both detectors.
LEMMA FinishedOutcome ==
    ASSUME NEW s, IsPair(s), ProbesOK(s.probes), NEW k \in DOMAIN s.probes,
           NEW v \in Heard(s.probes[k].state)
    PROVE  Outcome(s, k, OnFinished(s, k, v))
<1> DEFINE state == s.probes[k].state
<1>1. state \in SMAStates \cup SunspecStates
  BY DEF ProbesOK
<1>2. CASE v.id = None
  BY <1>2 DEF OnFinished, Outcome
<1>0. DOMAIN SMANext \cap {"SunSpecHeader", "ModuleHeader", "ModuleContent"} = {}
  BY DEF SMANext
<1>3. CASE v.id # None /\ state = "SunSpecHeader"
  <2>1. OnFinished(s, k, v) =
          IF v.id = "SunS" THEN Advance(s, k, 0, "ModuleContent") ELSE SetDone(s, k)
    BY <1>0, <1>3 DEF OnFinished
  <2>2. Quiet(s, Advance(s, k, 0, "ModuleContent"))
    BY AdvanceQuiet DEF SunspecStates
  <2> QED BY <2>1, <2>2 DEF Outcome
<1>4. CASE v.id # None /\ state = "ModuleHeader"
  <2>1. OnFinished(s, k, v) = OnModuleHeader(s, k, v)
    BY <1>0, <1>4 DEF OnFinished
  <2>2. v \in Values("ModuleHeader")
    BY <1>4 DEF Heard, Nothing
  <2> QED BY <1>4, <2>1, <2>2, ModuleHeaderOutcome
<1>5. CASE v.id # None /\ state = "ModuleContent"
  <2>1. OnFinished(s, k, v) = OnModuleContent(s, k, v)
    BY <1>0, <1>5 DEF OnFinished
  <2> QED BY <2>1, ModuleContentOutcome
<1>6. CASE v.id # None /\ state = "ReadPowerLimit"
  <2>1. OnFinished(s, k, v) = SetDone(SetResult(s, k), k)
    BY <1>6 DEF OnFinished, SMANext
  <2> QED BY <2>1 DEF Outcome
<1>7. CASE v.id # None /\ state \in DOMAIN SMANext
  <2>1. /\ state \notin {"SunSpecHeader", "ModuleHeader", "ModuleContent", "ReadPowerLimit"}
        /\ SMANext[state] \in SMAStates
    BY <1>7 DEF SMANext, SMAStates
  <2>2. OnFinished(s, k, v) =
          IF v.id = "other" /\ state \in {"ReadDeviceClass", "ReadDeviceType"}
          THEN SetDone(s, k) ELSE Ask(s, k, SMANext[state])
    BY <1>7, <2>1 DEF OnFinished
  <2>3. Quiet(s, Ask(s, k, SMANext[state]))
    BY <2>1, AskQuiet
  <2> QED BY <2>2, <2>3 DEF Outcome
<1> QED BY <1>1, <1>2, <1>3, <1>4, <1>5, <1>6, <1>7 DEF SMAStates, SunspecStates

\* The end of a request: the reply finishes on a pair that differs from s in
\* the client of k only.
LEMMA OutcomeFine ==
    ASSUME NEW s, Fine(s), NEW u, Quiet(s, u), NEW k \in DOMAIN s.probes,
           NEW t, Outcome(u, k, t)
    PROVE  Fine(t) /\ Steps(s.scan, t.scan)
<1>1. Fine(u) /\ Steps(s.scan, u.scan)
  BY QuietFine
<1>2. CASE Quiet(u, t)
  BY <1>2, QuietFine, QuietTwice
<1>3. CASE t = SetDone(u, k) \/ t = SetDone(SetResult(u, k), k)
  <2>1. k \in DOMAIN u.probes
    BY DEF Quiet
  <2>2. Fine(t) /\ Steps(u.scan, t.scan)
    BY <1>1, <1>3, <2>1, ProbeDone
  <2>3. /\ u.scan.detectors = s.scan.detectors /\ u.scan.found = s.scan.found
        /\ u.scan.finished = s.scan.finished
    BY DEF Quiet, ScanFields
  <2>4. Steps(s.scan, t.scan)
    BY <2>2, <2>3 DEF Steps
  <2> QED BY <2>2, <2>4
<1> QED BY <1>2, <1>3 DEF Outcome

----------------------------------------------------------------------------
(* The invariant, and the steps.                                           *)

Whole == [scan |-> scan, probes |-> probes]

IInv == Fine(Whole)

\* What an action has to show of the pair it leaves behind.
LEMMA Became ==
    ASSUME NEW t, Fine(t), Steps(scan, t.scan), Becomes(t)
    PROVE  IInv' /\ Steps(scan, scan')
<1>1. scan' = t.scan /\ probes' = t.probes
  BY DEF Becomes
<1>2. Whole'.scan = t.scan /\ Whole'.probes = t.probes /\ IsPair(Whole')
  BY <1>1 DEF Whole, Fine, IsPair
<1> QED BY <1>1, <1>2 DEF IInv, Fine

\* Nothing but the client of k differs.
LEMMA WithQuiet ==
    ASSUME IInv, NEW k \in DOMAIN probes, NEW c
    PROVE  /\ Quiet(Whole, With(k, c))
           /\ With(k, c).probes[k].state = probes[k].state
           /\ k \in DOMAIN With(k, c).probes
<1> DEFINE p == [probes EXCEPT ![k].client = c]
<1>1. /\ ProbesOK(p) /\ DOMAIN p = DOMAIN probes
      /\ p[k].state = probes[k].state
  BY DEF IInv, Fine, Whole, ProbesOK, ProbeFields
<1>2. With(k, c) = [scan |-> scan, probes |-> p]
  BY DEF With
<1> HIDE DEF p
<1>3. IsPair(With(k, c)) /\ With(k, c).scan = scan /\ With(k, c).probes = p
  BY <1>2 DEF IInv, Fine, Whole, IsPair
<1> QED BY <1>1, <1>3 DEF Quiet, Whole

\* A reply finishes, whatever its registers tell.
LEMMA HeardFine ==
    ASSUME IInv, NEW k \in DOMAIN probes, NEW c, NEW v \in Heard(probes[k].state),
           Becomes(OnFinished(With(k, c), k, v))
    PROVE  IInv' /\ Steps(scan, scan')
<1> DEFINE u == With(k, c)
<1>1. Quiet(Whole, u) /\ k \in DOMAIN u.probes /\ v \in Heard(u.probes[k].state)
  BY WithQuiet
<1>2. IsPair(u) /\ ProbesOK(u.probes)
  BY <1>1 DEF Quiet
<1> HIDE DEF u
<1>3. Outcome(u, k, OnFinished(u, k, v))
  BY <1>1, <1>2, FinishedOutcome
<1>4. k \in DOMAIN Whole.probes /\ Fine(Whole) /\ Whole.scan = scan
  BY DEF Whole, IInv
<1>5. Fine(OnFinished(u, k, v)) /\ Steps(scan, OnFinished(u, k, v).scan)
  BY <1>1, <1>3, <1>4, OutcomeFine
<1> QED BY <1>5, Became DEF u

\* A probe ends, possibly announced twice.
LEMMA EndedFine ==
    ASSUME IInv, NEW k \in DOMAIN probes, NEW c
    PROVE  /\ Fine(SetDone(With(k, c), k)) /\ Steps(scan, SetDone(With(k, c), k).scan)
           /\ SetDone(SetDone(With(k, c), k), k) = SetDone(With(k, c), k)
<1> DEFINE u == With(k, c)
<1>1. Quiet(Whole, u) /\ k \in DOMAIN u.probes
  BY WithQuiet
<1> HIDE DEF u
<1>2. k \in DOMAIN Whole.probes /\ Fine(Whole) /\ Whole.scan = scan
  BY DEF Whole, IInv
<1>3. Fine(SetDone(u, k)) /\ Steps(scan, SetDone(u, k).scan)
  BY <1>1, <1>2, OutcomeFine DEF Outcome
<1>4. Fine(u)
  BY <1>1, <1>2, QuietFine
<1>5. k \notin DOMAIN SetDone(u, k).probes
  BY <1>1, <1>4, ProbeDone
<1>6. SetDone(SetDone(u, k), k) = SetDone(u, k)
  BY <1>5 DEF SetDone
<1> QED BY <1>3, <1>6 DEF u

\* The first answer of the Solar API leads to its second query.
LEMMA ProcessDeviceInfoFine ==
    ASSUME IInv, ProcessDeviceInfo
    PROVE  IInv' /\ Steps(scan, scan')
<1> DEFINE t == [Whole EXCEPT !.scan.api = "converterInfo"]
<1>1. /\ IsPair(Whole) /\ ProbesOK(probes) /\ Asking(scan, DOMAIN probes)
      /\ Whole.scan = scan /\ Whole.probes = probes
  BY DEF ProcessDeviceInfo, IInv, Whole, Fine, Phase, Probing, Trying, Over
<1>2. Becomes(t)
  BY DEF ProcessDeviceInfo, OnDeviceInfoFound, GetConverterInfoAsync, Whole
<1>3. /\ IsPair(t) /\ t.probes = probes /\ t.scan.api = "converterInfo"
      /\ \A f \in ScanFields \ {"api"} : t.scan[f] = scan[f]
  <2> HIDE DEF Whole
  <2> QED BY <1>1 DEF IsPair, ScanFields
<1> HIDE DEF t
<1>4. Asking(t.scan, DOMAIN probes) /\ Steps(scan, t.scan)
  BY <1>1, <1>3 DEF Asking, Steps, ScanFields
<1> QED BY <1>1, <1>2, <1>3, <1>4, Became DEF Fine, Phase

\* The converters are known: SunSpec is tried for each of them, or else the
\* next detector begins.
LEMMA ProcessConverterInfoFine ==
    ASSUME IInv, ProcessConverterInfo
    PROVE  IInv' /\ Steps(scan, scan')
<1>1. /\ IsPair(Whole) /\ ProbesOK(probes) /\ Asking(scan, DOMAIN probes)
      /\ Whole.scan = scan /\ Whole.probes = probes
  BY DEF ProcessConverterInfo, IInv, Whole, Fine, Phase, Probing, Trying, Over
<1>2. PICK info \in ConverterInfos : Becomes(OnConverterInfoFound(Whole, info))
  BY DEF ProcessConverterInfo, Whole
<1> DEFINE known == {i \in DOMAIN info : info[i] # 255}
           df == [i \in known |-> FALSE]
           t == [Whole EXCEPT !.scan.api = "idle", !.scan.reported = known,
                              !.scan.deviceFound = df]
           u == OnConverterInfoFound(Whole, info)
<1>3. known \subseteq Inverters
  BY DEF ConverterInfos
<1>4. u = IF known = {} THEN Scan(t) ELSE StartProbes(t, known)
  BY DEF OnConverterInfoFound
<1>5. DOMAIN df = known /\ \A i \in known : ~df[i]
  OBVIOUS
<1> HIDE DEF known, df
<1>6. /\ IsPair(t) /\ t.probes = probes
      /\ t.scan.api = "idle" /\ t.scan.reported = known /\ t.scan.deviceFound = df
      /\ \A f \in ScanFields \ {"api", "reported", "deviceFound"} : t.scan[f] = scan[f]
  <2> HIDE DEF Whole
  <2> QED BY <1>1 DEF IsPair, ScanFields
<1>7. /\ t.scan.detectors = Three /\ t.scan.found = {} /\ t.scan.finished = 0
      /\ scan.detectors = Three /\ scan.found = {} /\ scan.finished = 0
      /\ DOMAIN probes = {} /\ ProbesOK(t.probes)
  BY <1>1, <1>6 DEF Asking, ScanFields
<1> HIDE DEF t
<1>8. CASE known = {}
  <2>1. t.scan.detectors # <<>> /\ Head(Three) = "SunspecDetector" /\ Tail(Three) = Two
    BY <1>7, DetectorLists DEF Two
  <2>2. /\ IsPair(Scan(t)) /\ ProbesOK(Scan(t).probes)
        /\ DOMAIN Scan(t).probes = {"SunspecDetector"}
        /\ Scan(t).scan.detectors = Two
        /\ \A f \in ScanFields \ {"detectors"} : Scan(t).scan[f] = t.scan[f]
    BY <1>6, <1>7, <2>1, ScanGoesOn
  <2>3. Trying(Scan(t).scan, {"SunspecDetector"}, "SunspecDetector", Two)
    BY <1>6, <1>7, <1>8, <2>2 DEF Trying, ScanFields
  <2>4. Steps(scan, Scan(t).scan)
    BY <1>7, <2>2 DEF Steps, ScanFields
  <2>5. Fine(u) /\ Steps(scan, u.scan)
    BY <1>4, <1>8, <2>2, <2>3, <2>4 DEF Fine, Phase
  <2> QED BY <1>2, <2>5, Became
<1>9. CASE known # {}
  <2>1. /\ IsPair(u) /\ ProbesOK(u.probes) /\ u.scan = t.scan /\ DOMAIN u.probes = known
    <3>1. u = StartProbes(t, known)
      BY <1>4, <1>9
    <3> HIDE DEF u
    <3>2. /\ IsPair(u) /\ ProbesOK(u.probes) /\ u.scan = t.scan
          /\ DOMAIN u.probes = known \cup DOMAIN t.probes
      <4>1. IsPair(t) /\ ProbesOK(t.probes)
        BY <1>6, <1>7
      <4> QED BY <3>1, <4>1, ProbesStarted
    <3> QED BY <1>6, <1>7, <3>2
  <2>2. Probing(u.scan, known)
    BY <1>3, <1>5, <1>6, <1>7, <1>9, <2>1 DEF Probing
  <2>3. Fine(u) /\ Steps(scan, u.scan)
    BY <1>7, <2>1, <2>2 DEF Fine, Phase, Steps
  <2> QED BY <1>2, <2>3, Became
<1> QED BY <1>8, <1>9

\* A connection leads to the next request.
LEMMA ConnectedFine ==
    ASSUME IInv, NEW k \in DOMAIN probes, Connected(k)
    PROVE  IInv' /\ Steps(scan, scan')
<1> DEFINE u == With(k, SocketConnected(probes[k].client))
           t == OnConnected(u, k)
<1>1. Quiet(Whole, u) /\ k \in DOMAIN u.probes
  BY WithQuiet
<1>2. Becomes(t)
  BY DEF Connected
<1> HIDE DEF u
<1>3. IsPair(u) /\ ProbesOK(u.probes)
  BY <1>1 DEF Quiet
<1>4. Quiet(u, t)
  BY <1>1, <1>3, AskQuiet DEF OnConnected, ProbesOK
<1> HIDE DEF t
<1>5. Fine(t) /\ Steps(Whole.scan, t.scan) /\ Whole.scan = scan
  BY <1>1, <1>4, QuietTwice, QuietFine DEF IInv, Whole
<1> QED BY <1>2, <1>5, Became

\* A socket error ends the probe once, although it is told twice.
LEMMA ConnectionFailsFine ==
    ASSUME IInv, NEW k \in DOMAIN probes, ConnectionFails(k)
    PROVE  IInv' /\ Steps(scan, scan')
<1> DEFINE u == With(k, probes[k].client)
<1>1. Becomes(OnSocketError(u, k))
  BY DEF ConnectionFails
<1>2. OnFinished(u, k, Nothing) = SetDone(u, k)
  BY DEF OnFinished, Nothing
<1>3. OnSocketError(u, k) = SetDone(u, k)
  BY <1>2, EndedFine DEF OnSocketError
<1> QED BY <1>1, <1>3, EndedFine, Became

\* Whatever happens to the client of a probe keeps the invariant.
LEMMA ProbeStepFine ==
    ASSUME IInv, NEW k \in DOMAIN probes, ProbeStep(k)
    PROVE  IInv' /\ Steps(scan, scan')
<1>1. CASE Connected(k)
  BY <1>1, ConnectedFine
<1>2. ASSUME NEW r, Answered(k, r)
      PROVE  IInv' /\ Steps(scan, scan')
  BY <1>2, HeardFine DEF Answered, Heard
<1>3. ASSUME NEW r, ReplyTimedOut(k, r)
      PROVE  IInv' /\ Steps(scan, scan')
  BY <1>3, HeardFine DEF ReplyTimedOut, Heard
<1>4. CASE ConnectionFails(k)
  BY <1>4, ConnectionFailsFine
<1>5. CASE ConnectTimerExpired(k)
  BY <1>5, EndedFine, Became DEF ConnectTimerExpired
<1> QED BY <1>1, <1>2, <1>3, <1>4, <1>5 DEF ProbeStep

\* So does a step that changes nothing.
LEMMA StutterFine ==
    ASSUME IInv, UNCHANGED vars
    PROVE  IInv' /\ Steps(scan, scan')
<1>1. scan' = scan /\ probes' = probes
  BY DEF vars
<1> QED BY <1>1 DEF IInv, Whole, Fine, Steps

\* Every step keeps the invariant and is one HostDetection allows.
LEMMA NextFine ==
    ASSUME IInv, [Next]_vars
    PROVE  IInv' /\ Steps(scan, scan')
<1>1. CASE ProcessDeviceInfo
  BY <1>1, ProcessDeviceInfoFine
<1>2. CASE ProcessConverterInfo
  BY <1>2, ProcessConverterInfoFine
<1>3. CASE \E k \in DOMAIN probes : ProbeStep(k)
  BY <1>3, ProbeStepFine
<1>4. CASE Deleted
  BY <1>4, StutterFine DEF Deleted
<1>5. CASE UNCHANGED vars
  BY <1>5, StutterFine
<1> QED BY <1>1, <1>2, <1>3, <1>4, <1>5 DEF Next

\* A detection begins by asking the Solar API.
LEMMA InitFine == Init => IInv
<1> SUFFICES ASSUME Init PROVE IInv
  OBVIOUS
<1>1. /\ Whole.scan = scan /\ Whole.probes = probes /\ DOMAIN probes = {}
      /\ DOMAIN Whole = {"scan", "probes"} /\ DOMAIN scan = ScanFields
  BY DEF Init, Whole, ScanFields
<1>2. Asking(scan, {})
  BY DEF Init, Asking, Three
<1> QED BY <1>1, <1>2 DEF IInv, Fine, IsPair, ProbesOK, Phase

\* The invariant holds throughout.
LEMMA Invariance == Spec => []IInv
<1>1. IInv /\ [Next]_vars => IInv'
  BY NextFine
<1> QED BY <1>1, InitFine, PTL DEF Spec

----------------------------------------------------------------------------
(* The theorems.                                                           *)

\* The detection on a host has been declared over exactly when no request and
\* no probe of it is under way (HostScan::scan, checkFinished, setDone).
THEOREM IdleIsOver == Spec => []OverWhenIdle
<1>1. IInv => OverWhenIdle
  <2> SUFFICES ASSUME IInv PROVE OverWhenIdle
    OBVIOUS
  <2>1. Phase(scan, DOMAIN probes)
    BY DEF IInv, Fine, Whole
  <2>2. probes = <<>> <=> DOMAIN probes = {}
    OBVIOUS
  <2> QED BY <2>1, <2>2 DEF OverWhenIdle, Phase, Asking, Probing, Trying, Over
<1> QED BY <1>1, Invariance, PTL

\* When it is over, the inverters the Solar API has reported are those that
\* were announced, whichever of them spoke SunSpec (onSunspecDone).
THEOREM AllAnnounced == Spec => []EveryInverterAnnounced
<1>1. IInv => EveryInverterAnnounced
  <2> SUFFICES ASSUME IInv PROVE EveryInverterAnnounced
    OBVIOUS
  <2>1. Phase(scan, DOMAIN probes)
    BY DEF IInv, Fine, Whole
  <2> QED BY <2>1 DEF EveryInverterAnnounced, Phase, Asking, Probing, Trying, Over
<1> QED BY <1>1, Invariance, PTL

\* The detection on a host is what the gateway takes it to be: detectors one
\* after the other, devices before the end, and one end.
THEOREM DetectionContract == Spec => Implements
<1>1. Init => Contract!Init
  <2>1. Len(Detectors) = 3
    BY DEF Detectors
  <2> QED BY <2>1, DetectorLists DEF Init, Contract!Init, Three
<1>2. IInv /\ [Next]_vars => [Contract!Next]_Contract!vars
  <2> SUFFICES ASSUME IInv, [Next]_vars PROVE [Contract!Next]_Contract!vars
    OBVIOUS
  <2>1. Steps(scan, scan')
    BY NextFine
  <2>2. Len(Three) = 2 /\ Len(Two) = 1 /\ Len(<<>>) = 0
    BY DetectorLists
  <2>3. CASE /\ scan.finished = 0 /\ scan.found \subseteq scan'.found /\ scan.found # scan'.found
             /\ scan'.detectors = <<>> /\ scan'.finished \in {0, 1}
    <3>1. Contract!DeviceFound
      BY <2>2, <2>3 DEF Contract!DeviceFound
    <3> QED BY <3>1 DEF Contract!Next
  <2>4. CASE /\ scan.finished = 0 /\ scan.found = {}
             /\ scan'.found = scan.found /\ scan'.finished = scan.finished
             /\ \/ scan.detectors = Three /\ scan'.detectors = Two
                \/ scan.detectors = Two /\ scan'.detectors = <<>>
    <3>1. \/ Len(scan.detectors) = 2 /\ Len(scan'.detectors) = 1
          \/ Len(scan.detectors) = 1 /\ Len(scan'.detectors) = 0
      BY <2>2, <2>4, Zenon
    <3> DEFINE a == Len(scan.detectors)
               b == Len(scan'.detectors)
    <3> HIDE DEF a, b
    <3>2. (a = 2 /\ b = 1) \/ (a = 1 /\ b = 0)
      BY <3>1, Zenon DEF a, b
    <3>3. a > 0 /\ b = a - 1
      BY <3>2
    <3>4. Contract!NextDetector
      BY <2>4, <3>3, Zenon DEF a, b, Contract!NextDetector
    <3> QED BY <3>4 DEF Contract!Next
  <2>5. CASE /\ scan.finished = 0 /\ scan.detectors = <<>> /\ scan'.detectors = <<>>
             /\ scan'.found = scan.found /\ scan'.finished = 1
    <3>1. Contract!DetectionDone
      BY <2>2, <2>5 DEF Contract!DetectionDone
    <3> QED BY <3>1 DEF Contract!Next
  <2>6. CASE /\ scan'.detectors = scan.detectors /\ scan'.found = scan.found
             /\ scan'.finished = scan.finished
    BY <2>6 DEF Contract!vars
  <2> QED BY <2>1, <2>3, <2>4, <2>5, <2>6 DEF Steps
<1> QED BY <1>1, <1>2, Invariance, PTL DEF Spec, Implements, Contract!Spec
=============================================================================
