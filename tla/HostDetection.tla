---------------------------- MODULE HostDetection ----------------------------
(***************************************************************************)
(* What InverterGateway takes the detection on one host to be: detectors   *)
(* are tried one after the other until one finds a device, and then it is  *)
(* over. These are the actions DeviceFound, NextDetector and DetectionDone *)
(* of the gateway. As abstract_detector.h promises, devices are announced  *)
(* before the end and the end is announced once.                           *)
(***************************************************************************)
EXTENDS Naturals

CONSTANT Detectors  \* their number

VARIABLES
    left,   \* detectors not yet tried
    found,  \* devices announced
    done    \* how often the end was announced

vars == <<left, found, done>>

Init == left = Detectors - 1 /\ found = {} /\ done = 0

\* Devices are announced; an end of the detector may follow at once.
DeviceFound ==
    /\ done = 0
    /\ found \subseteq found' /\ found # found'
    /\ left' = 0
    /\ done' \in {0, 1}

NextDetector ==
    /\ done = 0 /\ left > 0 /\ found = {}
    /\ left' = left - 1
    /\ UNCHANGED <<found, done>>

DetectionDone ==
    /\ done = 0 /\ left = 0
    /\ done' = 1
    /\ UNCHANGED <<left, found>>

Next == DeviceFound \/ NextDetector \/ DetectionDone

Spec == Init /\ [][Next]_vars
=============================================================================
