SPECIFICATION Spec
CONSTANTS
    a1 = a1
    a2 = a2
    a3 = a3
    Addr <- AllAddresses
    Network <- Networks
    Lan <- LocalNetwork
    Detectors = 1
    MaxSimultaneousRequests = 2
    MaxRequests = 1
    MaxWrites = 1
INVARIANT ActiveBound
INVARIANT SweepNotDropped
PROPERTY StallsOnlyUnconfigured
PROPERTY UsesSweep
INVARIANT NoDoubleProbe
INVARIANT IdleMeansDone
PROPERTY FullScanCovers
