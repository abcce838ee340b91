SPECIFICATION FairSpec
CONSTANTS
    a1 = a1
    a2 = a2
    a3 = a3
    Addr <- LanAddresses
    Network <- Networks
    Lan <- LocalNetwork
    Detectors = 2
    MaxSimultaneousRequests = 1
    MaxRequests = 1
    MaxWrites = 2
PROPERTY ScanTerminates
PROPERTY Reprobed
