SPECIFICATION FairSpec
CONSTANTS
    a1 = a1
    a2 = a2
    a3 = a3
    Addr <- LanAddresses
    Network <- Networks
    Lan <- LocalNetwork
    Detectors = 1
    MaxSimultaneousRequests = 2
    MaxRequests = 0
    MaxWrites = 1
PROPERTY StartupSweep
