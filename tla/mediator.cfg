SPECIFICATION FairSpec
CONSTANTS
    UniqueId <- Identities
    DeviceInfos <- Devices
    NoInverter = NoInverter
INVARIANT InverterFollowsDevice
INVARIANT SwitchedOffNotRunning
PROPERTY ActiveComesBack
