SPECIFICATION FairSpec
CONSTANTS
    Inverters = {i1, i2, i3}
    Sizes <- EmptyAndLong
    Registers = 8
    MaxOutstanding = 1
INVARIANT OverWhenIdle EveryInverterAnnounced
PROPERTY DetectionEnds Implements
