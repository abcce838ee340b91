SPECIFICATION FairSpec
CONSTANTS
    MaxPower = 1
    PowerLimitScale = 2
    Limits <- NegativeAndTooHigh
    MaxOutstanding = 3
INVARIANT StuckOnlyInError WritesBounded LimitOnlyInControl StatusIsShown
PROPERTY SilentIsGivenUp
