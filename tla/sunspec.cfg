SPECIFICATION FairSpec
CONSTANTS
    Limits <- TwoLimits
    Limiting = TRUE
    MaxOutstanding = 3
INVARIANT NeverStuck AnswerMatchesState
PROPERTY SilentIsGivenUp
