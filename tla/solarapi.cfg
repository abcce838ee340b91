SPECIFICATION FairSpec
INVARIANT OnePoll TimerCovers AnswersBelong
PROPERTY PollingGoesOn
