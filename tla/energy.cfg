SPECIFICATION EnergySpec
CONSTANTS
  MaxTotal = 3
  Weights <- FewWeights
  MaxPolls = 4
INVARIANT SavedWithinTotal OnePhaseShown
PROPERTY SumFollowsTotal CountersNeverFall
