SPECIFICATION Spec
CONSTANTS
  State = "kCollectOnly"
  Horizon = 2
  MaxBarsPerBatch = 2
  EmitFirstBarImmediately = TRUE
  NumBars = 3
  Sizes <- MCSizes
  Results <- MCResults
  MaxProposals = 2
INVARIANT
  EveryCandidateHasOutcome
CHECK_DEADLOCK FALSE
