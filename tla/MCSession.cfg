SPECIFICATION Spec
CONSTANTS
  State = "kEnabled"
  Horizon = 2
  MaxBarsPerBatch = 2
  EmitFirstBarImmediately = TRUE
  NumBars = 4
  Sizes <- MCSizes
  Results <- MCResults
  MaxProposals = 3
INVARIANTS
  StreamIsComplete
  SequenceIsClosed
  CandidateBeforeOutcome
  DecidedHaveOneOutcome
CHECK_DEADLOCK FALSE
