SPECIFICATION HSpec
CONSTANTS
  k1 = k1  k2 = k2  w1 = w1  w2 = w2  q1 = q1  q2 = q2
  NoKeyValue = NoKeyValue
  NoKey <- NoKeyValue
  Keys <- TwoKeys
  Workers <- TwoWorkers
  Requests <- OneRequest
  Ops <- RunOrCancel
  Supported <- OneKey
  Specs <- MCSpecs
  Moves <- MCMoves
  Outcomes <- OneMove
  Faults = {"crash", "throw", "overrun"}
  MaxFaults = 1
  MaxAttempts = 2
  MaxJobs = 2
SYMMETRY WorkerSymmetry
INVARIANT AckedHasOutcome
PROPERTY PipelineUsesQueue
