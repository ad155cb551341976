SPECIFICATION FairSpec
CONSTANTS
  k1 = k1  k2 = k2  w1 = w1  w2 = w2  q1 = q1  q2 = q2
  NoKeyValue = NoKeyValue
  NoKey <- NoKeyValue
  Keys <- TwoKeys
  Workers <- TwoWorkers
  Requests <- OneRequest
  Ops <- NoCancel
  Supported <- OneKey
  Specs <- MCSpecs
  Moves <- MCMoves
  Outcomes <- TwoOfOneSpec
  Faults = {"crash"}
  MaxFaults = 2
  MaxAttempts = 2
  MaxJobs = 2
INVARIANT PersistingRunIsBacked
PROPERTY JobsConclude
