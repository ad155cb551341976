SPECIFICATION Spec
CONSTANTS
  k1 = k1  k2 = k2  w1 = w1  w2 = w2  q1 = q1  q2 = q2
  NoKeyValue = NoKeyValue
  NoKey <- NoKeyValue
  Keys <- OneKey
  Workers <- TwoWorkers
  Requests <- TwoRequests
  Ops <- NoCancel
  Supported <- OneKey
  Specs <- MCSpecs
  Moves <- MCMoves
  Outcomes <- SameSpec
  Faults = {"crash", "throw", "db_error"}
  MaxFaults = 2
  MaxAttempts = 2
  MaxJobs = 2
SYMMETRY Symmetry
INVARIANTS SoleWriter ReadyRunIsWhole
