SPECIFICATION FairSpec
CONSTANTS
  k1 = k1  k2 = k2  c1 = c1  c2 = c2
  Keys <- MCKeys
  Consumers <- MCConsumers
  MaxAttempts = 2
  MaxJobs = 2
  MaxFaults = 2
INVARIANTS TypeOK JobsConserved LeasesDistinct DlqExhausted DeliveriesBounded
PROPERTIES ImplementsWorkQueue JobsLeave
