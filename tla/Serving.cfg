SPECIFICATION Spec
CONSTANTS
  Kids = {k1, k2}
  Secrets = {k1}
  Ttl = 2
  Skew = 0
  Grace = 1
  Never = Never
  MaxTime = 2
  Reqs = {r1, r2}
  Required = {"status"}
  Optional = {"information"}
  MaxMark = 1
  MaxTokens = 1
  RoutesOf <- MCRoutesOf
  Flaws = {"version", "t_bucket"}
  Big = {0}
  Huge = {0}
  ReplayMinTtl = 2
  NoToken = NoToken
  Torn = Torn
  MaxServed = 1
  MaxEvents = 3
SYMMETRY Symmetry
INVARIANTS HeldTokensAreBacked ViewIsFresh AcceptedWasSound AnsweredTileIsWhole
CHECK_DEADLOCK FALSE
