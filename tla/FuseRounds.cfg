SPECIFICATION FairSpec
CONSTANTS
  Lots = {l}
  Unaligned = {l}
  MaxFuses = 2
  Workers = {w}
  Rounds = {r}
  CancelMayFail = FALSE
  ResponsesMayBeLost = FALSE
  MaxFaults = 1
INVARIANT NamedFuseIsReal
PROPERTY ProtectedInTheEnd
