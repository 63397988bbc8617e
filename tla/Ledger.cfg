CONSTANTS
  k1 = k1
  kBlocked = kBlocked
  a1 = a1
  a2 = a2
  a3 = a3
  r1 = r1
  r2 = r2
  odd = odd
  None = None
  LogicalKey <- MCLogicalKey
  BlockedKey <- MCBlockedKey
  Attempt <- MCAttempt
  RemoteId <- MCRemoteId
  OddId <- MCOddId
  Ttl = 1
  MaxTime = 2
SPECIFICATION Spec
SYMMETRY Symmetry
INVARIANTS
  OneLiveAttempt
  PlanMirrorsAttempts
  NoopFollowsSuccess
PROPERTIES
  ImplementsPlanClaim
  NothingIsRewritten
