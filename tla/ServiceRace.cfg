CONSTANTS
  e1 = e1
  e2 = e2
  q1 = q1
  p1 = p1
  p2 = p2
  GoodId = GoodId
  BadId = BadId
  None = None
  Executor <- TwoExecutors
  Reconciler <- OneReconciler
  Planner <- OnePlanner
  MaxReviews = 1
  BlockedKey <- LastBlocked
  PollAttempts = 1
  Ttl = 1
  MaxTime = 0
  MalformedReplies = FALSE
SPECIFICATION Spec
SYMMETRY ExecutorSymmetry
INVARIANTS
  TypeOK
  OneDraftPerPlan
  RequestKeepsClaim
  SuccessIsReal
  OutcomeIsAudited
  OnlySettledRefuses
PROPERTIES
  LedgerSpec
  MutationUnderReservation
  StaleReservationNeverSends
  DeadEndsStay
CHECK_DEADLOCK FALSE
