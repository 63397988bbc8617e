CONSTANTS
  e1 = e1
  e2 = e2
  q1 = q1
  p1 = p1
  p2 = p2
  GoodId = GoodId
  BadId = BadId
  None = None
  Executor <- OneExecutor
  Reconciler <- NoReconciler
  Planner <- TwoPlanners
  MaxReviews = 1
  BlockedKey <- NoneBlocked
  PollAttempts = 2
  Ttl = 1
  MaxTime = 1
  MalformedReplies = TRUE
SPECIFICATION ReturnSpec
INVARIANT
  PlanIsAudited
PROPERTIES
  ExecuteProgresses
  ExecuteReturns
CHECK_DEADLOCK FALSE
