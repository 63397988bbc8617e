CONSTANTS
  e1 = e1
  e2 = e2
  q1 = q1
  p1 = p1
  p2 = p2
  GoodId = GoodId
  BadId = BadId
  None = None
  Executor <- OneExecutor
  Reconciler <- NoReconciler
  Planner <- OnePlanner
  MaxReviews = 0
  BlockedKey <- NoneBlocked
  PollAttempts = 1
  Ttl = 1
  MaxTime = 0
  MalformedReplies = FALSE
SPECIFICATION Spec
INVARIANTS
  FailureIsRemote
CHECK_DEADLOCK FALSE
