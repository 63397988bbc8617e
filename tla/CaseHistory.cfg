CONSTANTS
  w1 = w1
  w2 = w2
  w3 = w3
  o1 = o1
  o2 = o2
  hard = hard
  soft = soft
  None = None
  Writer <- TwoWriters
  Object <- MCObject
  Finding <- MCFinding
  HardFinding <- MCHardFinding
  About <- MCAbout
  Verdict = "REVIEW"
  Valid = TRUE
  MaxEvents = 4
SPECIFICATION Spec
SYMMETRY WriterSymmetry
INVARIANTS
  ChainVerifies
  ReviewsFollowHistory
PROPERTIES
  ImplementsAuditLog
