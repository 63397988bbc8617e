CONSTANTS
  Id <- MCId
  Object <- MCObject
  Report <- MCReport
  Candidate <- MCCandidate
  Fact <- MCFact
  Verdict = "REVIEW"
  MaxDepth = 2
  MaxRefs = 2
SPECIFICATION BuildSpec
INVARIANTS
  CycleFindingsAreExact
  SelectionIsLargestClosed
  RecheckFindsOnlyDepth
PROPERTIES
  BuildProgresses
  BuildEnds
CHECK_DEADLOCK FALSE
