CONSTANTS
  None = None
  Id <- MCId
  Report = 0
  Missing = Missing
  Candidate <- MixedLists
  Types <- ProfileTypes
  Extensions = {7}
  Legal <- ProfileTuples
  RedIds = {5}
  MaxObjects = 3
  MaxList = 3
SPECIFICATION Spec
INVARIANTS
  RecheckIsQuiet
  RedStaysIn
  OrderDecidesNothing
CHECK_DEADLOCK FALSE
