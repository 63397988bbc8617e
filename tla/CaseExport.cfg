CONSTANTS
  malware = malware
  technique = technique
  uses = uses
  NumClaims = 4
  Kind <- MCKind
  Owner <- MCOwner
  Object <- MCObject
  Ends <- MCEnds
  Policy <- DefaultPolicy
SPECIFICATION ExportSpec
INVARIANTS
  VerdictIsStrictest
  PassMeansVerified
  AnalyzeNeverRaises
  RefutedStaysIn
  ExportIsClosed
  DeliveredIsExported
