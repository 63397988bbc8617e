CONSTANTS
  malware = malware
  technique = technique
  uses = uses
  NumClaims = 4
  Kind <- MCKind
  Owner <- MCOwner
  Object <- MCObject
  Ends <- MCEnds
  Policy <- DefaultPolicy
SPECIFICATION ExportSpec
INVARIANT
  ExportsAreReviewed
