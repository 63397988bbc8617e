CONSTANTS
  p1 = p1
  b1 = b1
  b2 = b2
  h = h
  spelled = spelled
  odd = odd
  con1 = con1
  con2 = con2
  Unusable = Unusable
  None = None
  Process <- OneProcess
  Config <- Configurations
  Bundle <- TwoBundles
  Norm <- Hosts
  Answers <- SomeAnswers
  Flags <- AddressFlags
  Mapped <- MappedAddress
  ProfileVersion = 7
  ArtifactObjects = 2
  MaxPlans = 2
SPECIFICATION Spec
INVARIANTS
  MutationAtFrozenDestination
  ConnectionsAreVetted
  KeyDecidesBlocked
PROPERTY
  UploadFollowsDraft
