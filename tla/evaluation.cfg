SPECIFICATION PartSpec
CONSTANTS
  External = {"ext"}
  Paths = {}
  OwnedTypes = {"owns"}
  OwnedMax = 2
  EndpointMax = 9
  Opaque <- Opaques
  None = None
  Ordered <- Addresses
  Labels = {"x", "y"}
  Batches <- AllBatches
  EventMax = 5
  MatchMax = 3
  MaxRevision = 5
  b1 = b1  b2 = b2  l1 = l1  l2 = l2
  Absent = Absent  Broken = Broken  ext = ext
INVARIANTS EvaluationIsExact DisclosureIsExact
PROPERTIES GroupsTellTheirEffect
CHECK_DEADLOCK FALSE
