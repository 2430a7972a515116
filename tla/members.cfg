SPECIFICATION FamilySpec
CONSTANTS
  None = None
  p = p  b1 = b1  b2 = b2  b3 = b3  l1 = l1  l2 = l2  x = x  web = web
  External = {web}
  Paths = {x}
  OwnedTypes = {"owned"}
  OwnedMax = 1
  EndpointMax = 1
  Opaque <- OpaqueIds
  Principals = {p}
  Carriers <- AllCarriers
  Retention = 1
  MaximumAttempts = 3
  MaximumTime = 1
INVARIANTS KeysAreSettled GraphIsSound
PROPERTIES RetriesAndRevisionsTell ImplementsLedger
