SPECIFICATION Spec
CONSTANTS
  p1 = p1  k1 = k1  k2 = k2  k3 = k3  k4 = k4  k5 = k5
  Uris <- MCUris
  External <- MCExternal
  AliasNamespace <- MCNamespace
  Reserved <- MCReserved
  Values <- MCValues
  Changes <- MCChanges
  Edit <- MCEdit
  Invalid = "invalid"
  Oversize = {"big", "huge"}
  Principals = {p1}
  Keys = {k1, k2, k3, k4}
  Invocations <- StoreInvocations
  Historical = TRUE
  None = None
  MaxDecisions = 4
  MaxFaults = 0
SYMMETRY KeySymmetry
INVARIANTS TypeOK AliasesWellPlaced LinkEndpointsLive RetryIsRecognised VersionIndexComplete RecoveryAccepts
CHECK_DEADLOCK FALSE
