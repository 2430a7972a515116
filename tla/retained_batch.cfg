SPECIFICATION BatchSpec
CONSTANTS
  p1 = p1  k1 = k1  k2 = k2  k3 = k3  k4 = k4  k5 = k5
  Uris <- BatchUris
  External <- MCExternal
  AliasNamespace <- BatchNamespace
  Reserved <- MCReserved
  Values <- MCValues
  Changes <- MCChanges
  Edit <- MCEdit
  Invalid = "invalid"
  Oversize = {"big", "huge"}
  Principals = {p1}
  Historical = FALSE
  None = None
  Order <- MCOrder
  MaximumOperations = 3
  MaximumWitnesses = 9
  Keys = {k1, k2, k3}
  Invocations <- MCSingles
  Batches <- MCBatches
  MaxDecisions = 3
  MaxFaults = 1
ACTION_CONSTRAINT DrawsElsewhere
SYMMETRY KeySymmetry
INVARIANTS GuardsHold BatchRetryIsRecognised GroupedRecoveryAccepts OneMemberAgrees
PROPERTIES ImplementsLedger HistoryIsPermanent
CHECK_DEADLOCK FALSE
