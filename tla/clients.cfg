SPECIFICATION ClientsSpec
CONSTANTS
  None = None
  create = create  delete = delete  mine = mine
  Commands = {create, delete}
  SuppliedKeys = {mine}
  Credentials = {1, 2}
  MaximumRuns = 3
  c1 = c1  c2 = c2
  Users = {c1, c2}
  SomePlans <- EveryPlan
  OperationTime = 5  ExchangeTime = 3  CleanupTime = 2
  SomeKinds <- NextAndMutate
  anyone = anyone  scope = scope
  NoUrl = NoUrl  NoLease = NoLease
SYMMETRY Alike
INVARIANTS EndsAreTrue TraversalsAreWhole
PROPERTIES PlacesAreKept
CHECK_DEADLOCK FALSE
