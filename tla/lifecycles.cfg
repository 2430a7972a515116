SPECIFICATION LifecyclesSpec
CONSTANTS
  Requests = {c1, c2}
  None = None
  c1 = c1  c2 = c2
  Users = {c1, c2}
  Reads = {c1, c2, c3}
  AttemptLengths = {1, 2, 3}  MaxAttempts = 3
  Count = 2  SomePlans <- FivePlans
  ServerStreams <- SixStreams  Limit = 4
  anyone = anyone
  NoUrl = NoUrl  NoLease = NoLease
INVARIANTS EndsAreTrue
PROPERTIES EverythingEnds
CHECK_DEADLOCK FALSE
