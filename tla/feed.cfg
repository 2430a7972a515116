SPECIFICATION ServiceSpec
CONSTANTS
  None = None
  r1 = r1
  c1 = c1
  c2 = c2
  Resources = {r1}
  MaximumItems = 2
  Clients = {c1, c2}
  Bodies <- LongBodies
  MaximumGroups = 3
  Minima = {0, 2}
  MaximumStreams = 1
  HighWater = 1
  Replaceable = TRUE
ACTION_CONSTRAINT Narrowed
INVARIANTS FollowsWithoutGap StreamsAreContained
PROPERTIES StreamsKeepTheirView ShutdownCompletes StreamsCatchUp
