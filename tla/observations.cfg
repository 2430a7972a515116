SPECIFICATION Spec
CONSTANTS
  None = None
  c1 = c1  c2 = c2  d1 = d1  v1 = v1  v2 = v2
  a = a  b = b  r1 = r1  r2 = r2
  k1 = k1  k2 = k2  p1 = p1  p2 = p2
SYMMETRY Interchangeable
INVARIANTS ReadsAreOneObservation RetentionIsKept
PROPERTIES EndsAreJustified NothingIsServedLate
CHECK_DEADLOCK FALSE
