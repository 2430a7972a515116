\* A retry whose original outcome is not known.
SPECIFICATION Spec
CONSTANTS
  None = None
  Commands = {create}
  SuppliedKeys = {}
  Credentials = {1, 2}
  MaximumRuns = 2
CHECK_DEADLOCK FALSE
INVARIANT UnresolvedStaysUnknown
