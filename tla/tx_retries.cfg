SPECIFICATION RetriesSpec
CONSTANTS
  k1 = k1  k2 = k2  k3 = k3  k4 = k4  c1 = c1  c2 = c2  a1 = a1  a2 = a2  u1 = u1  l1 = l1
  None = None
  Uris <- MCUris
  Locators = {l1}
  Keys = {k1, k2, k3, k4}
  Calls = {c1, c2}
  Attempts = {a1, a2}
  Submissions <- MixedSubmissions
  Programs <- MixedPrograms
  Replaceable = TRUE
ACTION_CONSTRAINT Narrowed
PROPERTIES RetriesMeetTheirReceipts PolicyIsFinal ImplementsLedger EveryCallEnds
CHECK_DEADLOCK FALSE
