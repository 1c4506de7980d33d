SPECIFICATION WatchedFairSpec
CONSTANTS
  None = None
  Docs = {d1}
  Holds = {h1,h2}
  Policies <- NoPolicies
  Tenants = {t1}
  Titles = {a}
  Reqs = {r1}
  MaxTime = 0
  KeyColumnWidths = {128}
INVARIANTS WatchedTypeOK ReportsJustified OddExplained
PROPERTIES FlagSettles ExposureReported
