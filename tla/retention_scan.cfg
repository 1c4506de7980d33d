SPECIFICATION ScannedFairSpec
CONSTANTS
  None = None
  Docs = {d1}
  Holds = {h1}
  Policies <- OnePerMode
  Tenants = {t1}
  Titles = {a}
  Reqs = {r1}
  MaxTime = 1
  KeyColumnWidths = {128}
INVARIANTS ScannedTypeOK EligibleWasDeletable
PROPERTIES EligibleReported
