SPECIFICATION FairSpec
CONSTANTS
  None = None
  Docs = {d1}
  Holds = {h1}
  Policies <- NoPolicies
  Tenants = {t1}
  Titles = {a}
  Reqs = {r1}
  MaxTime = 0
  KeyColumnWidths = {128}
PROPERTIES UploadFinishes
