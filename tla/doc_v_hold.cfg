SPECIFICATION Spec
CONSTANTS
  None = None
  Docs = {d1}
  Holds = {h1}
  Policies <- NoPolicies
  Tenants = {t1}
  Titles = {a}
  Reqs = {r1,r2}
  MaxTime = 0
  KeyColumnWidths = {128}
PROPERTIES HoldsBlockDeletion
