SPECIFICATION Spec
CONSTANTS
  None = None
  Docs = {d1}
  Holds = {h1,h2}
  Policies <- OnePerMode
  Tenants = {t1,t2}
  Titles = {a,b}
  Reqs = {r1}
  MaxTime = 1
  KeyColumnWidths = {128}
SYMMETRY Interchangeable
INVARIANTS TypeOK
PROPERTIES DeletionRespectsRetention KeepsRegister
