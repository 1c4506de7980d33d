SPECIFICATION Spec
CONSTANTS
  None = None
  Docs = {d1}
  Holds = {h1,h2}
  Policies <- NoPolicies
  Tenants = {t1,t2}
  Titles = {a,b}
  Reqs = {r1,r2}
  MaxTime = 0
  KeyColumnWidths = {128,140}
SYMMETRY Interchangeable
INVARIANTS HoldCovered FlagJustified DeletedAudited EmptyActiveTold TrailMatchesRow
PROPERTIES DeletionRespectsHold
