SPECIFICATION Spec
CONSTANTS
  None = None
  Docs = {d1}
  Contents = {a,b}
  Keks = {k1,k2}
  Shares = {s1,s2}
  Texts = {x,y}
  Jobs = {j1,j2}
  Reqs = {r1}
  Workers = {w1,w2}
  MaxRetries = 1
  MaxRuns = 4
SYMMETRY Interchangeable
INVARIANTS TypeOK NoGhosts PublishedIntact LeaksExplained MarksFaithful ReportsBacked
