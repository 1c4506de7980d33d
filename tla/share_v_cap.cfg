SPECIFICATION Spec
CONSTANTS
  None = None
  Links = {l1}
  Limits <- OneOrTwo
  Reqs = {r1,r2}
  MaxTime = 0
  MaxServed = 3
SYMMETRY Interchangeable
INVARIANTS DownloadsCapped
