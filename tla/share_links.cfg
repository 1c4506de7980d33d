SPECIFICATION Spec
CONSTANTS
  None = None
  Links = {l1}
  Limits <- TwoOrUnlimited
  Reqs = {r1,r2,r3}
  MaxTime = 1
  MaxServed = 4
SYMMETRY Interchangeable
INVARIANTS TypeOK CountWithinLimit ServedCharged
PROPERTIES RevokedStaysClosed KeepsCap
