SPECIFICATION Spec
CONSTANTS
  None = None
  Users = {u1}
  Roles <- SomeRoles
  Endpoints <- SomeEndpoints
  Reqs = {r1,r2}
  AccessTtl = 0
  RefreshTtl = 1
  MaxTime = 2
SYMMETRY Interchangeable
INVARIANTS TypeOK ActsOnCurrentRights IdleSessionsEnd
