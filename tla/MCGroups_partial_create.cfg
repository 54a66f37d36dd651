\* Group creation with one failing statement.
CONSTANTS
  Clients = {c1, c2}
  u1 = u1
  u2 = u2
  u3 = u3
  Users = {u1, u2, u3}
  Registered = {u1, u2}
  GroupNames = {g1}
  PoolSize = 2
  MaxDbErrors = 1
  Ops = {"create"}
  None = None
SYMMETRY MCSymmetry
SPECIFICATION Spec
INVARIANTS LeaderIsActiveMember
