\* CREATE_GROUP, ADD_MEMBER_TO_GROUP, DELETE_GROUP_MEMBER, REGISTER_USER and
\* DELETE_USER and the admin deletion on two threads
\* sharing a pool of two connections, with one failing statement.
CONSTANTS
  Clients = {c1, c2}
  u1 = u1
  u2 = u2
  u3 = u3
  Users = {u1, u2, u3}
  Registered = {u1, u2}
  GroupNames = {g1}
  PoolSize = 2
  MaxDbErrors = 1
  Ops = {"create", "add", "remove", "register", "delete_user", "admin_delete"}
  None = None
SYMMETRY MCSymmetry
SPECIFICATION Spec
INVARIANTS TypeOK PoolAccounting ReferencesResolve
PROPERTIES AnswersMatchChanges
