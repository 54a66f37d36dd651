\* RESERVE_SEAT, PURCHASE_TICKET (1-2 passengers), UPDATE_CAPACITY and
\* REGISTER_DEVICE on two threads sharing a pool of ONE connection, so that
\* a second thread must wait in getConnection, with one failing statement.
\* No symmetry: the run checks the refinement of the pool and liveness.
CONSTANTS
  Clients = {c1, c2}
  v1 = v1
  v2 = v2
  BUS = BUS
  TRAM = TRAM
  Vehicles = {v1}
  VehicleTypes = {BUS}
  PoolSize = 1
  RegisterCapacity = 2
  InitRows <- MCInitRows
  MaxCapacity = 2
  MaxPassengers = 2
  MaxPurchases = 1
  MaxDbErrors = 1
  Ops = {"reserve", "capacity", "register", "purchase", "vehicle"}
  None = None
  Requests <- MCRequests
SPECIFICATION Spec
INVARIANT TypeOK
INVARIANT SeatsNonNegative
INVARIANT PoolAccounting
PROPERTY PoolImplementsSemaphore
PROPERTY ConnectionsReturned
