\* Purchases with one failing statement.
CONSTANTS
  Clients = {c1, c2}
  v1 = v1
  v2 = v2
  BUS = BUS
  TRAM = TRAM
  Vehicles = {v1}
  VehicleTypes = {BUS, TRAM}
  PoolSize = 2
  RegisterCapacity = 2
  InitRows <- MCInitRows
  MaxCapacity = 2
  MaxPassengers = 2
  MaxPurchases = 2
  MaxDbErrors = 1
  Ops = {"reserve", "purchase"}
  None = None
  Requests <- MCRequests
SPECIFICATION Spec
INVARIANTS TicketsSettled
