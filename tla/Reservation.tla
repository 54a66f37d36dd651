---------------------------- MODULE Reservation ----------------------------
(***************************************************************************)
(* Seats on vehicles, as the central server changes them.                  *)
(*                                                                         *)
(* CentralServer runs one thread per accepted TLS connection               *)
(* (handleClientMessage).  Each thread takes one request at a time and     *)
(* runs its handler; the handlers below read and write the vehicles,       *)
(* tickets and payments tables through a connection borrowed from the      *)
(* process-wide DatabasePool:                                              *)
(*   RESERVE_SEAT     handleSeatReservation                                *)
(*   PURCHASE_TICKET  handleTicketPurchase                                 *)
(*   UPDATE_CAPACITY  handleUpdateCapacity / Database::updateVehicleCapacity*)
(*   REGISTER_DEVICE  handleDeviceRegistration / Database::registerVehicle  *)
(*   UPDATE_VEHICLE   handleUpdateVehicle / Database::updateVehicle         *)
(*                                                                         *)
(* Every Database call holds that connection's mutex and runs one SQLite   *)
(* statement in autocommit mode, so each call is one atomic step.  No      *)
(* handler opens a transaction: the value a handler read is a local copy   *)
(* (the std::unique_ptr<Vehicle>) that other threads may make stale before *)
(* the handler writes available_seats computed from it.                    *)
(*                                                                         *)
(* Steps are grouped where no other thread can observe the difference:     *)
(* getConnection is merged into the handler's first statement and          *)
(* returnConnection into its last one.  A statement may fail (SQLite BUSY  *)
(* or I/O error: the connections share one file and set no busy timeout);  *)
(* failures are drawn from a budget of MaxDbErrors.                        *)
(***************************************************************************)
EXTENDS Naturals, FiniteSets, FiniteSetsExt

CONSTANTS
  Clients,          \* connection threads, one per TLS connection
  Vehicles,         \* vehicle URIs; the route of a registered URI u is "Route_"+u
  VehicleTypes,     \* VehicleType: BUS, TRAM, TROLLEYBUS
  PoolSize,         \* DatabasePool size (initializeDatabase passes 5)
  RegisterCapacity, \* capacity = available_seats of a new device (code: 50)
  InitRows,         \* vehicles table at start: [Vehicles -> Row \cup {None}]
  MaxCapacity,      \* largest capacity an UPDATE_CAPACITY request carries
  MaxPassengers,    \* largest passengers value of a PURCHASE_TICKET request
  MaxPurchases,     \* bound: purchase requests accepted in one behaviour
  MaxDbErrors,      \* bound: failing SQLite statements in one behaviour
  Ops,              \* request kinds the clients send
  None              \* absent key / absent row / no connection

Row == [type: VehicleTypes, capacity: Nat, available: Int]

ASSUME /\ Clients # {} /\ Vehicles # {} /\ PoolSize \in Nat \ {0}
       /\ Ops \subseteq {"reserve", "purchase", "capacity", "register",
                        "vehicle"}
       /\ InitRows \in [Vehicles -> Row \cup {None}]

(* Requests as the handlers see them after Message::getString/getInt.     *)
(* uri = None / route = None: key absent.  For REGISTER_DEVICE uri = None  *)
(* is a URI that fails validateURI.  identity of a purchase: a valid       *)
(* session_id or the urn of a registered user ("known"), the urn of an    *)
(* unregistered user ("unknown"), an unknown session_id ("bad_session"),   *)
(* neither key ("missing").                                                *)
ReserveRequests ==
  [op: {"reserve"}, urn: BOOLEAN, uri: Vehicles \cup {None},
   route: Vehicles \cup {None}, vtype: VehicleTypes]
PurchaseRequests ==
  [op: {"purchase"}, identity: {"known", "unknown", "bad_session", "missing"},
   uri: Vehicles \cup {None}, route: Vehicles \cup {None},
   vtype: VehicleTypes, passengers: 1 .. MaxPassengers]
CapacityRequests ==
  [op: {"capacity"}, uri: Vehicles \cup {None}, capacity: 0 .. MaxCapacity,
   available: (0 .. MaxCapacity) \cup {None}]
RegisterRequests ==
  [op: {"register"}, uri: Vehicles \cup {None}, vtype: VehicleTypes]
(* UPDATE_VEHICLE: vtype = None is a request with no vehicle_type (and, in *)
(* the model, no active or route: a route is named after its URI, so       *)
(* renames are not sent).                                                  *)
VehicleRequests ==
  [op: {"vehicle"}, uri: Vehicles \cup {None}, vtype: VehicleTypes \cup {None}]

Requests ==
  UNION { CASE o = "reserve"  -> ReserveRequests
            [] o = "purchase" -> PurchaseRequests
            [] o = "capacity" -> CapacityRequests
            [] o = "register" -> RegisterRequests
            [] o = "vehicle"  -> VehicleRequests : o \in Ops }

VARIABLES
  vehicle,     \* vehicles table: URI -> Row, or None when no row
  tickets,     \* tickets table: [tid, uri, seat, buy] (buy: tid of the first ticket of its purchase)
  payments,    \* payments table: the ticket_id each payment row refers to
  nextTicket,  \* generateTicketId's static counter
  available,   \* DatabasePool::available_
  pc,          \* where each connection thread is
  req,         \* the request a thread is handling
  conn,        \* the pool connection a thread holds
  snap,        \* the thread's copy of the vehicle row it read: [uri, row]
  made,        \* tickets created so far by the thread's purchase
  resp,        \* the code answered to the thread's request, None while it runs
  settled,     \* history: purchases (first tid) that answered success
  purchases,   \* bound counter: purchase requests accepted
  dbErrors     \* bound counter: statements that failed

vars == <<vehicle, tickets, payments, nextTicket, available, pc, req, conn,
          snap, made, resp, settled, purchases, dbErrors>>

(* The connection pool, borrowed by the connection threads. *)
INSTANCE Pool WITH Threads <- Clients

Labels == {"idle", "lookup", "reserve_write", "create_ticket",
           "record_payment", "purchase_seats", "update_capacity", "register",
           "update_vehicle"}

TypeOK ==
  /\ vehicle \in [Vehicles -> Row \cup {None}]
  /\ tickets \subseteq [tid: Nat, uri: Vehicles, seat: Int, buy: Nat]
  /\ payments \subseteq Nat
  /\ nextTicket \in Nat
  /\ PoolTypeOK
  /\ pc \in [Clients -> Labels]
  /\ req \in [Clients -> Requests \cup {None}]
  /\ snap \in [Clients -> [uri: Vehicles, row: Row] \cup {None}]
  /\ made \in [Clients -> SUBSET Nat]
  /\ resp \in [Clients -> {None, 200, -1, 400, 401, 404, 409, 500}]
  /\ settled \subseteq Nat
  /\ purchases \in 0 .. MaxPurchases
  /\ dbErrors \in 0 .. MaxDbErrors

Init ==
  /\ vehicle = InitRows
  /\ tickets = {}
  /\ payments = {}
  /\ nextTicket = 0
  /\ PoolInit
  /\ pc = [t \in Clients |-> "idle"]
  /\ req = [t \in Clients |-> None]
  /\ snap = [t \in Clients |-> None]
  /\ made = [t \in Clients |-> {}]
  /\ resp = [t \in Clients |-> None]
  /\ settled = {}
  /\ purchases = 0
  /\ dbErrors = 0
-----------------------------------------------------------------------------
(* A statement fails: taken from the error budget. *)
DbFails == dbErrors < MaxDbErrors /\ dbErrors' = dbErrors + 1

(* The thread answers with code and goes back to receiveMessage. *)
Reply(t, code) ==
  /\ resp' = [resp EXCEPT ![t] = code]
  /\ pc' = [pc EXCEPT ![t] = "idle"]
  /\ req' = [req EXCEPT ![t] = None]
  /\ snap' = [snap EXCEPT ![t] = None]
  /\ made' = [made EXCEPT ![t] = {}]

(* Vehicle the handler resolves: getVehicle(uri) first, then               *)
(* getVehicleByRouteAndType(route, vehicle_type).  A route names the one   *)
(* URI it was generated from.  handleSeatReservation falls back to the     *)
(* other vehicle types, so any row with that route matches; the purchase   *)
(* handler has no fallback and needs the requested type.                   *)
ReserveTarget(r) ==
  CASE r.uri # None /\ vehicle[r.uri] # None     -> r.uri
    [] r.route # None /\ vehicle[r.route] # None -> r.route
    [] OTHER                                     -> None

PurchaseTarget(r) ==
  CASE r.uri # None /\ vehicle[r.uri] # None -> r.uri
    [] r.route # None /\ vehicle[r.route] # None
         /\ vehicle[r.route].type = r.vtype  -> r.route
    [] OTHER                                 -> None
-----------------------------------------------------------------------------
(* processMessage after receiveMessage: the checks a handler makes before *)
(* it touches the database.  EarlyError is the code it then answers with, *)
(* or None when it goes on to the database.                               *)
EarlyError(r) ==
  CASE r.op = "reserve" /\ ~r.urn                          -> -1
    [] r.op = "purchase" /\ r.identity = "bad_session"     -> 401
    [] r.op = "purchase" /\ r.identity = "missing"         -> 400
    [] r.op \in {"capacity", "register", "vehicle"} /\ r.uri = None -> 400
    [] OTHER                                               -> None

FirstStep(r) ==
  CASE r.op \in {"reserve", "purchase"} -> "lookup"
    [] r.op = "capacity"                -> "update_capacity"
    [] r.op = "register"                -> "register"
    [] r.op = "vehicle"                 -> "update_vehicle"

Receive(t) ==
  /\ pc[t] = "idle"
  /\ \E r \in Requests :
       /\ r.op = "purchase" => purchases < MaxPurchases
       /\ purchases' = IF r.op = "purchase" THEN purchases + 1 ELSE purchases
       /\ \/ /\ EarlyError(r) # None
             /\ resp' = [resp EXCEPT ![t] = EarlyError(r)]
             /\ UNCHANGED <<pc, req>>
          \/ /\ EarlyError(r) = None
             /\ pc' = [pc EXCEPT ![t] = FirstStep(r)]
             /\ req' = [req EXCEPT ![t] = r]
             /\ resp' = [resp EXCEPT ![t] = None]
  /\ UNCHANGED <<vehicle, tickets, payments, nextTicket, available, conn,
                 snap, made, settled, dbErrors>>

(* Seats a request needs, and the seat checks of the two handlers. *)
Need(r) == IF r.op = "reserve" THEN 1 ELSE r.passengers

(* Mutants of the seat checks: reservation off by one, purchase checking *)
(* only for an empty vehicle as the reservation does.                    *)
ReserveRejectsOffByOne(row) == row.available < 0

PurchaseRejectsEmptyOnly(row, n) == row.available <= 0

ReserveRejects(row) == row.available <= 0

PurchaseRejects(row, n) == row.available < n

(* getConnection, getVehicle / getVehicleByRouteAndType and the seat      *)
(* check.  A failing SELECT makes the lookup return nullptr, which the    *)
(* handler reports as "not found".  Translated from handleSeatReservation *)
(* (CS:384-423); handleTicketPurchase's lookup (CS:489-516) is the same.   *)
Lookup(t) ==
  LET r    == req[t]
      v    == IF r.op = "reserve" THEN ReserveTarget(r) ELSE PurchaseTarget(r)
      lost == IF r.op = "reserve" THEN -1 ELSE 404
      full == IF r.op = "reserve" THEN -1 ELSE 409
      rejects == IF r.op = "reserve" THEN ReserveRejects(vehicle[v])
                                     ELSE PurchaseRejects(vehicle[v], r.passengers)
  IN
  /\ pc[t] = "lookup"
  /\ \/ /\ v = None
        /\ BorrowAndReturn
        /\ Reply(t, lost)
        /\ UNCHANGED dbErrors
     \/ /\ v # None
        /\ BorrowAndReturn
        /\ DbFails
        /\ Reply(t, lost)
     \/ /\ v # None
        /\ rejects
        /\ BorrowAndReturn
        /\ Reply(t, full)
        /\ UNCHANGED dbErrors
     \/ /\ v # None
        /\ ~rejects
        /\ getConnection(t)
        /\ snap' = [snap EXCEPT ![t] = [uri |-> v, row |-> vehicle[v]]]
        /\ pc' = [pc EXCEPT ![t] = IF r.op = "reserve" THEN "reserve_write"
                                                       ELSE "create_ticket"]
        /\ UNCHANGED <<req, made, resp, dbErrors>>
  /\ UNCHANGED <<vehicle, tickets, payments, nextTicket, settled, purchases>>

(* Database::updateSeatAvailability(uri, n): UPDATE vehicles SET          *)
(* available_seats = n, n computed from the thread's copy of the row.     *)
SetSeats(uri, n) ==
  vehicle' = [vehicle EXCEPT ![uri] = [@ EXCEPT !.available = n]]

(* handleSeatReservation: write available_seats - 1, return the           *)
(* connection, answer.                                                    *)
ReserveWrite(t) ==
  /\ pc[t] = "reserve_write"
  /\ returnConnection(t)
  /\ \/ /\ DbFails
        /\ Reply(t, -1)
        /\ UNCHANGED vehicle
     \/ /\ SetSeats(snap[t].uri, snap[t].row.available - 1)
        /\ Reply(t, 200)
        /\ UNCHANGED dbErrors
  /\ UNCHANGED <<tickets, payments, nextTicket, settled, purchases>>

(* handleTicketPurchase, one createTicket per passenger.  The id comes    *)
(* from generateTicketId before the INSERT, so a failed INSERT uses one   *)
(* too.  The INSERT fails on the user_urn foreign key when the urn is not *)
(* a registered user.  On failure the handler returns the connection and  *)
(* answers 500; tickets already inserted stay.                            *)
SeatLabel(s, i) == s.row.capacity - s.row.available + i + 1

(* generateTicketId: ++counter on a static std::atomic<int>, so two       *)
(* threads never draw the same number.                                    *)
generateTicketId == nextTicket + 1

CreateTicket(t) ==
  LET s   == snap[t]
      i   == Cardinality(made[t])
      tid == generateTicketId
      buy == IF made[t] = {} THEN tid ELSE Min(made[t])
  IN
  /\ pc[t] = "create_ticket"
  /\ nextTicket' = tid
  /\ \/ /\ \/ req[t].identity = "unknown" /\ UNCHANGED dbErrors
           \/ DbFails
        /\ returnConnection(t)
        /\ Reply(t, 500)
        /\ UNCHANGED tickets
     \/ /\ req[t].identity = "known"
        /\ tickets' = tickets \cup
             {[tid |-> tid, uri |-> s.uri, seat |-> SeatLabel(s, i), buy |-> buy]}
        /\ made' = [made EXCEPT ![t] = @ \cup {tid}]
        /\ pc' = [pc EXCEPT ![t] = IF i + 1 = req[t].passengers
                                    THEN "record_payment" ELSE "create_ticket"]
        /\ UNCHANGED <<available, conn, req, snap, resp, dbErrors>>
  /\ UNCHANGED <<vehicle, payments, settled, purchases>>

(* recordPayment: one row, referring to the first ticket. *)
(* Mutant: the payment error path answers without returning the          *)
(* connection.                                                            *)
RecordPaymentKeepsConn(t) ==
  /\ pc[t] = "record_payment"
  /\ \/ /\ DbFails
        /\ Reply(t, 500)
        /\ UNCHANGED <<payments, available, conn>>
     \/ /\ payments' = payments \cup {Min(made[t])}
        /\ pc' = [pc EXCEPT ![t] = "purchase_seats"]
        /\ UNCHANGED <<available, conn, req, snap, made, resp, dbErrors>>
  /\ UNCHANGED <<vehicle, tickets, nextTicket, settled, purchases>>

RecordPayment(t) ==
  /\ pc[t] = "record_payment"
  /\ \/ /\ DbFails
        /\ returnConnection(t)
        /\ Reply(t, 500)
        /\ UNCHANGED payments
     \/ /\ payments' = payments \cup {Min(made[t])}
        /\ pc' = [pc EXCEPT ![t] = "purchase_seats"]
        /\ UNCHANGED <<available, conn, req, snap, made, resp, dbErrors>>
  /\ UNCHANGED <<vehicle, tickets, nextTicket, settled, purchases>>

(* The purchase's last statement: available_seats - passengers. *)
PurchaseSeats(t) ==
  /\ pc[t] = "purchase_seats"
  /\ returnConnection(t)
  /\ \/ /\ DbFails
        /\ Reply(t, 500)
        /\ UNCHANGED <<vehicle, settled>>
     \/ /\ SetSeats(snap[t].uri, snap[t].row.available - req[t].passengers)
        /\ settled' = settled \cup {Min(made[t])}
        /\ Reply(t, 200)
        /\ UNCHANGED dbErrors
  /\ UNCHANGED <<tickets, payments, nextTicket, purchases>>

(* Database::updateVehicleCapacity: rejects capacity < 0,                 *)
(* available_seats < 0 or available_seats > capacity; "Vehicle not found"  *)
(* when the UPDATE changes no row.  available_seats defaults to capacity.  *)
CapacityValid(c, a) == c >= 0 /\ a >= 0 /\ a <= c

UpdateCapacity(t) ==
  LET r == req[t]
      a == IF r.available = None THEN r.capacity ELSE r.available
  IN
  /\ pc[t] = "update_capacity"
  /\ BorrowAndReturn
  /\ \/ /\ \/ ~CapacityValid(r.capacity, a)
           \/ vehicle[r.uri] = None
        /\ Reply(t, 500)
        /\ UNCHANGED <<vehicle, dbErrors>>
     \/ /\ CapacityValid(r.capacity, a)
        /\ vehicle[r.uri] # None
        /\ DbFails
        /\ Reply(t, 500)
        /\ UNCHANGED vehicle
     \/ /\ CapacityValid(r.capacity, a)
        /\ vehicle[r.uri] # None
        /\ vehicle' = [vehicle EXCEPT ![r.uri] =
                          [@ EXCEPT !.capacity = r.capacity, !.available = a]]
        /\ Reply(t, 200)
        /\ UNCHANGED dbErrors
  /\ UNCHANGED <<tickets, payments, nextTicket, settled, purchases>>

(* Database::registerVehicle is INSERT OR REPLACE: an existing row is      *)
(* replaced by a fresh one (capacity = available_seats = 50), so the       *)
(* handler's 409 "Device already exists" branch is never taken.            *)
Register(t) ==
  LET r == req[t] IN
  /\ pc[t] = "register"
  /\ BorrowAndReturn
  /\ \/ /\ DbFails
        /\ Reply(t, 500)
        /\ UNCHANGED vehicle
     \/ /\ vehicle' = [vehicle EXCEPT ![r.uri] =
                          [type |-> r.vtype, capacity |-> RegisterCapacity,
                           available |-> RegisterCapacity]]
        /\ Reply(t, 200)
        /\ UNCHANGED dbErrors
  /\ UNCHANGED <<tickets, payments, nextTicket, settled, purchases>>

(* Database::updateVehicle: "Nothing to update" without any field, else   *)
(* one UPDATE, "Vehicle not found" when it changes no row; every failure  *)
(* answers 500.                                                           *)
UpdateVehicle(t) ==
  LET r == req[t] IN
  /\ pc[t] = "update_vehicle"
  /\ BorrowAndReturn
  /\ \/ /\ r.vtype = None \/ vehicle[r.uri] = None
        /\ Reply(t, 500)
        /\ UNCHANGED <<vehicle, dbErrors>>
     \/ /\ r.vtype # None /\ vehicle[r.uri] # None
        /\ DbFails
        /\ Reply(t, 500)
        /\ UNCHANGED vehicle
     \/ /\ r.vtype # None /\ vehicle[r.uri] # None
        /\ vehicle' = [vehicle EXCEPT ![r.uri].type = r.vtype]
        /\ Reply(t, 200)
        /\ UNCHANGED dbErrors
  /\ UNCHANGED <<tickets, payments, nextTicket, settled, purchases>>
-----------------------------------------------------------------------------
Handle(t) ==
  \/ Lookup(t) \/ ReserveWrite(t) \/ CreateTicket(t) \/ RecordPayment(t)
  \/ PurchaseSeats(t) \/ UpdateCapacity(t) \/ Register(t)
  \/ UpdateVehicle(t)

Next == \E t \in Clients : Receive(t) \/ Handle(t)

(* Each connection thread is an OS thread: once it has a request it keeps *)
(* running its handler.  Clients need not send anything (no fairness on    *)
(* Receive).                                                               *)
Fairness == \A t \in Clients : WF_vars(Handle(t))

Spec == Init /\ [][Next]_vars /\ Fairness
-----------------------------------------------------------------------------
(* Properties *)

(* No interleaving of reservations, purchases, capacity updates and       *)
(* re-registrations, however stale the row a handler read, ever writes a   *)
(* negative available_seats (the handlers' seat checks against their own   *)
(* copy of the row are enough for this).                                   *)
SeatsNonNegative ==
  \A v \in Vehicles : vehicle[v] # None => vehicle[v].available >= 0

(* DatabasePool bookkeeping: a slot is marked unavailable exactly when one *)
(* thread holds it.  Every return path of every handler gives back the     *)
(* connection it took, once.                                               *)
PoolAccounting ==
  /\ SlotsMatchHolders
  /\ \A t \in Clients : pc[t] = "idle" => conn[t] = None

(* A borrowed connection is always given back: no handler path keeps it   *)
(* while it waits for something (which would starve every thread blocked  *)
(* in getConnection).                                                     *)
ConnectionsReturned == \A c \in Conns : ~available[c] ~> available[c]

(* The pool as the handlers use it behaves as a counting semaphore of    *)
(* PoolSize: getConnection blocks a thread rather than let more than      *)
(* PoolSize threads hold a connection, and a connection is only given     *)
(* back by the thread that holds it.                                      *)
PoolImplementsSemaphore == Sem!Spec

(* Spec 8: every successful RESERVE_SEAT / PURCHASE_TICKET for N seats is *)
(* one commit that lowers available_seats by exactly N.                    *)
SeatCommit(t) ==
  /\ pc[t] \in {"reserve_write", "purchase_seats"}
  /\ pc'[t] = "idle" /\ resp'[t] = 200

SeatCommitExact ==
  [][\A t \in Clients :
       SeatCommit(t) =>
         vehicle'[snap[t].uri].available
           = vehicle[snap[t].uri].available - Need(req[t])]_vars

(* Spec 4.F: the purchase is all-or-nothing.  Every ticket row belongs to *)
(* a purchase that answered success, or to one still running.             *)
TicketsSettled ==
  \A tk \in tickets :
    \/ tk.buy \in settled
    \/ \E t \in Clients : tk.tid \in made[t]
====
