--------------------------- MODULE MCReservation ---------------------------
(* Reservation instantiated for TLC.  One registered vehicle v1 (a bus    *)
(* with two free seats of two) and one URI v2 with no row, so that both   *)
(* the found and the not-found paths of every handler are reachable.      *)
EXTENDS Reservation, TLC

CONSTANTS v1, v2, BUS, TRAM

MCInitRows ==
  [v \in Vehicles |->
     IF v = v1 THEN [type |-> BUS, capacity |-> 2, available |-> 2] ELSE None]

(* Requests name their vehicle one way: by uri (what UserInterface sends) *)
(* or by route and type (what createReserveSeat / createPurchaseTicket     *)
(* carry when given a route), or not at all.                               *)
OneWay(r) == r.route # None => r.uri = None

MCRequests ==
  {r \in ReserveRequests \cup PurchaseRequests : r.op \in Ops /\ OneWay(r)}
  \cup {r \in CapacityRequests \cup RegisterRequests \cup VehicleRequests
          : r.op \in Ops}

MCSymmetry == Permutations(Clients)
====
