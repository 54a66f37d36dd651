------------------------------ MODULE MCGroups ------------------------------
(* Groups instantiated for TLC: three URNs of which two are registered    *)
(* users, one group name, two connection threads.                         *)
EXTENDS Groups, TLC

CONSTANTS u1, u2, u3

MCSymmetry == Permutations(Clients)
====
