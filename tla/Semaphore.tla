----------------------------- MODULE Semaphore -----------------------------
(* What DatabasePool promises its callers: at most Capacity threads hold a *)
(* connection at a time; a thread that holds none may take one while      *)
(* fewer than Capacity are held, and gives back the one it holds.          *)
EXTENDS Naturals, FiniteSets

CONSTANTS Threads, Capacity

VARIABLE holders

Init == holders = {}

Acquire(t) ==
  /\ t \notin holders
  /\ Cardinality(holders) < Capacity
  /\ holders' = holders \cup {t}

Release(t) ==
  /\ t \in holders
  /\ holders' = holders \ {t}

Next == \E t \in Threads : Acquire(t) \/ Release(t)

Spec == Init /\ [][Next]_holders
====
