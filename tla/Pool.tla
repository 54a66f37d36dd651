-------------------------------- MODULE Pool --------------------------------
(* DatabasePool (unnamed/part_006): PoolSize connections to one SQLite   *)
(* file, an available_ flag per slot, pool_mutex_ and pool_cv_.  A        *)
(* caller of getConnection blocks on pool_cv_ until some slot is free and *)
(* takes the first free one; returnConnection marks the caller's slot     *)
(* available and notifies one waiter.  Both run under pool_mutex_, so     *)
(* each is one step; the blocking wait is the guard of getConnection.     *)
EXTENDS Naturals, FiniteSets, FiniteSetsExt

CONSTANTS
  Threads,   \* threads that borrow connections
  PoolSize,  \* connections (initializeDatabase passes 5)
  None       \* no connection

VARIABLES
  available, \* DatabasePool::available_
  conn       \* the connection each thread holds, or None

Conns == 1 .. PoolSize

PoolInit ==
  /\ available = [c \in Conns |-> TRUE]
  /\ conn = [t \in Threads |-> None]

PoolTypeOK ==
  /\ available \in [Conns -> BOOLEAN]
  /\ conn \in [Threads -> Conns \cup {None}]

FreeConns == {c \in Conns : available[c]}
FirstFree == Min(FreeConns)

(* Variants of getConnection with plausible bugs: the slot after the one *)
(* marked taken is handed out; the scan always hands out slot 1; the     *)
(* caller does not wait on pool_cv_ when no slot is free.                *)
getConnectionOffByOne(t) ==
  /\ FreeConns # {}
  /\ conn' = [conn EXCEPT ![t] = FirstFree + 1]
  /\ available' = [available EXCEPT ![FirstFree] = FALSE]

getConnectionFirstSlot(t) ==
  /\ FreeConns # {}
  /\ conn' = [conn EXCEPT ![t] = 1]
  /\ available' = [available EXCEPT ![1] = FALSE]

getConnectionNoWait(t) ==
  /\ conn' = [conn EXCEPT ![t] = 1]
  /\ available' = [available EXCEPT ![1] = FALSE]

getConnection(t) ==
  /\ FreeConns # {}
  /\ conn' = [conn EXCEPT ![t] = FirstFree]
  /\ available' = [available EXCEPT ![FirstFree] = FALSE]

(* Variant: the connection is dropped without marking its slot available. *)
returnConnectionNoMark(t) ==
  /\ conn' = [conn EXCEPT ![t] = None]
  /\ UNCHANGED available

returnConnection(t) ==
  /\ available' = [available EXCEPT ![conn[t]] = TRUE]
  /\ conn' = [conn EXCEPT ![t] = None]

(* A caller that takes a connection and gives it back within one step:   *)
(* it needs a free slot and leaves the pool as it found it.               *)
BorrowAndReturn == FreeConns # {} /\ UNCHANGED <<available, conn>>

Holders == {t \in Threads : conn[t] # None}

(* A slot is marked unavailable exactly when one thread holds it. *)
SlotsMatchHolders ==
  /\ \A c \in Conns : ~available[c] <=> \E t \in Threads : conn[t] = c
  /\ \A t, u \in Threads : conn[t] # None /\ conn[t] = conn[u] => t = u

Sem == INSTANCE Semaphore WITH holders <- Holders, Capacity <- PoolSize
====
