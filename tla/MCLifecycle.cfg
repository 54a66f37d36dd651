CONSTANTS
    Conns = {k1, k2}
    Loops = {heartbeat, cleanup}
    MaxRequests = 2

SPECIFICATION Spec

\* The process ends: after exit(0) (or a failed start) nothing runs.
CHECK_DEADLOCK FALSE

INVARIANT TypeOK
PROPERTY ServerStopReturns
PROPERTY RequestsServed
