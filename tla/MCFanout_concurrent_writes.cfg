\* Two connections, a registered URN, four requests in all: enough for one
\* connection to be answering its own request while the other fans out.
CONSTANTS
    Conns = {c1, c2}
    Users = {u1}
    Registered = {u1}
    MaxSessions = 4
    MaxRequests = 4
    BufCap = 8
    None = None
    c1 = c1
    c2 = c2
    u1 = u1
    u2 = u2
SPECIFICATION Spec
CHECK_DEADLOCK FALSE
INVARIANT NoConcurrentWrites
