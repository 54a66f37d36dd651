\* Two connections, one registered and one unknown URN, three requests in
\* all.  Fan-out to a closed peer, re-authentication, listen mode and
\* session expiry all occur.
CONSTANTS
    Conns = {c1, c2}
    Users = {u1, u2}
    Registered = {u1}
    MaxSessions = 3
    MaxRequests = 3
    BufCap = 8
    None = None
    c1 = c1
    c2 = c2
    u1 = u1
    u2 = u2
SPECIFICATION Spec
CHECK_DEADLOCK FALSE
INVARIANT SubscribersLive
