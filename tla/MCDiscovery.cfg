CONSTANTS
    Coordinators = {"s1", "s2"}
    Clients = {c1}
    Prober = prober
    Noise <- MCNoise
    Strays <- MCStrays
    TcpPort <- MCTcpPort
    CliPort = 4433
    Localhost = localhost
    MaxProbes = 1
    MaxDups = 1
    None = None
    DISCOVER = DISCOVER
    ANNOUNCE = ANNOUNCE
    central = central
    CR = CR
    LF = LF
    SP = SP
    HELLO = HELLO

SPECIFICATION Spec

\* Every client finishes and every queued datagram is taken or lost: the
\* system really comes to rest.
CHECK_DEADLOCK FALSE

INVARIANT DiscoveredAnnouncer
INVARIANT DiscoverySucceeds
PROPERTY DiscoveryEnds
PROPERTY ResponderDrains
PROPERTY StopReturns
