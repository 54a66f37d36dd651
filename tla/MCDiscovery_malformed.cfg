\* Another host answers a waiting client with a datagram that is not an
\* ANNOUNCE but whose third field is a number.
CONSTANTS
    Coordinators = {"s1", "s2"}
    Clients = {c1}
    Prober = prober
    Noise <- MCNoise
    Strays <- MCMalformed
    TcpPort <- MCTcpPort
    CliPort = 4433
    Localhost = localhost
    MaxProbes = 1
    MaxDups = 1
    None = None
    DISCOVER = DISCOVER
    ANNOUNCE = ANNOUNCE
    central = central
    CR = CR
    LF = LF
    SP = SP
    HELLO = HELLO

SPECIFICATION Spec

INVARIANT DiscoveredAnnouncer
