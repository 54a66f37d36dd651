---------------------------- MODULE MCDiscovery ----------------------------
(* Two coordinators on different TLS ports, one client, and one other host *)
(* that may send a DISCOVER with trailing CR LF or an ANNOUNCE of its own  *)
(* to the group, and may answer a waiting client itself.                   *)
EXTENDS Discovery

CONSTANT HELLO

MCTcpPort == [s \in Coordinators |-> IF s = "s1" THEN 4433 ELSE 5544]

MCNoise == {<<DISCOVER, CR, LF>>, <<ANNOUNCE, central, 80>>}

\* a well-formed ANNOUNCE with a trailing CR LF, and an empty datagram
MCStrays == {<<ANNOUNCE, central, 80, CR, LF>>, <<>>}

\* a reply of another protocol that happens to end in a number
MCMalformed == {<<HELLO, central, 80>>}

====
