----------------------------- MODULE Discovery -----------------------------
(***************************************************************************)
(* UDP multicast discovery: the coordinator's responder                    *)
(* (CentralServer::setupMulticast, startMulticastReceive_,                 *)
(* cleanupMulticast) and the client's UserInterface::discoverServer as     *)
(* called from connect("auto").                                            *)
(*                                                                         *)
(* The network is a bag of datagrams that may be lost, duplicated (within  *)
(* a budget) and delivered in any order.  A datagram to the group is one   *)
(* copy per coordinator that has joined it.  A payload is a sequence of    *)
(* tokens: a word, a number, or one of the characters CR, LF, SP.  Words   *)
(* and characters are model values, so any token compares with a number.  *)
(*                                                                         *)
(* Time is not modelled.  The client's 1500 ms timer may fire once nothing *)
(* of its exchange is still on its way: no datagram to the client is in    *)
(* flight, and none from it waits at a coordinator that will read it.  An  *)
(* answer later than the timeout is modelled as a lost one.                *)
(***************************************************************************)
EXTENDS Naturals, Sequences, SequencesExt, Bags, BagsExt

CONSTANTS
    Coordinators,   \* central servers on the LAN (their host is the name)
    Clients,        \* user clients started with --discover
    Prober,         \* any other sender of datagrams to the group
    Noise,          \* payloads such a sender may send to the group
    Strays,         \* payloads such a sender may send to a waiting client
    TcpPort,        \* TcpPort[s]: port_, the TLS port coordinator s listens on
    CliPort,        \* the port given on the client's command line
    Localhost,      \* "127.0.0.1"
    MaxProbes,      \* bound on the datagrams the prober sends
    MaxDups,        \* bound on duplicated datagrams
    None,
    DISCOVER, ANNOUNCE, central,  \* the words of the protocol
    CR, LF, SP                    \* the bytes '\r', '\n' and ' '

ASSUME MaxProbes \in Nat /\ MaxDups \in Nat

Endpoint == Coordinators \cup Clients \cup {Prober}

\* the client's kDiscover, sizeof - 1 bytes: no terminator
DiscoverPayload == <<DISCOVER>>

\* "ANNOUNCE central " + std::to_string(port_)
Announce(s) == <<ANNOUNCE, central, TcpPort[s]>>

Datagram(to, from, payload) == [to |-> to, from |-> from, payload |-> payload]

\* where the client connects after discovery failed
Fallback == <<Localhost, CliPort>>

VARIABLES
    mcast,      \* mcast[s]: "off" (disabled or setup failed) | "listening"
                \*   | "stopping" (closed, stop() in join) | "closed"
    armed,      \* armed[s]: an async_receive_from is outstanding on mcast_sock_
    io,         \* io[s]: mcast_io_ is "running" or "stopped"
    net,        \* bag of datagrams in flight or in a socket's receive buffer
    cpc,        \* cpc[c]: "idle" | "wait" (in io.run) | "done"
    rx,         \* rx[c]: the client's receive: "armed" | "replied" | "ended"
    timer,      \* timer[c]: "armed" | "fired" | "cancelled"
    answer,     \* answer[c]: the datagram the receive handler took, or None
    target,     \* target[c]: <<host, port>> connect() uses, or None
    probes,     \* datagrams the prober has sent
    dups,       \* datagrams duplicated so far
    lossy,      \* lossy[c]: a datagram to or from c was dropped (history)
    heard,      \* heard[c]: some coordinator had joined when c sent (history)
    strayed     \* strayed[c]: another host sent to c's port (history)

vars == <<mcast, armed, io, net, cpc, rx, timer, answer, target, probes, dups, lossy, heard, strayed>>

Joined == {s \in Coordinators : mcast[s] = "listening"}

\* send_to the group: one copy to every member that has joined
ToGroup(from, payload) ==
    [d \in {Datagram(s, from, payload) : s \in Joined} |-> 1]

InFlight == BagToSet(net)

\* msg.pop_back() while the last byte is '\r', '\n' or ' '
RECURSIVE Trim(_)
Trim(p) == IF p # <<>> /\ Last(p) \in {CR, LF, SP} THEN Trim(Front(p)) ELSE p

\* operator>> skips whitespace between the fields it reads
Words(p) == SelectSeq(p, LAMBDA t : t \notin {CR, LF, SP})

\* iss >> a >> who >> port: the third field if it is a number, else port
\* keeps its 0; a and who are never looked at
ParsePort(p) == IF Len(Words(p)) >= 3 /\ Words(p)[3] \in Nat THEN Words(p)[3] ELSE 0

\* "ANNOUNCE central <port>", whitespace around the fields tolerated
WellFormedAnnounce(p, port) == Words(p) = <<ANNOUNCE, central, port>> /\ port \in 1..65535

Init ==
    /\ mcast \in [Coordinators -> {"off", "listening"}]
    /\ armed = [s \in Coordinators |-> mcast[s] = "listening"]
    /\ io = [s \in Coordinators |-> IF mcast[s] = "listening" THEN "running" ELSE "stopped"]
    /\ net = EmptyBag
    /\ cpc = [c \in Clients |-> "idle"]
    /\ rx = [c \in Clients |-> "ended"]
    /\ timer = [c \in Clients |-> "cancelled"]
    /\ answer = [c \in Clients |-> None]
    /\ target = [c \in Clients |-> None]
    /\ probes = 0
    /\ dups = 0
    /\ lossy = [c \in Clients |-> FALSE]
    /\ heard = [c \in Clients |-> FALSE]
    /\ strayed = [c \in Clients |-> FALSE]

-----------------------------------------------------------------------------
(* Coordinator                                                             *)

\* Mutant: the next receive is armed only in the branch that answered.
HandleNoRearm(s) ==
    /\ mcast[s] = "listening"
    /\ armed[s]
    /\ \E d \in InFlight :
        /\ d.to = s
        /\ net' = IF Trim(d.payload) = DiscoverPayload
                  THEN BagAdd(BagRemove(net, d), Datagram(d.from, s, Announce(s)))
                  ELSE BagRemove(net, d)
        /\ armed' = [armed EXCEPT ![s] = Trim(d.payload) = DiscoverPayload]
    /\ UNCHANGED <<mcast, io, cpc, rx, timer, answer, target, probes, dups, lossy, heard, strayed>>

\* Mutant: ANNOUNCE is sent to mcast_group_ instead of the sender.
HandleAnnounceToGroup(s) ==
    /\ mcast[s] = "listening"
    /\ armed[s]
    /\ \E d \in InFlight :
        /\ d.to = s
        /\ net' = IF Trim(d.payload) = DiscoverPayload
                  THEN BagRemove(net, d) (+) ToGroup(s, Announce(s))
                  ELSE BagRemove(net, d)
    /\ armed' = armed
    /\ UNCHANGED <<mcast, io, cpc, rx, timer, answer, target, probes, dups, lossy, heard, strayed>>

\* the receive handler of startMulticastReceive_: take a datagram, trim it,
\* answer "DISCOVER" with ANNOUNCE to the sender, arm the next receive
Handle(s) ==
    /\ mcast[s] = "listening"
    /\ armed[s]
    /\ \E d \in InFlight :
        /\ d.to = s
        /\ net' = IF Trim(d.payload) = DiscoverPayload
                  THEN BagAdd(BagRemove(net, d), Datagram(d.from, s, Announce(s)))
                  ELSE BagRemove(net, d)
    /\ armed' = armed
    /\ UNCHANGED <<mcast, io, cpc, rx, timer, answer, target, probes, dups, lossy, heard, strayed>>

\* cleanupMulticast, from stop(): leave the group, close the socket (what
\* was queued for it is discarded), mcast_io_->stop(), then join the thread.
\* The receive outstanding on the closed socket completes with an error and,
\* mcast_sock_ being still set, its handler arms the next receive: the
\* thread's io.run returns only because the io_context is stopped.
\* Mutant: cleanupMulticast without mcast_io_->stop().
CloseNoIoStop(s) ==
    /\ mcast[s] = "listening"
    /\ mcast' = [mcast EXCEPT ![s] = "stopping"]
    /\ net' = [d \in {e \in InFlight : e.to # s} |-> net[d]]
    /\ lossy' = [c \in Clients |-> lossy[c] \/ \E e \in InFlight : e.to = s /\ e.from = c]
    /\ UNCHANGED <<armed, io, cpc, rx, timer, answer, target, probes, dups, heard, strayed>>

Close(s) ==
    /\ mcast[s] = "listening"
    /\ mcast' = [mcast EXCEPT ![s] = "stopping"]
    /\ io' = [io EXCEPT ![s] = "stopped"]
    /\ net' = [d \in {e \in InFlight : e.to # s} |-> net[d]]
    /\ lossy' = [c \in Clients |-> lossy[c] \/ \E e \in InFlight : e.to = s /\ e.from = c]
    /\ UNCHANGED <<armed, cpc, rx, timer, answer, target, probes, dups, heard, strayed>>

\* mcast_thread_->join() returns once io.run has: the context is stopped or
\* no receive is outstanding; then the socket, context and thread are reset
Join(s) ==
    /\ mcast[s] = "stopping"
    /\ io[s] = "stopped" \/ ~armed[s]
    /\ mcast' = [mcast EXCEPT ![s] = "closed"]
    /\ armed' = [armed EXCEPT ![s] = FALSE]
    /\ UNCHANGED <<io, net, cpc, rx, timer, answer, target, probes, dups, lossy, heard, strayed>>

-----------------------------------------------------------------------------
(* Client: discoverServer                                                  *)

\* send_to the group, then async_receive_from and the timer are armed and
\* io.run starts
Discover(c) ==
    /\ cpc[c] = "idle"
    /\ net' = net (+) ToGroup(c, DiscoverPayload)
    /\ heard' = [heard EXCEPT ![c] = Joined # {}]
    /\ cpc' = [cpc EXCEPT ![c] = "wait"]
    /\ rx' = [rx EXCEPT ![c] = "armed"]
    /\ timer' = [timer EXCEPT ![c] = "armed"]
    /\ UNCHANGED <<mcast, armed, io, answer, target, probes, dups, lossy, strayed>>

\* the receive handler: a datagram of n > 0 bytes is the answer (got_reply,
\* timer.cancel()); an empty one completes the receive and changes nothing
Reply(c) ==
    /\ cpc[c] = "wait"
    /\ rx[c] = "armed"
    /\ \E d \in InFlight :
        /\ d.to = c
        /\ net' = BagRemove(net, d)
        /\ IF d.payload # <<>>
           THEN /\ answer' = [answer EXCEPT ![c] = d]
                /\ rx' = [rx EXCEPT ![c] = "replied"]
                /\ timer' = [timer EXCEPT ![c] = IF @ = "armed" THEN "cancelled" ELSE @]
           ELSE /\ rx' = [rx EXCEPT ![c] = "ended"]
                /\ UNCHANGED <<answer, timer>>
    /\ UNCHANGED <<mcast, armed, io, cpc, target, probes, dups, lossy, heard, strayed>>

\* an answer may still come: the receive is armed and a datagram to the
\* client, or a DISCOVER of it at a coordinator that will read it, is in flight
Pending(c) ==
    /\ rx[c] = "armed"
    /\ \E d \in InFlight :
          \/ d.to = c
          \/ d.from = c /\ d.to \in Joined /\ armed[d.to]

\* Mutant: the timer handler does not cancel the socket.
TimerFireNoCancel(c) ==
    /\ cpc[c] = "wait"
    /\ timer[c] = "armed"
    /\ ~Pending(c)
    /\ timer' = [timer EXCEPT ![c] = "fired"]
    /\ UNCHANGED <<mcast, armed, io, net, rx, cpc, answer, target, probes, dups, lossy, heard, strayed>>

\* the timer handler: sock.cancel() aborts a receive still outstanding
TimerFire(c) ==
    /\ cpc[c] = "wait"
    /\ timer[c] = "armed"
    /\ ~Pending(c)
    /\ timer' = [timer EXCEPT ![c] = "fired"]
    /\ rx' = [rx EXCEPT ![c] = IF @ = "armed" THEN "ended" ELSE @]
    /\ UNCHANGED <<mcast, armed, io, net, cpc, answer, target, probes, dups, lossy, heard, strayed>>

\* Mutant: connect() keeps the command-line port with the discovered host.
FinishKeepsCliPort(c) ==
    /\ cpc[c] = "wait"
    /\ rx[c] # "armed"
    /\ timer[c] # "armed"
    /\ target' = [target EXCEPT ![c] =
                    IF rx[c] = "replied" /\ ParsePort(answer[c].payload) \in 1..65535
                    THEN <<answer[c].from, CliPort>>
                    ELSE Fallback]
    /\ cpc' = [cpc EXCEPT ![c] = "done"]
    /\ UNCHANGED <<mcast, armed, io, net, rx, timer, answer, probes, dups, lossy, heard, strayed>>

\* io.run returns when neither operation is outstanding; without a reply,
\* or with a port outside 1..65535, connect() falls back to 127.0.0.1 and
\* the command-line port
Finish(c) ==
    /\ cpc[c] = "wait"
    /\ rx[c] # "armed"
    /\ timer[c] # "armed"
    /\ target' = [target EXCEPT ![c] =
                    IF rx[c] = "replied" /\ ParsePort(answer[c].payload) \in 1..65535
                    THEN <<answer[c].from, ParsePort(answer[c].payload)>>
                    ELSE Fallback]
    /\ cpc' = [cpc EXCEPT ![c] = "done"]
    /\ UNCHANGED <<mcast, armed, io, net, rx, timer, answer, probes, dups, lossy, heard, strayed>>

-----------------------------------------------------------------------------
(* The LAN                                                                 *)

\* another host sends a datagram to the group
Probe ==
    /\ probes < MaxProbes
    /\ \E p \in Noise : net' = net (+) ToGroup(Prober, p)
    /\ probes' = probes + 1
    /\ UNCHANGED <<mcast, armed, io, cpc, rx, timer, answer, target, dups, lossy, heard, strayed>>

\* another host on the LAN sends to the port a waiting client listens on
Stray(c) ==
    /\ probes < MaxProbes
    /\ cpc[c] = "wait"
    /\ \E p \in Strays : net' = BagAdd(net, Datagram(c, Prober, p))
    /\ probes' = probes + 1
    /\ strayed' = [strayed EXCEPT ![c] = TRUE]
    /\ UNCHANGED <<mcast, armed, io, cpc, rx, timer, answer, target, dups, lossy, heard>>

\* a datagram is dropped (by the network, a full socket buffer, or because
\* it arrives after the client's timeout)
Lose ==
    /\ \E d \in InFlight :
        /\ net' = BagRemove(net, d)
        /\ lossy' = [c \in Clients |-> lossy[c] \/ c \in {d.to, d.from}]
    /\ UNCHANGED <<mcast, armed, io, cpc, rx, timer, answer, target, probes, dups, heard, strayed>>

Duplicate ==
    /\ dups < MaxDups
    /\ \E d \in InFlight : net' = BagAdd(net, d)
    /\ dups' = dups + 1
    /\ UNCHANGED <<mcast, armed, io, cpc, rx, timer, answer, target, probes, lossy, heard, strayed>>

Next ==
    \/ \E s \in Coordinators : Handle(s) \/ Close(s) \/ Join(s)
    \/ \E c \in Clients : Discover(c) \/ Reply(c) \/ TimerFire(c) \/ Finish(c) \/ Stray(c)
    \/ Probe \/ Lose \/ Duplicate

\* the responder's io thread, the thread in stop() and the client's io.run
\* are scheduled; nobody has to send, stop, lose or duplicate anything
Fairness ==
    /\ \A s \in Coordinators : WF_vars(Handle(s)) /\ WF_vars(Join(s))
    /\ \A c \in Clients : WF_vars(Reply(c)) /\ WF_vars(TimerFire(c)) /\ WF_vars(Finish(c))

Spec == Init /\ [][Next]_vars /\ Fairness

-----------------------------------------------------------------------------
(* Properties                                                              *)

CoordinatorTargets == {<<s, TcpPort[s]>> : s \in Coordinators}

\* Section 4.D: the client recovers the coordinator's address and port from
\* a well-formed "ANNOUNCE central <port>": whatever it connects to, other
\* than the fallback, is the sender of such a reply and the port it named.
DiscoveredAnnouncer ==
    \A c \in Clients :
        target[c] \notin {None, Fallback} =>
            /\ answer[c].from = target[c][1]
            /\ WellFormedAnnounce(answer[c].payload, target[c][2])

\* discoverServer followed by connect(): a client whose DISCOVER found a
\* coordinator listening, none of whose datagrams were lost and to which no
\* other host sent anything, connects to
\* a coordinator and does not fall back to 127.0.0.1, even when other hosts
\* sent to the group first or a coordinator answered twice.
DiscoverySucceeds ==
    \A c \in Clients :
        cpc[c] = "done" /\ heard[c] /\ ~lossy[c] /\ ~strayed[c] =>
            target[c] \in CoordinatorTargets

\* discoverServer returns: io.run always ends, by the reply or by the timer,
\* so a client that started discovery eventually has a server to connect to.
DiscoveryEnds ==
    \A c \in Clients : cpc[c] = "wait" ~> target[c] # None

\* CentralServer::stop() returns: once cleanupMulticast has closed the
\* socket, the join of the multicast thread completes, although the receive
\* handler re-arms on the closed socket.
StopReturns ==
    \A s \in Coordinators : mcast[s] = "stopping" ~> mcast[s] = "closed"

\* The responder keeps answering: while its socket is open, every datagram
\* queued for it is eventually taken, whatever came before it.
ResponderDrains ==
    \A s \in Coordinators :
        (\E d \in InFlight : d.to = s) ~> ~\E d \in InFlight : d.to = s

====
