------------------------------ MODULE Lifecycle ------------------------------
(***************************************************************************)
(* Start and stop of the central server (CentralServer::start / stop, the  *)
(* background loops, TLSServer's acceptor and io thread) and the part of   *)
(* each connection thread that depends on them: handleClientMessage's      *)
(* loop, which checks running_ before every receiveMessage.                *)
(*                                                                         *)
(* The main thread (central_server_main) calls start(), then sleeps while  *)
(* isRunning(); SIGINT/SIGTERM runs the signal handler on it: stop(),      *)
(* then exit(0), whose static destructors destroy the global `server`      *)
(* (~CentralServer, ~TLSServer).  Connection threads are detached: nothing *)
(* waits for them.  What a request does is modelled in Reservation, Groups *)
(* and Fanout; here a request is only received and processed.             *)
(***************************************************************************)
EXTENDS Naturals, FiniteSets

CONSTANTS
    Conns,          \* TLS connections clients open
    Loops,          \* dataCollectionLoop, heartbeatLoop, sessionCleanupLoop
    MaxRequests     \* bound on the requests all clients send together

ASSUME Conns # {} /\ Loops # {} /\ MaxRequests \in Nat

VARIABLES
    mpc,        \* main thread: start() steps, "running", stop() steps, "exited"
    running,    \* ServerBase::running_
    bgRunning,  \* background_running_
    bpc,        \* bpc[b]: background thread b: "idle" (not started) | "check" | "sleep" | "done"
    tls,        \* TLSServer::running_
    acceptor,   \* acceptor_ is open
    io,         \* TLSServer's io thread: "none" | "running" | "stopped"
    kpc,        \* kpc[k]: where connection k is (see ConnSteps)
    inbox,      \* inbox[k]: requests sent on k and not yet received
    closed,     \* closed[k]: the client has closed k
    sent,       \* requests sent by all clients
    active,     \* active_connections_
    total,      \* total_connections_
    onTime      \* onTime[k]: k was accepted after start() returned (history)

vars == <<mpc, running, bgRunning, bpc, tls, acceptor, io, kpc, inbox, closed,
          sent, active, total, onTime>>

MainSteps == {"init", "tls_start", "starting", "running", "join_bg",
              "tls_stop", "io_join", "exited"}

\* absent: not connected; handshake: accepted, TLS handshake pending on the
\* io thread; spawned: the detached thread that will run
\* handleClientMessage exists; loop: at `while (running_ && client)`;
\* recv: blocked in receiveMessage; leaving: after the loop; done: returned;
\* dropped: the handshake handler saw the TLSServer stopped
ConnSteps == {"absent", "handshake", "spawned", "loop", "recv", "leaving",
              "done", "dropped"}

\* between total_connections_++ and active_connections_--
InLoop == {"loop", "recv", "leaving"}

TypeOK ==
    /\ mpc \in MainSteps
    /\ running \in BOOLEAN /\ bgRunning \in BOOLEAN
    /\ bpc \in [Loops -> {"idle", "check", "sleep", "done"}]
    /\ tls \in BOOLEAN /\ acceptor \in BOOLEAN
    /\ io \in {"none", "running", "stopped"}
    /\ kpc \in [Conns -> ConnSteps]
    /\ inbox \in [Conns -> 0..MaxRequests]
    /\ closed \in [Conns -> BOOLEAN]
    /\ sent \in 0..MaxRequests
    /\ active \in Nat /\ total \in Nat
    /\ onTime \in [Conns -> BOOLEAN]

Init ==
    /\ mpc = "init"
    /\ running = FALSE /\ bgRunning = FALSE
    /\ bpc = [b \in Loops |-> "idle"]
    /\ tls = FALSE /\ acceptor = FALSE /\ io = "none"
    /\ kpc = [k \in Conns |-> "absent"]
    /\ inbox = [k \in Conns |-> 0]
    /\ closed = [k \in Conns |-> FALSE]
    /\ sent = 0
    /\ active = 0 /\ total = 0
    /\ onTime = [k \in Conns |-> FALSE]

conns == <<kpc, inbox, closed, sent, active, total, onTime>>

Alive == mpc # "exited"
-----------------------------------------------------------------------------
(* Main thread: CentralServer::start                                       *)

\* initializeDatabase(): DatabasePool::initialize; on failure start()
\* returns false and main returns 1
InitializeDatabase ==
    /\ mpc = "init"
    /\ \E ok \in BOOLEAN : mpc' = IF ok THEN "tls_start" ELSE "exited"
    /\ UNCHANGED <<running, bgRunning, bpc, tls, acceptor, io, conns>>

\* TLSServer::start: running_ = true, open the acceptor, doAccept, start the
\* io thread; a certificate or bind error makes it return false, and start()
\* with it
TlsStart ==
    /\ mpc = "tls_start"
    /\ \/ /\ tls' = TRUE /\ acceptor' = TRUE /\ io' = "running"
          /\ mpc' = "starting"
       \/ /\ mpc' = "exited"
          /\ UNCHANGED <<tls, acceptor, io>>
    /\ UNCHANGED <<running, bgRunning, bpc, conns>>

\* (setupMulticast, modelled in Discovery,) then running_ = true and
\* startBackgroundTasks: background_running_ = true and one thread per loop
SetRunning ==
    /\ mpc = "starting"
    /\ running' = TRUE
    /\ bgRunning' = TRUE
    /\ bpc' = [b \in Loops |-> "check"]
    /\ mpc' = "running"
    /\ UNCHANGED <<tls, acceptor, io, conns>>

-----------------------------------------------------------------------------
(* Main thread: the signal handler, CentralServer::stop, exit(0)           *)

\* Mutant: stop() clears running_ but not background_running_.
SignalKeepsBackground ==
    /\ mpc \in {"init", "tls_start", "starting", "running"}
    /\ \/ /\ running
          /\ running' = FALSE
          /\ mpc' = "join_bg"
          /\ UNCHANGED bgRunning
       \/ /\ ~running
          /\ mpc' = IF tls THEN "tls_stop" ELSE "exited"
          /\ UNCHANGED <<running, bgRunning>>
    /\ UNCHANGED <<bpc, tls, acceptor, io, conns>>

\* stop(): if (!running_) return; running_ = false; stopBackgroundTasks
\* clears background_running_ and joins.  Without running_ set, exit(0)
\* goes straight to the destructors: ~TLSServer calls TLSServer::stop.
Signal ==
    /\ mpc \in {"init", "tls_start", "starting", "running"}
    /\ \/ /\ running
          /\ running' = FALSE /\ bgRunning' = FALSE
          /\ mpc' = "join_bg"
       \/ /\ ~running
          /\ mpc' = IF tls THEN "tls_stop" ELSE "exited"
          /\ UNCHANGED <<running, bgRunning>>
    /\ UNCHANGED <<bpc, tls, acceptor, io, conns>>

\* stopBackgroundTasks: join data_collection_thread_, heartbeat_thread_ and
\* cleanup_thread_; then cleanupMulticast (Discovery) and tls_server_->stop()
JoinBackground ==
    /\ mpc = "join_bg"
    /\ \A b \in Loops : bpc[b] = "done"
    /\ mpc' = "tls_stop"
    /\ UNCHANGED <<running, bgRunning, bpc, tls, acceptor, io, conns>>

\* TLSServer::stop: running_ = false, acceptor_->close, io_.stop()
TlsStop ==
    /\ mpc = "tls_stop"
    /\ tls' = FALSE /\ acceptor' = FALSE
    /\ io' = IF io = "running" THEN "stopped" ELSE io
    /\ mpc' = "io_join"
    /\ UNCHANGED <<running, bgRunning, bpc, conns>>

\* io_thread_->join(), then exit(0): the process ends with whatever
\* detached connection threads are still running
IoJoin ==
    /\ mpc = "io_join"
    /\ io # "running"
    /\ mpc' = "exited"
    /\ UNCHANGED <<running, bgRunning, bpc, tls, acceptor, io, conns>>

-----------------------------------------------------------------------------
(* Background threads: while (background_running_) { body; sleep_for }    *)

\* the loop condition: run the body (cleanupExpiredSessions for the session
\* loop, nothing for the others) and go to sleep, or leave the loop
BgCheck(b) ==
    /\ Alive
    /\ bpc[b] = "check"
    /\ bpc' = [bpc EXCEPT ![b] = IF bgRunning THEN "sleep" ELSE "done"]
    /\ UNCHANGED <<mpc, running, bgRunning, tls, acceptor, io, conns>>

\* sleep_for returns (30, 60 or 300 s: not interrupted by stop)
BgWake(b) ==
    /\ Alive
    /\ bpc[b] = "sleep"
    /\ bpc' = [bpc EXCEPT ![b] = "check"]
    /\ UNCHANGED <<mpc, running, bgRunning, tls, acceptor, io, conns>>

-----------------------------------------------------------------------------
(* TLSServer's io thread: doAccept and the handshake handler               *)

\* async_accept completes: if (!running_) return; start the handshake and
\* re-arm doAccept
Accept(k) ==
    /\ Alive
    /\ io = "running" /\ acceptor /\ tls
    /\ kpc[k] = "absent"
    /\ kpc' = [kpc EXCEPT ![k] = "handshake"]
    /\ onTime' = [onTime EXCEPT ![k] = running]
    /\ UNCHANGED <<mpc, running, bgRunning, bpc, tls, acceptor, io, inbox,
                   closed, sent, active, total>>

\* async_handshake completes: if (!running_) return; otherwise a detached
\* thread calls on_connection_, CentralServer's callback, which detaches
\* another running handleClientMessage
Handshake(k) ==
    /\ Alive
    /\ io = "running"
    /\ kpc[k] = "handshake"
    /\ kpc' = [kpc EXCEPT ![k] = IF tls THEN "spawned" ELSE "dropped"]
    /\ UNCHANGED <<mpc, running, bgRunning, bpc, tls, acceptor, io, inbox,
                   closed, sent, active, total, onTime>>

-----------------------------------------------------------------------------
(* Connection threads: CentralServer::handleClientMessage                  *)

\* Mutant: active_connections_++ is missing.
EnterNoActive(k) ==
    /\ Alive
    /\ kpc[k] = "spawned"
    /\ total' = total + 1
    /\ kpc' = [kpc EXCEPT ![k] = "loop"]
    /\ UNCHANGED <<mpc, running, bgRunning, bpc, tls, acceptor, io, inbox,
                   closed, sent, onTime, active>>

\* total_connections_++, active_connections_++
Enter(k) ==
    /\ Alive
    /\ kpc[k] = "spawned"
    /\ total' = total + 1
    /\ active' = active + 1
    /\ kpc' = [kpc EXCEPT ![k] = "loop"]
    /\ UNCHANGED <<mpc, running, bgRunning, bpc, tls, acceptor, io, inbox,
                   closed, sent, onTime>>

\* while (running_ && client)
LoopCheck(k) ==
    /\ Alive
    /\ kpc[k] = "loop"
    /\ kpc' = [kpc EXCEPT ![k] = IF running THEN "recv" ELSE "leaving"]
    /\ UNCHANGED <<mpc, running, bgRunning, bpc, tls, acceptor, io, inbox,
                   closed, sent, active, total, onTime>>

\* Mutant: the loop breaks after the first processMessage.
RecvOnce(k) ==
    /\ Alive
    /\ kpc[k] = "recv"
    /\ \/ /\ inbox[k] > 0
          /\ inbox' = [inbox EXCEPT ![k] = @ - 1]
          /\ kpc' = [kpc EXCEPT ![k] = "leaving"]
       \/ /\ inbox[k] = 0 /\ closed[k]
          /\ kpc' = [kpc EXCEPT ![k] = "leaving"]
          /\ UNCHANGED inbox
    /\ UNCHANGED <<mpc, running, bgRunning, bpc, tls, acceptor, io, closed,
                   sent, active, total, onTime>>

\* receiveMessage returns a request, which processMessage handles; or
\* nullptr once the client has closed and everything it sent is read
Recv(k) ==
    /\ Alive
    /\ kpc[k] = "recv"
    /\ \/ /\ inbox[k] > 0
          /\ inbox' = [inbox EXCEPT ![k] = @ - 1]
          /\ kpc' = [kpc EXCEPT ![k] = "loop"]
       \/ /\ inbox[k] = 0 /\ closed[k]
          /\ kpc' = [kpc EXCEPT ![k] = "leaving"]
          /\ UNCHANGED inbox
    /\ UNCHANGED <<mpc, running, bgRunning, bpc, tls, acceptor, io, closed,
                   sent, active, total, onTime>>

\* active_connections_--, the subscriber removal under broadcast_mutex_
\* (Fanout), return: the socket is destroyed
Leave(k) ==
    /\ Alive
    /\ kpc[k] = "leaving"
    /\ active' = active - 1
    /\ kpc' = [kpc EXCEPT ![k] = "done"]
    /\ UNCHANGED <<mpc, running, bgRunning, bpc, tls, acceptor, io, inbox,
                   closed, sent, total, onTime>>

-----------------------------------------------------------------------------
(* Clients: once connected, a client sends a request and waits for its     *)
(* response before the next one (UserInterface), or closes.                *)

ClientSend(k) ==
    /\ Alive
    /\ kpc[k] # "absent" /\ ~closed[k]
    /\ inbox[k] = 0
    /\ sent < MaxRequests
    /\ inbox' = [inbox EXCEPT ![k] = 1]
    /\ sent' = sent + 1
    /\ UNCHANGED <<mpc, running, bgRunning, bpc, tls, acceptor, io, kpc,
                   closed, active, total, onTime>>

ClientClose(k) ==
    /\ Alive
    /\ kpc[k] # "absent" /\ ~closed[k]
    /\ closed' = [closed EXCEPT ![k] = TRUE]
    /\ UNCHANGED <<mpc, running, bgRunning, bpc, tls, acceptor, io, kpc,
                   inbox, sent, active, total, onTime>>

-----------------------------------------------------------------------------
Main ==
    \/ InitializeDatabase \/ TlsStart \/ SetRunning
    \/ JoinBackground \/ TlsStop \/ IoJoin

ConnStep(k) == Accept(k) \/ Handshake(k) \/ Enter(k) \/ LoopCheck(k) \/ Recv(k) \/ Leave(k)

Next ==
    \/ Main \/ Signal
    \/ \E b \in Loops : BgCheck(b) \/ BgWake(b)
    \/ \E k \in Conns : ConnStep(k) \/ ClientSend(k) \/ ClientClose(k)

\* Every thread is an OS thread that runs while it can: main, each
\* background loop, the io thread and each connection thread.  No one has
\* to send a signal, connect, send or close.
Fairness ==
    /\ WF_vars(Main)
    /\ \A b \in Loops : WF_vars(BgCheck(b)) /\ WF_vars(BgWake(b))
    /\ \A k \in Conns : WF_vars(Handshake(k) \/ Enter(k) \/ LoopCheck(k) \/ Recv(k) \/ Leave(k))

Spec == Init /\ [][Next]_vars /\ Fairness

-----------------------------------------------------------------------------
(* Properties                                                              *)

\* Once the signal handler has entered CentralServer::stop, it returns and
\* the process exits: every background loop sees background_running_
\* cleared and leaves, so the joins of stopBackgroundTasks end, and the io
\* thread ends after io_.stop(), so TLSServer::stop's join ends.
ServerStopReturns ==
    (mpc \in {"join_bg", "tls_stop", "io_join"}) ~> (mpc = "exited")

\* A request sent on a connection the TLS server accepted while the server
\* was running is received and processed by handleClientMessage, unless
\* the server is stopped first.
RequestsServed ==
    \A k \in Conns :
        (onTime[k] /\ inbox[k] > 0) ~> (inbox[k] = 0 \/ ~running)

====
