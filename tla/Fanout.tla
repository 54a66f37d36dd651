------------------------------- MODULE Fanout -------------------------------
(***************************************************************************)
(* Sessions, the subscriber registry and the fan-out of updates in         *)
(* CentralServer, together with the interactive client (UserInterface)     *)
(* on the other end of each connection.                                    *)
(*                                                                         *)
(* Each connection c has a client UI and a server thread running           *)
(* handleClientMessage.  The database work of the handlers is abstracted   *)
(* to its outcome (Reservation and Groups model it); what is kept is the   *)
(* order in which a handler creates a session, writes its response on the  *)
(* socket, subscribes the connection and fans out an update.  A socket     *)
(* write (TLSSocket::send, a loop of asio writes) is two steps, so that a  *)
(* write of another thread can fall between them.  A write to a live peer  *)
(* completes only while the peer's socket buffers have room: at most       *)
(* BufCap messages wait unread; a closed peer's socket takes anything.     *)
(***************************************************************************)
EXTENDS Naturals, Sequences, FiniteSets, SequencesExt

CONSTANTS
    Conns,          \* connections; each has a client and a server thread
    Users,          \* URNs a client may authenticate with
    Registered,     \* URNs that getUser finds
    MaxSessions,    \* bound on the generateSessionId counter
    MaxRequests,    \* bound on the requests all clients send together
    BufCap,         \* messages a socket holds unread before a write blocks
    None

ASSUME Registered \subseteq Users /\ None \notin Conns \cup Users
ASSUME MaxSessions \in Nat /\ MaxRequests \in Nat /\ BufCap \in Nat \ {0}

Tokens == 1..MaxSessions

VARIABLES
    \* client side (UserInterface)
    cpc,            \* "idle" | "wait" | "listen" | "closed"
    pending,        \* op of the request the client waits a response for
    authed,         \* authenticated_
    token,          \* session_token_ (None when empty)
    sent,           \* requests sent by all clients, bounded by MaxRequests
    \* the TLS stream in each direction
    toServer,
    toClient,
    open,           \* the client has not closed the connection
    \* server side (CentralServer)
    spc,            \* step of the connection thread
    out,            \* response the thread is about to send
    after,          \* step following the response
    writing,        \* writing[c]: threads inside sendMessage on c's socket
    bm,             \* holder of broadcast_mutex_, or None
    subscribers,    \* subscribers_ (a vector: duplicates allowed)
    todo,           \* subscribers a broadcasting thread has still to send to
    kept,           \* subscribers it has sent to successfully
    sessions,       \* client_sessions_
    counter         \* generateSessionId's static counter

client == <<cpc, pending, authed, token, sent>>
server == <<spc, out, after, writing, bm, subscribers, todo, kept, sessions, counter>>
vars == <<client, toServer, toClient, open, server>>

\* requests answered without a fan-out: REGISTER_USER, REGISTER_DEVICE and
\* the group commands (CREATE_GROUP, ADD_MEMBER_TO_GROUP,
\* DELETE_GROUP_MEMBER, alike here: one response, no update)
Commands == {"register", "register_device", "group"}

Ops == {"auth", "reserve", "purchase"} \cup Commands

Requests ==
    [op: {"auth"}, user: Users] \cup [op: {"reserve", "purchase"} \cup Commands, token: Tokens \cup {None}]

Responses ==
    [kind: {"reply"}, op: Ops, token: Tokens \cup {None}]
        \cup [kind: {"update"}, op: {None}, token: {None}]

Reply(op, tok) == [kind |-> "reply", op |-> op, token |-> tok]

Update == [kind |-> "update", op |-> None, token |-> None]

\* ClientSession: the token and the URN (socket is left nullptr)
Session == [id: Tokens, user: Users]

ServerSteps == {"recv", "reply", "reply_end", "subscribe", "bcast_lock",
                "bcast_send", "bcast_write", "cleanup", "exit"}

TypeOK ==
    /\ cpc \in [Conns -> {"idle", "wait", "listen", "closed"}]
    /\ pending \in [Conns -> Ops \cup {None}]
    /\ authed \in [Conns -> BOOLEAN]
    /\ token \in [Conns -> Tokens \cup {None}]
    /\ sent \in 0..MaxRequests
    /\ toServer \in [Conns -> Seq(Requests)]
    /\ toClient \in [Conns -> Seq(Responses)]
    /\ open \in [Conns -> BOOLEAN]
    /\ spc \in [Conns -> ServerSteps]
    /\ out \in [Conns -> Responses \cup {None}]
    /\ after \in [Conns -> ServerSteps]
    /\ writing \in [Conns -> SUBSET Conns]
    /\ bm \in Conns \cup {None}
    /\ subscribers \in Seq(Conns)
    /\ todo \in [Conns -> Seq(Conns)]
    /\ kept \in [Conns -> Seq(Conns)]
    /\ sessions \subseteq Session
    /\ counter \in 0..MaxSessions

Init ==
    /\ cpc = [c \in Conns |-> "idle"]
    /\ pending = [c \in Conns |-> None]
    /\ authed = [c \in Conns |-> FALSE]
    /\ token = [c \in Conns |-> None]
    /\ sent = 0
    /\ toServer = [c \in Conns |-> <<>>]
    /\ toClient = [c \in Conns |-> <<>>]
    /\ open = [c \in Conns |-> TRUE]
    /\ spc = [c \in Conns |-> "recv"]
    /\ out = [c \in Conns |-> None]
    /\ after = [c \in Conns |-> "recv"]
    /\ writing = [c \in Conns |-> {}]
    /\ bm = None
    /\ subscribers = <<>>
    /\ todo = [c \in Conns |-> <<>>]
    /\ kept = [c \in Conns |-> <<>>]
    /\ sessions = {}
    /\ counter = 0

-----------------------------------------------------------------------------
(* Client.  Each command sends one request and then reads ONE message,     *)
(* whatever it is, as the response.                                        *)

Send(c, r) ==
    /\ cpc[c] = "idle"
    /\ sent < MaxRequests
    /\ toServer' = [toServer EXCEPT ![c] = Append(@, r)]
    /\ sent' = sent + 1
    /\ cpc' = [cpc EXCEPT ![c] = "wait"]
    /\ pending' = [pending EXCEPT ![c] = r.op]

\* authenticate(urn)
ClientAuth(c) ==
    /\ \E u \in Users : Send(c, [op |-> "auth", user |-> u])
    /\ UNCHANGED <<authed, token, toClient, open, server>>

\* handleReserve / handlePurchase: refused locally unless authenticated_;
\* handlePurchase adds session_id when session_token_ is not empty.
ClientRequest(c) ==
    /\ authed[c]
    /\ \E op \in {"reserve", "purchase"} :
          Send(c, [op |-> op, token |-> IF op = "purchase" THEN token[c] ELSE None])
    /\ UNCHANGED <<authed, token, toClient, open, server>>

\* handleRegister: no authentication needed
ClientRegister(c) ==
    /\ Send(c, [op |-> "register", token |-> None])
    /\ UNCHANGED <<authed, token, toClient, open, server>>

\* handleRegisterDevice: refused locally unless authenticated_
ClientRegisterDevice(c) ==
    /\ authed[c]
    /\ Send(c, [op |-> "register_device", token |-> None])
    /\ UNCHANGED <<authed, token, toClient, open, server>>

\* handleCreateGroup / handleAddMember / handleRemoveMember: refused locally
\* unless authenticated_; the session_id they carry only matters to the
\* group handlers, whose answer is one response either way
ClientGroupCommand(c) ==
    /\ authed[c]
    /\ Send(c, [op |-> "group", token |-> token[c]])
    /\ UNCHANGED <<authed, token, toClient, open, server>>

\* the single receiveMessage after sendMessage; authenticate() takes
\* getBool("success") and getString("token") from whatever arrived.
ClientReceive(c) ==
    /\ cpc[c] = "wait"
    /\ toClient[c] # <<>>
    /\ LET m == Head(toClient[c])
           ok == pending[c] = "auth" /\ m.op = "auth" /\ m.token # None
       IN /\ authed' = [authed EXCEPT ![c] = @ \/ ok]
          /\ token' = [token EXCEPT ![c] = IF ok THEN m.token ELSE @]
    /\ toClient' = [toClient EXCEPT ![c] = Tail(@)]
    /\ cpc' = [cpc EXCEPT ![c] = "idle"]
    /\ pending' = [pending EXCEPT ![c] = None]
    /\ UNCHANGED <<sent, toServer, open, server>>

\* handleListen: print every message until the connection closes
ClientListen(c) ==
    /\ \/ /\ cpc[c] = "idle"
          /\ cpc' = [cpc EXCEPT ![c] = "listen"]
          /\ UNCHANGED toClient
       \/ /\ cpc[c] = "listen"
          /\ toClient[c] # <<>>
          /\ toClient' = [toClient EXCEPT ![c] = Tail(@)]
          /\ UNCHANGED cpc
    /\ UNCHANGED <<pending, authed, token, sent, toServer, open, server>>

\* TLSSocket::disconnect (from ~TLSSocket when the client exits): shutdown
\* and close the stream; bytes not yet read are lost
disconnect(c) ==
    /\ open' = [open EXCEPT ![c] = FALSE]
    /\ toClient' = [toClient EXCEPT ![c] = <<>>]

\* "quit" (or Ctrl+C in listen): the loop ends and the socket is destroyed
ClientQuit(c) ==
    /\ cpc[c] \in {"idle", "listen"}
    /\ cpc' = [cpc EXCEPT ![c] = "closed"]
    /\ disconnect(c)
    /\ UNCHANGED <<pending, authed, token, sent, toServer, server>>

-----------------------------------------------------------------------------
(* Server: one thread per connection (handleClientMessage).                *)

\* "session_" + std::to_string(++counter)
generateSessionId == counter + 1

\* receiveMessage + processMessage up to the handler's sendResponse.
\* handleAuthRequest: getUser, then for a known URN a new session
\* (generateSessionId, insert under sessions_mutex_), subscribe after the
\* response.  handleSeatReservation / handleTicketPurchase: the database
\* outcome is a free choice; on success the response is followed by
\* sendMulticastUpdate.  handleTicketPurchase first looks the session up
\* (refreshing last_activity, which only matters to the sweep) or answers 401.
Receive(c) ==
    /\ spc[c] = "recv"
    /\ toServer[c] # <<>>
    /\ LET r == Head(toServer[c]) IN
       \/ /\ r.op = "auth"
          /\ r.user \in Registered
          /\ counter < MaxSessions
          /\ counter' = counter + 1
          /\ sessions' = sessions \cup
                {[id |-> generateSessionId, user |-> r.user]}
          /\ out' = [out EXCEPT ![c] = Reply("auth", generateSessionId)]
          /\ after' = [after EXCEPT ![c] = "subscribe"]
       \/ /\ r.op = "auth"
          /\ r.user \notin Registered
          /\ out' = [out EXCEPT ![c] = Reply("auth", None)]
          /\ after' = [after EXCEPT ![c] = "recv"]
          /\ UNCHANGED <<sessions, counter>>
       \/ /\ r.op = "purchase"
          /\ ~\E s \in sessions : s.id = r.token
          /\ out' = [out EXCEPT ![c] = Reply("purchase", None)]
          /\ after' = [after EXCEPT ![c] = "recv"]
          /\ UNCHANGED <<sessions, counter>>
       \/ /\ r.op \in Commands
          /\ out' = [out EXCEPT ![c] = Reply(r.op, None)]
          /\ after' = [after EXCEPT ![c] = "recv"]
          /\ UNCHANGED <<sessions, counter>>
       \/ /\ \/ r.op = "reserve"
             \/ r.op = "purchase" /\ \E s \in sessions : s.id = r.token
          /\ out' = [out EXCEPT ![c] = Reply(r.op, None)]
          /\ \E committed \in BOOLEAN :
                after' = [after EXCEPT ![c] = IF committed THEN "bcast_lock" ELSE "recv"]
          /\ UNCHANGED <<sessions, counter>>
    /\ toServer' = [toServer EXCEPT ![c] = Tail(@)]
    /\ spc' = [spc EXCEPT ![c] = "reply"]
    /\ UNCHANGED <<client, toClient, open, writing, bm, subscribers, todo, kept>>

\* sendResponse: the thread enters TLSSocket::send on its own socket ...
ReplyBegin(c) ==
    /\ spc[c] = "reply"
    /\ writing' = [writing EXCEPT ![c] = @ \cup {c}]
    /\ spc' = [spc EXCEPT ![c] = "reply_end"]
    /\ UNCHANGED <<client, toServer, toClient, open, out, after, bm, subscribers,
                   todo, kept, sessions, counter>>

\* asio::write returns once the frame is in the socket buffers
Room(t) == open[t] => Len(toClient[t]) < BufCap

\* ... and leaves it; the frame is lost if the peer has closed
ReplyEnd(c) ==
    /\ spc[c] = "reply_end"
    /\ Room(c)
    /\ writing' = [writing EXCEPT ![c] = @ \ {c}]
    /\ toClient' = IF open[c] THEN [toClient EXCEPT ![c] = Append(@, out[c])]
                              ELSE toClient
    /\ spc' = [spc EXCEPT ![c] = after[c]]
    /\ out' = [out EXCEPT ![c] = None]
    /\ UNCHANGED <<client, toServer, open, after, bm, subscribers, todo, kept,
                   sessions, counter>>

\* handleAuthRequest: subscribers_.push_back under broadcast_mutex_
Subscribe(c) ==
    /\ spc[c] = "subscribe"
    /\ bm = None
    /\ subscribers' = Append(subscribers, c)
    /\ spc' = [spc EXCEPT ![c] = "recv"]
    /\ UNCHANGED <<client, toServer, toClient, open, out, after, writing, bm,
                   todo, kept, sessions, counter>>

\* sendMulticastUpdate: lock broadcast_mutex_ and start remove_if
BroadcastLock(c) ==
    /\ spc[c] = "bcast_lock"
    /\ bm = None
    /\ bm' = c
    /\ todo' = [todo EXCEPT ![c] = subscribers]
    /\ kept' = [kept EXCEPT ![c] = <<>>]
    /\ spc' = [spc EXCEPT ![c] = "bcast_send"]
    /\ UNCHANGED <<client, toServer, toClient, open, out, after, writing,
                   subscribers, sessions, counter>>

\* sub->sendMessage(*message) on the next subscriber: enter send ...
BroadcastSend(c) ==
    /\ spc[c] = "bcast_send"
    /\ todo[c] # <<>>
    /\ writing' = [writing EXCEPT ![Head(todo[c])] = @ \cup {c}]
    /\ spc' = [spc EXCEPT ![c] = "bcast_write"]
    /\ UNCHANGED <<client, toServer, toClient, open, out, after, bm, subscribers,
                   todo, kept, sessions, counter>>

\* ... and leave it.  A send to a live peer succeeds; one to a peer that
\* has closed may still succeed (buffered) or fail, and a failed
\* subscriber is dropped by remove_if.
BroadcastWrite(c) ==
    /\ spc[c] = "bcast_write"
    /\ Room(Head(todo[c]))
    /\ LET t == Head(todo[c]) IN
       /\ writing' = [writing EXCEPT ![t] = @ \ {c}]
       /\ \E ok \in IF open[t] THEN {TRUE} ELSE BOOLEAN :
             /\ kept' = [kept EXCEPT ![c] = IF ok THEN Append(@, t) ELSE @]
             /\ toClient' = IF open[t] THEN [toClient EXCEPT ![t] = Append(@, Update)]
                                       ELSE toClient
    /\ todo' = [todo EXCEPT ![c] = Tail(@)]
    /\ spc' = [spc EXCEPT ![c] = "bcast_send"]
    /\ UNCHANGED <<client, toServer, open, out, after, bm, subscribers, sessions,
                   counter>>

\* subscribers_.erase(end_it, end()) and release broadcast_mutex_
BroadcastDone(c) ==
    /\ spc[c] = "bcast_send"
    /\ todo[c] = <<>>
    /\ subscribers' = kept[c]
    /\ kept' = [kept EXCEPT ![c] = <<>>]
    /\ bm' = None
    /\ spc' = [spc EXCEPT ![c] = "recv"]
    /\ UNCHANGED <<client, toServer, toClient, open, out, after, writing, todo,
                   sessions, counter>>

\* receiveMessage returns null once the peer has closed and all its
\* requests are read: leave the loop
Eof(c) ==
    /\ spc[c] = "recv"
    /\ toServer[c] = <<>>
    /\ ~open[c]
    /\ spc' = [spc EXCEPT ![c] = "cleanup"]
    /\ UNCHANGED <<client, toServer, toClient, open, out, after, writing, bm,
                   subscribers, todo, kept, sessions, counter>>

\* mutant: the removal without taking broadcast_mutex_
CleanupUnlocked(c) ==
    /\ spc[c] = "cleanup"
    /\ subscribers' = SelectSeq(subscribers, LAMBDA x : x # c)
    /\ spc' = [spc EXCEPT ![c] = "exit"]
    /\ UNCHANGED <<client, toServer, toClient, open, out, after, writing, bm,
                   todo, kept, sessions, counter>>

\* std::remove of client.get() from subscribers_ under broadcast_mutex_;
\* then the thread returns and the socket is destroyed.  The sessions
\* the connection created are left alone.
Cleanup(c) ==
    /\ spc[c] = "cleanup"
    /\ bm = None
    /\ subscribers' = SelectSeq(subscribers, LAMBDA x : x # c)
    /\ spc' = [spc EXCEPT ![c] = "exit"]
    /\ UNCHANGED <<client, toServer, toClient, open, out, after, writing, bm,
                   todo, kept, sessions, counter>>

-----------------------------------------------------------------------------
(* Session cleanup thread (sessionCleanupLoop).                            *)

\* cleanupExpiredSessions: erase, under sessions_mutex_, every session
\* idle for longer than session_timeout.  Time is not modelled: at a sweep
\* any set of sessions may be past the TTL.
CleanupExpiredSessions ==
    /\ \E expired \in SUBSET sessions \ {{}} : sessions' = sessions \ expired
    /\ UNCHANGED <<client, toServer, toClient, open, spc, out, after, writing,
                   bm, subscribers, todo, kept, counter>>

-----------------------------------------------------------------------------
ServerStep(c) ==
    \/ Receive(c) \/ ReplyBegin(c) \/ ReplyEnd(c) \/ Subscribe(c)
    \/ BroadcastLock(c) \/ BroadcastSend(c) \/ BroadcastWrite(c)
    \/ BroadcastDone(c) \/ Eof(c) \/ Cleanup(c)

ClientStep(c) ==
    \/ ClientAuth(c) \/ ClientRequest(c) \/ ClientRegister(c)
    \/ ClientRegisterDevice(c) \/ ClientGroupCommand(c)
    \/ ClientReceive(c) \/ ClientListen(c) \/ ClientQuit(c)

Next ==
    \/ \E c \in Conns : ClientStep(c) \/ ServerStep(c)
    \/ CleanupExpiredSessions

\* Every connection thread keeps running while it has work, and a client
\* blocked in receiveMessage (after a request, or in listen mode) takes
\* what arrives.  Users are not obliged to type anything, and the cleanup
\* loop's timing is free.
Spec == Init /\ [][Next]_vars

-----------------------------------------------------------------------------
(* Properties                                                              *)

\* Subscriber entries never outlive their connection (spec 3, Subscriber entry): once a
\* connection thread has returned and its socket is destroyed, no
\* registered subscriber, no fan-out in progress and no write refers to
\* it.  This rests on handleClientMessage's removal and on
\* sendMulticastUpdate iterating under the same broadcast_mutex_.
SubscribersLive ==
    \A c \in Conns : spc[c] = "exit" =>
        /\ c \notin ToSet(subscribers)
        /\ writing[c] = {}
        /\ \A d \in Conns : c \notin ToSet(todo[d]) \cup ToSet(kept[d])

\* The coordinator never issues concurrent writes on the same connection
\* (spec 4.B, Concurrency): at most one thread is inside sendMessage on a
\* socket.  A fan-out runs on the thread of the request that caused it.
NoConcurrentWrites == \A c \in Conns : Cardinality(writing[c]) <= 1

\* The client pairs each request with exactly one response to it (spec 7):
\* the message a waiting client takes as its response is the reply to
\* the request it sent, never a MULTICAST_UPDATE.
RepliesPaired ==
    [][\A c \in Conns :
         (cpc[c] = "wait" /\ cpc'[c] = "idle") =>
            Head(toClient[c]) = Reply(pending[c], Head(toClient[c]).token)]_vars

====
