# TLA+ models of protokol-javni-prevoz

This directory holds TLA+ specifications of the public-transport ticketing
system in `src/`: a central TLS server (`CentralServer`) that keeps users,
groups, vehicles, tickets and payments in SQLite through a pool of database
connections, pushes updates to authenticated clients, and answers multicast
discovery; and an interactive client (`UserInterface`). The models are checked
with TLC. `PROJECT.json` lists every component, run, mutant, the mapping of each
definition to the source lines it models, the findings and the hazards.

## The system

| Part | Code | State | Operations |
|---|---|---|---|
| Connection threads | `CentralServer::start`, `handleClientMessage`, `processMessage` | one detached thread per TLS connection, one request at a time | receive, dispatch, answer |
| Seat handlers | `handleSeatReservation`, `handleTicketPurchase`, `handleUpdateCapacity`, `handleDeviceRegistration`, `handleUpdateVehicle` | the vehicles, tickets, payments tables | reserve, purchase, set capacity, (re-)register a vehicle, change its type |
| Connection pool | `DatabasePool` (`unnamed/part_006`) | `available_` flags over 5 connections, `pool_mutex_`, `pool_cv_` | getConnection (blocks while none is free), returnConnection (notify_one) |
| Persistence | `Database` (`unnamed/part_006`) | one SQLite file, per-connection `db_mutex_` | one autocommit statement per call; no transactions used by the handlers; no busy timeout |
| Sessions | `handleAuthRequest`, `cleanupExpiredSessions`, `validateSession` | `client_sessions_` under `sessions_mutex_` | create on auth, check on purchase/group ops, expire after 30 min |
| Users and groups | `handleUserRegistration`, `handleUserDeletion` (stub), `handleGroupCreation`, `handleAddMemberToGroup`, `handleRemoveMemberFromGroup`, `requireGroupLeader`, `Database::createGroup/addUserToGroup/removeUserFromGroup` | users, groups and group_members tables | register a user, create (three statements), add, remove |
| Fan-out | `sendMulticastUpdate`, `subscribers_` | list of sockets under `broadcast_mutex_` | subscribe on auth, broadcast after seat changes, drop on failed send / disconnect |
| Framing | `Message`, `TLSSocket::receiveMessage` | header (magic, version, type, length, checksum) + key/value payload | serialize, deserialize, stream extraction, CRC32 |
| Lifecycle | `CentralServer::start`/`stop`, `TLSServer` (`unnamed/part_006`), the three background loops, `signalHandler` (`unnamed/part_008`) | `running_`, `background_running_`, three loop threads, the acceptor and its io thread | start, accept and handshake, signal, stop (join loops, stop TLS, join io thread), `exit(0)` |
| Discovery | `setupMulticast`, `startMulticastReceive_`, `cleanupMulticast`, `UserInterface::discoverServer` | a UDP socket joined to the group, its io thread; the client's socket and timer | DISCOVER → ANNOUNCE, timeout and fallback to 127.0.0.1 |

How they interact: each connection thread handles its requests in order;
threads share only the database (through the pool), the session map, and the
subscriber list. A seat handler borrows one connection, runs its statements in
autocommit mode, returns the connection, answers its own client, then
broadcasts to all subscribers, from its own thread, writing to other
connections' sockets.

What is hard here: the handlers read a vehicle row and later write an
absolute value computed from that copy, with no transaction; statements fail
with `SQLITE_BUSY` (shared file, no busy timeout) and the failure paths do not
roll back; the pool must get every borrowed connection back on every path;
the fan-out writes to a socket that its owner thread writes to at the same time.

## Modules

### Pool and Semaphore

`Pool` is `DatabasePool`: `available` is `available_`, `conn[t]` the
connection thread `t` holds. `getConnection(t)` is enabled only while some
slot is free (the wait on `pool_cv_`) and takes the lowest free slot;
`returnConnection(t)` frees the caller's slot. Both run under `pool_mutex_`
and are single steps. `BorrowAndReturn` is a handler step that takes and
gives back a connection within one step. `Pool` is instantiated by
`Reservation` and `Groups` with their connection threads.

`Semaphore` is what the pool promises: a set of `holders` of size at most
`Capacity`; `Acquire` and `Release`. `Pool` defines
`Sem == INSTANCE Semaphore WITH holders <- Holders, Capacity <- PoolSize`,
where `Holders` is the set of threads holding a connection, and the run
`seats` checks `Sem!Spec` (as `PoolImplementsSemaphore`) as a property
of the seat handlers.

### Reservation (with MCReservation)

Models the five vehicle and seat handlers run by any number of connection
threads (`Clients`) over the pool and the vehicles/tickets/payments tables.

* State: `vehicle` (the vehicles table, URI → row or `None`), `tickets`,
  `payments`, `nextTicket` (`generateTicketId`'s counter), `available`
  (`DatabasePool::available_`), and per thread `pc`, `req`, `conn` (the
  borrowed connection), `snap` (the thread's copy of the row it read),
  `made` (tickets its purchase inserted), `resp` (the code it answered).
  `settled` is a history variable: purchases that answered success.
* Atomicity: each `Database` call holds the connection's mutex and runs one
  autocommit statement, so it is one step. `getConnection` is merged into a
  handler's first statement and `returnConnection` into its last; no other
  thread can tell the difference. Each handler step takes every branch of the
  code: not found, no seats, statement failure, success.
* Actions: `Receive` (a request arrives and the checks made before the
  database answer early: missing urn → -1, bad session → 401, no identity →
  400, invalid uri → 400), `Lookup` (getConnection + getVehicle /
  getVehicleByRouteAndType + seat check), `ReserveWrite`, `CreateTicket` (one
  per passenger), `RecordPayment`, `PurchaseSeats`, `UpdateCapacity`,
  `Register`, `UpdateVehicle` (the vehicle type only: active and route
  are never read by the seat handlers, and a route is named after its URI).
  `generateTicketId` is the static atomic counter's increment.
* Failures: a statement fails nondeterministically, from a budget
  `MaxDbErrors`; a purchase by an unregistered urn fails its ticket INSERT on
  the foreign key.
* Data abstraction: a vehicle's route is a function of its URI, so requests
  name a vehicle by `uri` or `route` drawn from `Vehicles`; prices, dates,
  strings and logging are left out. `MCRequests` restricts requests to those
  naming the vehicle one way (by uri, as `UserInterface` does, or by route).

Runs (all with two threads and one vehicle `v1` of two seats; `v2` has no
row):

| Run | Expect | Checks | Shows |
|---|---|---|---|
| `seats` | pass | `TypeOK`, `SeatsNonNegative`, `PoolAccounting`, `PoolImplementsSemaphore`, `ConnectionsReturned` | with a pool of ONE connection (so the second thread waits in `getConnection`), reservations, a purchase of 1-2 passengers, UPDATE_CAPACITY, REGISTER_DEVICE and UPDATE_VEHICLE in any interleaving with one failing statement never write negative seats, never lose or double-lend a slot, use the pool as a counting semaphore, and eventually return every borrowed connection |
| `lost_update` | violation | `SeatCommitExact` | a handler writes `available_seats` computed from a stale copy: two reservations both succeed while one seat is taken, or a capacity update is overwritten (spec 8) |
| `partial_purchase` | violation | `TicketsSettled` | a failed purchase leaves its tickets (spec 4.F asks for rollback) |

Bounds: two threads are the least that interleave; a pool of one reaches
the blocking wait in `getConnection`, and a pool of two (`lost_update`,
`partial_purchase`) lets both threads hold a connection at once, which the
races need; two seats and 1-2 passengers reach both "enough" and "not
enough"; one failing statement reaches every error path; one vehicle type
in `seats` (`UPDATE_VEHICLE` then only rewrites the type it has: the type is
read by no seat property).

Fairness: weak fairness on each thread's handler steps (`Handle(t)`): a thread
that has a request keeps being scheduled by the OS. There is no fairness on
`Receive`: clients need not send anything. A thread blocked in
`getConnection` gets no strong fairness: `notify_one` wakes an arbitrary
waiter, so the liveness property is about connections being returned, not
about a particular waiter getting one.

### Groups (with MCGroups)

Models REGISTER_USER, DELETE_USER, CREATE_GROUP, ADD_MEMBER_TO_GROUP and
DELETE_GROUP_MEMBER on any number of connection threads sharing the pool,
and the admin deletion `CentralServer::processUserDeletion`, which no
message reaches (DELETE_USER is a stub) but the tests call, on the same
threads.

* State: `users` (the URNs with a row in the users table), `groups` (name → leader URN, or `None`), `members` (name → set of
  member URNs), the pool, and per thread `pc`, `req`, `resp`.
  Every group and membership row is active (no code writes `active = 0`;
  removal deletes), so membership is a set; the group id is abstracted to
  the (UNIQUE) name. `Registered` are the users present at start.
* Actions: `Receive` (missing fields → 400, unknown session → 401; CREATE_GROUP
  checks no session; DELETE_USER answers success and changes nothing, as the
  stub does), `RegisterCheck` (validateURN and getUser) and `RegisterInsert`
  (the INSERT on the same borrowed connection), `CreateInsert`, `CreateSelect`, `CreateMember` (the three
  statements of `createGroup`, holding one connection), `AddCheck`
  (`userExists`, `getGroupIdByName` and the membership SELECT, which read
  tables no other step of the check can change in between, merged into one
  step), `AddInsert`, `LeaderCheck` (`requireGroupLeader` on its own
  borrowed connection) and `Remove`; `DeleteCheck` (`admin_approved`,
  getConnection, `getUser`) and `DeleteRow` (`Database::deleteUser`,
  returnConnection; true is answered as 200, false as 500).
* Constraint violations (UNIQUE name, foreign keys, primary key) make a
  statement fail deterministically. Every connection runs
  `PRAGMA foreign_keys = ON`, so the INSERTs of `createGroup` and
  `addUserToGroup` fail for a URN without a users row, and `deleteUser`
  fails for a user a group or a membership names (`Referenced`); `MaxDbErrors` more fail nondeterministically.

| Run | Expect | Checks | Shows |
|---|---|---|---|
| `groups` | pass | `TypeOK`, `PoolAccounting`, `ReferencesResolve`, `AnswersMatchChanges` | no group or membership ever names a deleted user, although the deletion checks and deletes in two statements while other threads create and add between theirs; a success answer to a registration, an add or a removal is given by the step that made exactly that change, even when two registrations or two adds of the same user race; no slot is lost on createGroup's error paths |
| `partial_group_create` | violation | `LeaderIsActiveMember` | createGroup fails after its first statement and leaves a group without its leader as member (a leader removing itself breaks the same property; TLC reports the shorter trace) |

Bounds: three URNs (two registered, one not, to reach the foreign-key and
"User not found" paths), one group name (all races are on one group), two
threads, a pool of two, one failing statement. No counter needs a bound: the
tables are finite. 159,479 distinct states.

Seen while modelling: two `processUserDeletion` calls for one URN both
return true, because the second DELETE finds no row and still ends in
`SQLITE_DONE`. TLC shows it with the action property "a true answer
removed a row that was there". No run states that property: no message
reaches the function, and its only callers (the tests) read nothing but
the boolean.

### Fanout (with MCFanout)

Models sessions, the subscriber list and `sendMulticastUpdate` together with
the interactive client on the other end of each connection, since the
hazards are in how they share a socket.

* Constants: `Conns` (a connection: one `UserInterface` and the server thread
  serving it), `Users` and `Registered` (the URNs `getUser` finds),
  `MaxSessions` (bound on `generateSessionId`'s static counter),
  `MaxRequests` (bound on the requests all clients send together),
  `BufCap` (messages a socket holds unread before a write to it blocks:
  `asio::write` returns once the frame is in the socket buffers, so
  `ReplyEnd` and `BroadcastWrite` wait while the reader's side is full).
* Client state (`UserInterface`): `cpc`, `pending` (the request awaiting a
  response), `authed` and `token` (`authenticated_`, `session_token_`),
  `sent`. The two directions of each TLS stream are `toServer` / `toClient`,
  `open` is "the client has not closed it".
* Server state (`CentralServer`): per connection thread `spc`, `out`, `after`;
  `writing[c]`, the threads inside `sendMessage` on `c`'s socket (a write is
  two steps, `ReplyBegin`/`ReplyEnd` and `BroadcastSend`/`BroadcastWrite`,
  so that a write from another thread can fall in between); `bm`, the holder of
  `broadcast_mutex_`; `subscribers` (a sequence, as the vector: a re-auth
  pushes the socket again); `todo`/`kept` (the copy a broadcaster walks
  through and the sockets it keeps); `sessions` and `counter`.
* Client actions: `ClientAuth`, `ClientRequest` (reserve, purchase with the
  token), `ClientRegister` (no authentication needed), `ClientRegisterDevice`
  and `ClientGroupCommand` (refused locally unless authenticated; the server
  answers them with one response and no broadcast), `ClientReceive` (reads the next message and takes it as the
  response, as every handler of `UserInterface` does), `ClientListen`,
  `ClientQuit` (the socket is destroyed: `disconnect`, unread bytes lost).
* Server actions: `Receive` (AUTH_REQUEST for a registered and an unknown
  user, PURCHASE with an invalid token, RESERVE / PURCHASE that does or does
  not commit and so does or does not broadcast), `ReplyBegin`, `ReplyEnd`,
  `Subscribe`, `BroadcastLock`, `BroadcastSend`, `BroadcastWrite` (fails only
  on a closed connection), `BroadcastDone`, `Eof` and `Cleanup` (the
  disconnect path of `handleClientMessage`), and `CleanupExpiredSessions`
  (`sessionCleanupLoop`: time is not modelled, so any nonempty set of
  sessions may expire at once).

| Run | Expect | Checks | Shows |
|---|---|---|---|
| `fanout` | pass | `SubscribersLive` | a connection whose thread has exited is in no subscriber list, no fan-out's copy of it and no write in progress, whatever fan-outs, re-authentications and disconnects interleave |
| `concurrent_writes` | violation | `NoConcurrentWrites` | a broadcast from another thread writes into a socket while its owner thread is writing a response (spec 4.B) |
| `replies_paired` | violation | `RepliesPaired` | a client takes a MULTICAST_UPDATE that arrived first as the response to its request (spec 7) |

Bounds: two connections (one to broadcast, one to be written to), one or two
users (one registered), at most 3-4 requests in total and as many session
ids. Three requests already reach auth, a committing request and the
broadcast into the other connection's socket in either order.

`BufCap` is 8 in the runs (never reached: every write completes). With
`BufCap = 1` TLC finds a fan-out write blocked on a client idle at its prompt
while the writer holds `broadcast_mutex_`, and a closed connection's cleanup
waiting for that mutex forever; spec 4.G accepts blocking sends under the
lock, so this is kept as the `CentralServer.cpp:947` hazard, not a run.
For the same reason no liveness property is stated: that a closed
connection's thread gets through cleanup depends only on buffers being
larger than the traffic, which says nothing about the code.

`TypeOK` describes the state space but is not checked: the session counter
is a static `std::atomic` and `client_sessions_` a map, so no plausible slip
in this code produces an ill-typed state. No fairness is assumed (every
property is a safety property). A user may stop at any time, so
`CHECK_DEADLOCK FALSE`: all clients idle or gone is a normal end.

### Framing (with MCFraming)

The `Message` codec, as operators over byte sequences, and one direction of
a TLS stream.

* A byte is `0..255`, a key or a value a sequence of bytes, the body `data_`
  a function from keys to values laid out in `std::map` order (`KeyLess`:
  unsigned bytes, a proper prefix first). Header integers are written and
  read in network order (`U32`, `U16`, `ReadU32`, `ReadU16`).
* TLC's integers are 31-bit, so a `uint32_t` that can exceed them (the
  checksum, the CRC register) is a pair of 16-bit halves; `CRC32Step` is the
  code's step, mask `-(int32_t)(crc & 1)` included, and `RefCRC32` is the
  spec's CRC-32 written with a conditional.
* `DecodeFrom` keeps the code's `break`s: a body cut right after a length
  word or a key still decodes as success. `Deserialize` checks the magic and
  not the version, and ignores bytes past `length`.
* Actions: `New` (a factory or `Message(type)`), `Add` (any `add*`: the
  value is already its text), `Seal` (`calculateChecksum`; the client calls
  it again after adding to a factory message), `SendMessage` (the whole
  frame appended to the stream), `ReceiveMessage` (a header, the magic check,
  `length` more bytes, `deserialize`; `nullptr` ends the connection).

| Run | Expect | Checks | Shows |
|---|---|---|---|
| `framing` | pass | `TypeOK`, `ReceiveRoundTrip`, `StreamFramingRoundTrip`, `ChecksumsVerify`, `CRCMatchesReference` | frames come back equal and in order with nothing left over, the length-prefixed stream framing gives each message back, a received message passes `verifyChecksum`, and the code's CRC equals the reference |

Bounds: two frames, types 7 and 1001 (both header bytes used), keys `a`,
`ab` and a byte above 127 (the three orderings `std::map` can get wrong),
values empty and `0xFF`, at most two keys per message. `MCFraming` computes
both CRCs once per frame that the sender can build and overrides
`CalculateCRC32` and `RefCRC32` with lookups. A frame outside the table is
computed directly, so the results do not change. An `ASSUME` pins the
reference to the standard check value of `"123456789"`.

Seen while modelling and not checked by a run: `receiveMessage` never checks
the version or calls `verifyChecksum` (no code does), while spec 3 says
magic and version must match on receive and spec 7 says a checksum mismatch
drops the connection. With the reliable stream of the model no frame is
corrupted, so a run would only restate the missing call.

### Discovery (with MCDiscovery)

UDP multicast discovery: each coordinator's responder and each client's
`discoverServer`, over a LAN that loses datagrams, duplicates them (within
`MaxDups`) and delivers them in any order, and that carries datagrams of
another host (`Prober`: its `Noise` to the group, `Strays` to a client).

* Payloads are sequences of tokens (a word, a number, CR, LF, SP); `Trim`
  is the responder's `pop_back` of trailing CR, LF and SP, `Words` and `ParsePort`
  the client's `istringstream >>`.
* Coordinator actions: `Handle` (the receive handler: trim, answer
  `DISCOVER` with `ANNOUNCE central <port_>` to the sender, re-arm),
  `Close` (`cleanupMulticast`: leave, close, `stop()`) and `Join` (the io
  thread's `join`). `Init` is `setupMulticast`, which may leave discovery
  off.
* Client actions: `Discover` (send `kDiscover` to the group, arm one
  receive and the 1500 ms timer), `Reply` (the receive handler takes the
  first datagram), `TimerFire` (cancel the socket), `Finish` (parse; connect
  falls back to 127.0.0.1 and the command-line port). Time is not modelled:
  the timer may fire once nothing of the client's exchange is in flight, so
  an answer later than the timeout is a lost one.

| Run | Expect | Checks | Shows |
|---|---|---|---|
| `discovery` | pass | `DiscoveredAnnouncer`, `DiscoverySucceeds`, `DiscoveryEnds`, `ResponderDrains`, `StopReturns` | a discovered target is a coordinator that sent a well-formed ANNOUNCE with its TLS port; a client whose exchange lost nothing and met no stray datagram connects to a coordinator; discovery always ends; a responder keeps draining its socket; `cleanupMulticast` returns |
| `malformed_announce` | violation | `DiscoveredAnnouncer` | a stray `HELLO central 80` taken as the first reply makes the client connect to that host on port 80: the code never checks the words `ANNOUNCE central` (spec 4.D) |

Bounds: two coordinators (so two ANNOUNCEs race), one client, one prober
datagram and one duplicate. Fairness: the responder's io thread runs its
handlers (`Handle`, `Join`), and the client's `io.run()` runs the receive
and timer handlers to completion (`Reply`, `TimerFire`, `Finish`).

### Lifecycle (with MCLifecycle)

Start and stop of the central server, and the part of every connection
thread that depends on them. State: the main thread's place in
`main`/`start()`/`stop()` (`mpc`), `running_`, `background_running_`, each
background loop's place (`bpc`), `TLSServer::running_`, the acceptor and the
io thread, each connection's place (`kpc`: absent, handshake pending,
thread spawned, at the loop head, in `receiveMessage`, leaving, done,
dropped), the requests its client has sent and not yet had read, and the
counters `active_connections_` and `total_connections_`.

Actions, each one whole step of the code:
- `InitializeDatabase`, `TlsStart` (`TLSServer::start`; either may fail and
  `main` returns 1), `SetRunning` (`running_ = true`, `startBackgroundTasks`);
- `Signal`: the handler runs `stop()`, which returns at once when `running_`
  is unset (then `exit(0)`'s destructors still call `TLSServer::stop`);
  otherwise it clears both flags;
- `JoinBackground` (the three joins), `TlsStop` (flag, acceptor close,
  `io_.stop()`), `IoJoin` (join, then `exit(0)`);
- `BgCheck`/`BgWake`: `while (background_running_) { body; sleep_for }`;
- `Accept`, `Handshake`: the io thread's handlers, each checking
  `TLSServer::running_`; a completed handshake detaches the thread that
  runs `handleClientMessage`;
- `Enter`, `LoopCheck` (`while (running_ && client)`), `Recv` (a request, or
  EOF after the client closed), `Leave`;
- `ClientSend` (one request at a time, as every `UserInterface` command
  waits for its answer) and `ClientClose`.

After `exit(0)` no action is enabled (`Alive`).

| Run | Expect | Checks | Shows |
|---|---|---|---|
| `lifecycle` | pass | `TypeOK`, `ServerStopReturns`, `RequestsServed` | once the handler is in `stop()` it returns and the process exits; a request on a connection accepted while the server ran is processed unless `stop()` comes first |

Bounds: two connections, two of the three loops (their control is the same;
two show that the joins wait for every loop), two requests: one connection
can be accepted during `start()` and another after it, and a request can
wait while `stop()` runs. 69,591 distinct states.

Fairness: weak fairness on the main thread's start and stop steps, each
loop's steps, and each connection thread's steps: all are OS threads, and a
`sleep_for` ends. None on `Signal`, `Accept` or the clients: nobody has to
stop the server, connect, send or close. `CHECK_DEADLOCK FALSE`: after
`exit(0)` nothing runs.

Seen while modelling: a connection accepted between `TLSServer::start` and
`running_ = true` gets a thread that fails the loop check at once, so the
request its client sent is dropped (drop the `onTime` premise of
`RequestsServed` and TLC shows it). Spec 4.H wants the loops to exit
"promptly", but `sessionCleanupLoop` sleeps 300 s without waking on stop;
the model has no time, so it shows only that `stop()` returns.

## Plan

Done: Reservation (seat and vehicle handlers, pool, statement failures),
Pool refined to Semaphore, Users and Groups, Sessions and Fan-out with the
interactive client, Framing, Discovery, server Lifecycle, the admin
user deletion under the schema's foreign keys.

Next, within the existing modules:

1. the `ReceiveMessage` hazard of an unbounded `hdr.length` allocation, as a
   bound on what `Framing` accepts;
2. re-authentication on one connection (a second subscriber entry for the
   same socket) with a property on broadcasts per socket;
3. larger instances of `seats` once the state space allows (three threads).

## Not modelled

TLS handshakes and byte-level socket I/O (only message-level behaviour
matters); logging; the stub servers (`VehicleServer`, `AdminServer`,
`PaymentDevice`) which only log; the client main and the build script;
what a detached connection thread does after `exit(0)` has destroyed the
server (undefined behaviour: the model stops there); price
computation in floating point (`calculateTicketPrice` returns a constant);
UPDATE_PRICE (`Database::updatePrice` writes `price_list`, which nothing
reads; its UPDATE-then-INSERT race, which can leave two rows for one type,
is listed as a hazard); the fields `active` and `route` of UPDATE_VEHICLE;
`Message`'s setters `setType`, `setSequenceId`, `setSessionId` (never
called: sequence and session ids stay 0 on the wire); memory limits (the
unbounded allocation of `hdr.length` in `receiveMessage` is a hazard with
no property).
