------------------------------- MODULE Groups -------------------------------
(***************************************************************************)
(* Groups and their members, as the central server changes them.           *)
(*                                                                         *)
(*   CREATE_GROUP        handleGroupCreation / Database::createGroup       *)
(*   ADD_MEMBER_TO_GROUP handleAddMemberToGroup / Database::addUserToGroup *)
(*   DELETE_GROUP_MEMBER handleRemoveMemberFromGroup, requireGroupLeader / *)
(*                       Database::getGroupLeader, removeUserFromGroup     *)
(*   REGISTER_USER       handleUserRegistration / Database::getUser,       *)
(*                       registerUser                                      *)
(*   DELETE_USER         handleUserDeletion (answers success, no change)   *)
(*   processUserDeletion the admin deletion (no message reaches it; the    *)
(*                       tests call it): getUser, Database::deleteUser     *)
(*                                                                         *)
(* As in Reservation, each connection thread handles one request at a time *)
(* and every SQLite statement is one atomic autocommit step.  A Database   *)
(* method holds its connection's db_mutex_ across its statements, but the  *)
(* other connections are not held back by it: createGroup's three         *)
(* statements and addUserToGroup's check and insert interleave with other  *)
(* threads' statements.                                                    *)
(*                                                                         *)
(* A group is named by its group_name (UNIQUE); its group_id is left out.  *)
(* No code ever sets groups.active or group_members.active to 0 and        *)
(* removal DELETEs the row, so every row is active: the members of a group *)
(* are a set, and addUserToGroup's re-activation branch is never taken.    *)
(* Sessions are not modelled here: a request's session is either one of a *)
(* user registered at the start (the caller) or one the server does not   *)
(* know.  A URN that fails validateURN is the request field None.          *)
(* Every connection runs PRAGMA foreign_keys = ON (Database::initialize): *)
(* an INSERT naming a URN without a users row, and a DELETE of a user     *)
(* that a group or a membership names, fail.                              *)
(***************************************************************************)
EXTENDS Naturals, FiniteSets

CONSTANTS
  Clients,     \* connection threads
  Users,       \* user URNs
  Registered,  \* URNs with a row in the users table at the start
  GroupNames,  \* group names
  PoolSize,    \* DatabasePool size
  MaxDbErrors, \* bound: failing SQLite statements in one behaviour
  Ops,         \* request kinds the clients send
  None         \* absent field / no row / no connection

ASSUME /\ Registered \subseteq Users
       /\ Ops \subseteq {"create", "add", "remove", "register", "delete_user",
                 "admin_delete"}

(* Requests after Message::getString: None is an empty or missing field; *)
(* session "unknown" is a session_id not in client_sessions_.            *)
Sessions == Registered \cup {"unknown", None}

CreateRequests ==
  [op: {"create"}, group: GroupNames \cup {None}, leader: Users \cup {None}]
MemberRequests ==
  [op: {"add", "remove"}, session: Sessions, group: GroupNames \cup {None},
   urn: Users \cup {None}]

UserRequests == [op: {"register", "delete_user"}, urn: Users \cup {None}]

(* processUserDeletion(urn, admin_approved) *)
AdminRequests == [op: {"admin_delete"}, urn: Users, approved: BOOLEAN]

Requests == {r \in CreateRequests \cup MemberRequests \cup UserRequests \cup AdminRequests :
               r.op \in Ops}

VARIABLES
  users,      \* users table: the URNs with a row
  groups,     \* groups table: name -> leader_urn, or None when no row
  members,    \* group_members table: name -> member URNs
  available,  \* DatabasePool::available_
  conn,       \* the pool connection a thread holds
  pc,         \* where each connection thread is
  req,        \* the request a thread is handling
  resp,       \* the code answered to the thread's request, None while it runs
  dbErrors    \* bound counter: statements that failed

vars == <<users, groups, members, available, conn, pc, req, resp, dbErrors>>

INSTANCE Pool WITH Threads <- Clients

Labels == {"idle", "create_insert", "create_select", "create_member",
           "add_check", "add_insert", "leader_check", "remove",
           "register_check", "register_insert", "delete_check", "delete_row"}

TypeOK ==
  /\ users \in SUBSET Users
  /\ groups \in [GroupNames -> Users \cup {None}]
  /\ members \in [GroupNames -> SUBSET Users]
  /\ PoolTypeOK
  /\ pc \in [Clients -> Labels]
  /\ req \in [Clients -> Requests \cup {None}]
  /\ resp \in [Clients -> {None, 200, 400, 401, 403, 404, 409, 500}]
  /\ dbErrors \in 0 .. MaxDbErrors

Init ==
  /\ users = Registered
  /\ groups = [g \in GroupNames |-> None]
  /\ members = [g \in GroupNames |-> {}]
  /\ PoolInit
  /\ pc = [t \in Clients |-> "idle"]
  /\ req = [t \in Clients |-> None]
  /\ resp = [t \in Clients |-> None]
  /\ dbErrors = 0
-----------------------------------------------------------------------------
DbFails == dbErrors < MaxDbErrors /\ dbErrors' = dbErrors + 1

Reply(t, code) ==
  /\ resp' = [resp EXCEPT ![t] = code]
  /\ pc' = [pc EXCEPT ![t] = "idle"]
  /\ req' = [req EXCEPT ![t] = None]

(* The thread goes on to its next step. *)
Goto(t, label) == pc' = [pc EXCEPT ![t] = label] /\ UNCHANGED <<req, resp>>

(* Checks made before the database: missing fields (400), then the        *)
(* session (401).  CREATE_GROUP checks no session at all; REGISTER_USER   *)
(* only validateURN; DELETE_USER nothing.  processUserDeletion returns     *)
(* false (500 here; 200 stands for true) without admin_approved.          *)
EarlyError(r) ==
  CASE r.op = "admin_delete"                                           ->
         IF r.approved THEN None ELSE 500
    [] r.op = "register" /\ r.urn = None                               -> 400
    [] r.op \in {"register", "delete_user"}                            -> None
    [] r.op = "create" /\ (r.group = None \/ r.leader = None)          -> 400
    [] r.op # "create" /\ None \in {r.session, r.group, r.urn}         -> 400
    [] r.op # "create" /\ r.session = "unknown"                        -> 401
    [] OTHER                                                          -> None

FirstStep(r) ==
  CASE r.op = "create"   -> "create_insert"
    [] r.op = "register" -> "register_check"
    [] r.op = "add"      -> "add_check"
    [] r.op = "remove"   -> "leader_check"
    [] r.op = "admin_delete" -> "delete_check"

Receive(t) ==
  /\ pc[t] = "idle"
  /\ \E r \in Requests :
       \/ /\ EarlyError(r) # None
          /\ resp' = [resp EXCEPT ![t] = EarlyError(r)]
          /\ UNCHANGED <<pc, req>>
       \/ /\ r.op = "delete_user"
          /\ resp' = [resp EXCEPT ![t] = 200]
          /\ UNCHANGED <<pc, req>>
       \/ /\ EarlyError(r) = None
          /\ r.op # "delete_user"
          /\ pc' = [pc EXCEPT ![t] = FirstStep(r)]
          /\ req' = [req EXCEPT ![t] = r]
          /\ resp' = [resp EXCEPT ![t] = None]
  /\ UNCHANGED <<users, groups, members, available, conn, dbErrors>>
-----------------------------------------------------------------------------
(* A statement fails on a constraint (UNIQUE, PRIMARY KEY, FOREIGN KEY)    *)
(* when violated, and on SQLITE_BUSY or I/O from the error budget.         *)
StatementFails(violated) ==
  \/ violated /\ UNCHANGED dbErrors
  \/ DbFails

StatementRuns(violated) == ~violated /\ UNCHANGED dbErrors

(* handleGroupCreation: getConnection, then createGroup statement 1,      *)
(* INSERT INTO groups.  On any failure createGroup returns false and the  *)
(* handler returns the connection and answers 500.                        *)
CreateInsert(t) ==
  LET g == req[t].group
      bad == groups[g] # None \/ req[t].leader \notin users
  IN
  /\ pc[t] = "create_insert"
  /\ \/ /\ StatementFails(bad)
        /\ BorrowAndReturn
        /\ Reply(t, 500)
        /\ UNCHANGED groups
     \/ /\ StatementRuns(bad)
        /\ getConnection(t)
        /\ groups' = [groups EXCEPT ![g] = req[t].leader]
        /\ Goto(t, "create_select")
  /\ UNCHANGED <<users, members>>

(* Variant with a plausible bug: the error path of statement 2 answers    *)
(* without returning the connection.                                      *)
CreateSelectKeepsConn(t) ==
  /\ pc[t] = "create_select"
  /\ \/ /\ DbFails
        /\ Reply(t, 500)
     \/ /\ Goto(t, "create_member")
        /\ UNCHANGED dbErrors
  /\ UNCHANGED <<users, groups, members, available, conn>>

(* Statement 2: SELECT group_id by name.  The row is there (groups are     *)
(* never deleted), so it only fails by a statement failure.               *)
CreateSelect(t) ==
  /\ pc[t] = "create_select"
  /\ \/ /\ DbFails
        /\ returnConnection(t)
        /\ Reply(t, 500)
     \/ /\ Goto(t, "create_member")
        /\ UNCHANGED <<available, conn, dbErrors>>
  /\ UNCHANGED <<users, groups, members>>

(* Statement 3: INSERT OR REPLACE the leader as an active member; then    *)
(* the handler returns the connection and answers.                        *)
CreateMember(t) ==
  LET g == req[t].group IN
  /\ pc[t] = "create_member"
  /\ returnConnection(t)
  /\ \/ /\ StatementFails(req[t].leader \notin users)
        /\ Reply(t, 500)
        /\ UNCHANGED members
     \/ /\ StatementRuns(req[t].leader \notin users)
        /\ members' = [members EXCEPT ![g] = @ \cup {req[t].leader}]
        /\ Reply(t, 200)
  /\ UNCHANGED <<users, groups>>

(* handleAddMemberToGroup: getConnection, then addUserToGroup's reads:    *)
(* userExists, getGroupIdByName, and the membership SELECT.  Groups are   *)
(* never deleted and a user deleted after userExists is caught by the     *)
(* INSERT's foreign key, so the three reads are one step.  A failing read reads as "not        *)
(* found"; a row found means "User already in group".                     *)
AddCheck(t) ==
  LET g == req[t].group
      u == req[t].urn
      bad == u \notin users \/ groups[g] = None \/ u \in members[g]
  IN
  /\ pc[t] = "add_check"
  /\ \/ /\ StatementFails(bad)
        /\ BorrowAndReturn
        /\ Reply(t, 500)
     \/ /\ StatementRuns(bad)
        /\ getConnection(t)
        /\ Goto(t, "add_insert")
  /\ UNCHANGED <<users, groups, members>>

(* Variant with a plausible bug: the member row written with INSERT OR    *)
(* REPLACE, as createGroup writes the leader's.                           *)
AddInsertOrReplace(t) ==
  LET g == req[t].group IN
  /\ pc[t] = "add_insert"
  /\ returnConnection(t)
  /\ members' = [members EXCEPT ![g] = @ \cup {req[t].urn}]
  /\ Reply(t, 200)
  /\ UNCHANGED <<users, groups, dbErrors>>

(* addUserToGroup's INSERT of a new active row; it fails on the primary  *)
(* key if another thread inserted the same member since the check, and   *)
(* on the foreign key if the user was deleted since.                     *)
AddInsert(t) ==
  LET g == req[t].group
      u == req[t].urn
      bad == u \in members[g] \/ u \notin users
  IN
  /\ pc[t] = "add_insert"
  /\ returnConnection(t)
  /\ \/ /\ StatementFails(bad)
        /\ Reply(t, 500)
        /\ UNCHANGED members
     \/ /\ StatementRuns(bad)
        /\ members' = [members EXCEPT ![g] = @ \cup {u}]
        /\ Reply(t, 200)
  /\ UNCHANGED <<users, groups>>

(* requireGroupLeader: getConnection, getGroupLeader, returnConnection.   *)
(* No leader read (no row, or the SELECT failed) answers 404; a leader    *)
(* other than the session's user answers 403.                             *)
LeaderCheck(t) ==
  LET g == req[t].group IN
  /\ pc[t] = "leader_check"
  /\ BorrowAndReturn
  /\ \/ /\ StatementFails(groups[g] = None)
        /\ Reply(t, 404)
     \/ /\ StatementRuns(groups[g] = None)
        /\ groups[g] # req[t].session
        /\ Reply(t, 403)
     \/ /\ StatementRuns(groups[g] = None)
        /\ groups[g] = req[t].session
        /\ Goto(t, "remove")
  /\ UNCHANGED <<users, groups, members>>

(* handleRemoveMemberFromGroup after the leader check: getConnection,     *)
(* removeUserFromGroup (group id, then DELETE), returnConnection.  No row *)
(* deleted means "User not in group"; both answer 500 on failure.         *)
Remove(t) ==
  LET g == req[t].group
      u == req[t].urn
  IN
  /\ pc[t] = "remove"
  /\ BorrowAndReturn
  /\ \/ /\ StatementFails(u \notin members[g])
        /\ Reply(t, 500)
        /\ UNCHANGED members
     \/ /\ StatementRuns(u \notin members[g])
        /\ members' = [members EXCEPT ![g] = @ \ {u}]
        /\ Reply(t, 200)
  /\ UNCHANGED <<users, groups>>
(* handleUserRegistration after validateURN: getConnection, getUser.  A  *)
(* row found answers 409; a failing SELECT reads as no row.               *)
RegisterCheck(t) ==
  /\ pc[t] = "register_check"
  /\ \/ /\ StatementRuns(req[t].urn \notin users)
        /\ BorrowAndReturn
        /\ Reply(t, 409)
     \/ /\ StatementFails(req[t].urn \notin users)
        /\ getConnection(t)
        /\ Goto(t, "register_insert")
  /\ UNCHANGED <<users, groups, members>>

(* Variant with a plausible bug: the user row written with INSERT OR      *)
(* REPLACE.                                                               *)
RegisterInsertOrReplace(t) ==
  /\ pc[t] = "register_insert"
  /\ returnConnection(t)
  /\ users' = users \cup {req[t].urn}
  /\ Reply(t, 200)
  /\ UNCHANGED <<groups, members, dbErrors>>

(* registerUser's INSERT on the same connection, then returnConnection.   *)
(* It fails on the primary key if the URN was registered since getUser    *)
(* (answered 500 "User already registered"), or by a statement failure.  *)
RegisterInsert(t) ==
  LET u == req[t].urn IN
  /\ pc[t] = "register_insert"
  /\ returnConnection(t)
  /\ \/ /\ StatementFails(u \in users)
        /\ Reply(t, 500)
        /\ UNCHANGED users
     \/ /\ StatementRuns(u \in users)
        /\ users' = users \cup {u}
        /\ Reply(t, 200)
  /\ UNCHANGED <<groups, members>>

(* processUserDeletion: getConnection, getUser; no row (or a failing      *)
(* SELECT) returns the connection and false.                              *)
DeleteCheck(t) ==
  /\ pc[t] = "delete_check"
  /\ \/ /\ StatementRuns(req[t].urn \notin users)
        /\ getConnection(t)
        /\ Goto(t, "delete_row")
     \/ /\ StatementFails(req[t].urn \notin users)
        /\ BorrowAndReturn
        /\ Reply(t, 500)
  /\ UNCHANGED <<users, groups, members>>

(* A user some group or membership names. *)
Referenced(u) == \E g \in GroupNames : groups[g] = u \/ u \in members[g]

(* Variant with a plausible bug: the connection opened without PRAGMA      *)
(* foreign_keys = ON (SQLite's default), so the DELETE never fails on a    *)
(* reference.                                                             *)
DeleteRowNoForeignKeys(t) ==
  /\ pc[t] = "delete_row"
  /\ returnConnection(t)
  /\ \/ /\ DbFails
        /\ Reply(t, 500)
        /\ UNCHANGED users
     \/ /\ users' = users \ {req[t].urn}
        /\ Reply(t, 200)
        /\ UNCHANGED dbErrors
  /\ UNCHANGED <<groups, members>>

(* Database::deleteUser, DELETE FROM users WHERE urn = ?, then            *)
(* returnConnection: false on a failing statement, true otherwise, also   *)
(* when another thread deleted the row since getUser (no row changed is   *)
(* still SQLITE_DONE).                                                    *)
DeleteRow(t) ==
  LET u == req[t].urn IN
  /\ pc[t] = "delete_row"
  /\ returnConnection(t)
  /\ \/ /\ StatementFails(Referenced(u))
        /\ Reply(t, 500)
        /\ UNCHANGED users
     \/ /\ StatementRuns(Referenced(u))
        /\ users' = users \ {u}
        /\ Reply(t, 200)
  /\ UNCHANGED <<groups, members>>
-----------------------------------------------------------------------------
Handle(t) ==
  \/ CreateInsert(t) \/ CreateSelect(t) \/ CreateMember(t)
  \/ AddCheck(t) \/ AddInsert(t) \/ LeaderCheck(t) \/ Remove(t)
  \/ RegisterCheck(t) \/ RegisterInsert(t)
  \/ DeleteCheck(t) \/ DeleteRow(t)

Next == \E t \in Clients : Receive(t) \/ Handle(t)

(* A thread with a request keeps being scheduled; clients need not send. *)
Fairness == \A t \in Clients : WF_vars(Handle(t))

Spec == Init /\ [][Next]_vars /\ Fairness
-----------------------------------------------------------------------------
(* Properties *)

(* Spec 3 and 8: the leader of every group is an active member of it.  A   *)
(* group whose createGroup is still between its INSERT and the leader's    *)
(* membership row is exempt.                                               *)
Creating(g) == \E t \in Clients : pc[t] \in {"create_select", "create_member"}
                                  /\ req[t].group = g

LeaderIsActiveMember ==
  \A g \in GroupNames :
    groups[g] # None /\ ~Creating(g) => groups[g] \in members[g]

(* A success answer to ADD_MEMBER_TO_GROUP, DELETE_GROUP_MEMBER or        *)
(* REGISTER_USER is given only by the step that made the change it        *)
(* reports: the member (user) was not there before an add (registration)  *)
(* and is after it, and the other way round for a removal, whatever other *)
(* threads did between the handler's check and its write.                *)
Answered(t, op) ==
  /\ pc[t] # "idle" /\ pc'[t] = "idle" /\ resp'[t] = 200 /\ req[t].op = op

AnswersMatchChanges ==
  [][\A t \in Clients :
       /\ Answered(t, "add") =>
            req[t].urn \notin members[req[t].group]
            /\ req[t].urn \in members'[req[t].group]
       /\ Answered(t, "remove") =>
            req[t].urn \in members[req[t].group]
            /\ req[t].urn \notin members'[req[t].group]
       /\ Answered(t, "register") =>
            req[t].urn \notin users /\ req[t].urn \in users']_vars

(* The foreign keys hold whatever interleaves with a deletion: every      *)
(* group's leader and every member has a users row, although              *)
(* processUserDeletion checks with getUser on one step and deletes on     *)
(* another, while other threads create groups and add members between     *)
(* their own checks and inserts.                                          *)
ReferencesResolve ==
  \A g \in GroupNames :
    /\ groups[g] # None => groups[g] \in users
    /\ members[g] \subseteq users

(* DatabasePool bookkeeping across createGroup's three statements and     *)
(* addUserToGroup's two steps: a slot is taken exactly when one thread     *)
(* holds it, and a thread back at receiveMessage holds none.               *)
PoolAccounting ==
  /\ SlotsMatchHolders
  /\ \A t \in Clients : pc[t] = "idle" => conn[t] = None

====
