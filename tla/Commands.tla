------------------------------- MODULE Commands -------------------------------
(***************************************************************************)
(* The statements that ExecutionEngine::ExecuteSQL hands to the            *)
(* AuthManager and to the executors that change tables, the logins, and    *)
(* the restart of the server.  Every statement on a table but REGISTER_FK  *)
(* is let through by CheckPrivilegeForStatement, which asks the            *)
(* AuthManager and waits for its mutex_.                                   *)
(*                                                                         *)
(* The parts share nothing else, so a behaviour issues statements of one   *)
(* family only (focus), as many as Limit allows.  Queries change nothing   *)
(* here: module Statements adds them.                                      *)
(***************************************************************************)
EXTENDS AuthManager, Tables

CONSTANTS MaxPrivileges,  \* bound: statements about users and privileges
          MaxLogins,      \* bound: FLUSH HOSTS and restarts between logins
          MaxData         \* bound: statements on tables

VARIABLES focus, issued

command_vars == <<auth_vars, table_vars, focus, issued>>

Limit == CASE focus = "privileges" -> MaxPrivileges
           [] focus = "logins"     -> MaxLogins
           [] focus = "data"       -> MaxData
           [] focus = "queries"    -> 0

CommandsInit ==
    /\ Initialize
    /\ TablesInit
    /\ focus \in {"privileges", "logins", "data", "queries"}
    /\ focus # "data" => rows = [n \in Names |-> {}] /\ fks = [n \in Names |-> {}]
    /\ issued = 0

\* CheckPrivilegeForStatement of a session on a table
CheckPrivilegeForStatement(table, required) ==
    /\ ~hung
    /\ \E s \in Sessions : \/ s[1] = "root"
                           \/ CheckAccess(s[1], s[2], "goods_db", table, required)

AuthStatement ==
    \/ \E a \in Accounts, p \in Passwords : CreateUser(a[1], a[2], p) \/ SetPassword(a[1], a[2], p)
    \/ \E a \in Accounts : DropUser(a[1], a[2])
    \/ \E a \in Accounts, o \in Objects, b \in Bits :
          GrantPrivilege(a[1], a[2], o[1], o[2], b) \/ RevokePrivilege(a[1], a[2], o[1], o[2], b)
    \/ FlushPrivileges

DataStatement(s) ==
    /\ Can(s, "idle")
    /\ \E n \in Names :
          \/ CheckPrivilegeForStatement(n, "CREATE") /\ Create(s, n)
          \/ CheckPrivilegeForStatement(n, "DROP") /\ Drop(s, n)
          \/ \E c \in Names, a \in Actions : RegisterForeignKey(s, n, c, a)
          \/ /\ CheckPrivilegeForStatement(n, "INSERT")
             /\ \E ref \in Refs : InsertOpens(s, n, ref)
          \/ /\ CheckPrivilegeForStatement(n, "UPDATE")
             /\ \E id \in 1 .. MaxId, ref \in Refs : UpdateCollects(s, n, id, ref)
          \/ /\ CheckPrivilegeForStatement(n, "DELETE")
             /\ \E id \in 1 .. MaxId : DeleteCollects(s, n, id)

DataStatementGoesOn(s) ==
    \/ FirstPage(s) \/ Register(s) \/ StoreHeap(s) \/ DropFromCatalog(s)
    \/ InsertScans(s) \/ InsertWrites(s)
    \/ UpdateApplies(s)
    \/ DeleteRow(s) \/ Cascade(s) \/ DeleteEnds(s)

Login ==
    \/ \E v \in Visitors : \/ \E p \in Passwords : CheckConnection(v, "guest", p)
                           \/ RecordAuthFailure(v)
    \/ Expire

Issue ==
    /\ issued < Limit
    /\ issued' = issued + 1
    /\ UNCHANGED focus
    /\ \/ /\ focus = "privileges"
          /\ AuthStatement
          /\ UNCHANGED table_vars
       \/ /\ focus = "logins"
          /\ ClearBlockList
          /\ UNCHANGED table_vars
       \/ /\ focus = "data"
          /\ \E s \in Runners : DataStatement(s)
          /\ UNCHANGED auth_vars
       \/ /\ Restart
          /\ ForgetTables

CommandsNext ==
    \/ Issue
    \/ /\ focus = "data"
       /\ \E s \in Runners : DataStatementGoesOn(s)
       /\ UNCHANGED <<auth_vars, focus, issued>>
    \/ /\ focus = "logins"
       /\ Login
       /\ UNCHANGED <<table_vars, focus, issued>>

CommandsSpec == CommandsInit /\ [][CommandsNext]_command_vars
=============================================================================
