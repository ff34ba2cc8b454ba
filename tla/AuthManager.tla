------------------------------ MODULE AuthManager ------------------------------
(***************************************************************************)
(* AuthManager: users, privileges and blocked hosts.  The two caches are   *)
(* kept beside three system tables, and every method holds mutex_.         *)
(*                                                                         *)
(* A salted hash is modelled by the password, a privilege mask by a set of *)
(* bits.  Each system table is the sequence of its live rows, on one page: *)
(* a row is deleted with MarkDelete while the iterator that found it still *)
(* holds the read latch of the page, unless the row was the last live one  *)
(* there (table_iterator.cpp:54-75).  A thread that asks for the write     *)
(* latch it blocks itself never returns, and it keeps mutex_.              *)
(***************************************************************************)
EXTENDS Integers, Sequences, FiniteSets, SequencesExt

CONSTANTS Accounts,          \* user and host pairs that statements name
          Passwords,
          Objects,           \* db and table pairs that statements name
          Bits,              \* what privilege lists of statements stand for, sets of
                             \* bits: an unknown word in a list stands for none
          Visitors,          \* connections that may be in HandleAuth at once
          kMaxAuthFailures,
          MaxFailures,       \* bound: failures counted
          Sessions           \* user and address of the sessions that administer

VARIABLES user_cache, priv_cache,               \* in memory
          user_table, db_table, tables_priv,    \* live rows of the system tables
          failure_count, expired,               \* block_list_: the entry of the clients' host
          attempt,                              \* where each visitor is in HandleAuth
          guesses,                              \* history: passwords found wrong since the entry began
          hung,                                 \* a thread waits for itself with mutex_
          dropped,                              \* history: accounts dropped so far
          narrowed                              \* history: rows of __sys_db that GRANT or
                                                \* REVOKE on one table deleted

caches == <<user_cache, priv_cache>>
tables == <<user_table, db_table, tables_priv>>
block_list == <<failure_count, expired, guesses>>
past == <<dropped, narrowed>>
auth_vars == <<caches, tables, block_list, attempt, hung, past>>

ALL == {"SELECT", "INSERT", "UPDATE", "DELETE", "CREATE", "DROP", "GRANT"}

\* Privilege lists name privileges; a host is blocked after some failures, not before.
ASSUME AuthAssumption ==
    /\ IsFiniteSet(Visitors)
    /\ Bits \subseteq SUBSET ALL
    /\ kMaxAuthFailures \in Nat \ {0}
    /\ MaxFailures \in Nat

\* The address clients connect from
Address == "127.0.0.1"

User(u, h, p) == [user |-> u, host |-> h, password |-> p]
Priv(u, h, d, t, b) == [user |-> u, host |-> h, db |-> d, table |-> t, privileges |-> b]

SameAccount(rec, u, h) == rec.user = u /\ rec.host = h
SameKey(rec, u, h, d, t) == SameAccount(rec, u, h) /\ rec.db = d /\ rec.table = t

DefaultUsers == << User("root", "localhost", ""), User("root", "%", ""),
                   User("admin", "localhost", "12345"), User("guest", "localhost", "") >>
DefaultPrivs == << Priv("root", "%", "*", "*", ALL),
                   Priv("admin", "localhost", "*", "*", ALL),
                   Priv("guest", "localhost", "*", "*", {"SELECT"}) >>

\* The first start: the system tables are created and the default users put in.
Initialize ==
    /\ user_cache = DefaultUsers /\ user_table = DefaultUsers
    /\ priv_cache = DefaultPrivs /\ db_table = DefaultPrivs
    /\ tables_priv = <<>>
    /\ failure_count = 0 /\ expired = FALSE /\ guesses = 0
    /\ attempt = [v \in Visitors |-> "away"]
    /\ hung = FALSE
    /\ dropped = {} /\ narrowed = {}
-----------------------------------------------------------------------------
(* Look-up *)

\* 127.0.0.1 and ::1 stand for localhost.
IsAlias(rec_host, host) == host = "127.0.0.1" /\ rec_host = "localhost"

\* The records of user that FindUser takes for host, best kind first
UserMatches(user, host) ==
    << SelectSeq(user_cache, LAMBDA r : SameAccount(r, user, host)),
       SelectSeq(user_cache, LAMBDA r : r.user = user /\ IsAlias(r.host, host)),
       SelectSeq(user_cache, LAMBDA r : SameAccount(r, user, "%")) >>

FindUser(user, host) == FlattenSeq(UserMatches(user, host))

Score(rec, host, db, table) ==
    (IF rec.host = host THEN 4 ELSE IF IsAlias(rec.host, host) THEN 3 ELSE 2)
    + (IF rec.db = db THEN 3 ELSE 1)
    + (IF rec.table = table THEN 2 ELSE 0)

Applies(rec, user, host, db, table) ==
    /\ rec.user = user
    /\ rec.host \in {host, "%"} \/ IsAlias(rec.host, host)
    /\ rec.db \in {db, "*"}
    /\ rec.table \in {table, "*"}

\* FindBestMatch: the first of the records with the highest score
IsBestMatch(records, i, user, host, db, table) ==
    /\ Applies(records[i], user, host, db, table)
    /\ \A j \in DOMAIN records : Applies(records[j], user, host, db, table) =>
          LET si == Score(records[i], host, db, table)
              sj == Score(records[j], host, db, table)
          IN  si > sj \/ (si = sj /\ i <= j)

\* The privileges of the best match: it decides alone.
Rights(records, user, host, db, table) ==
    UNION {records[i].privileges :
             i \in {k \in DOMAIN records : IsBestMatch(records, k, user, host, db, table)}}

CheckAccess(user, host, db, table, required) ==
    required \in Rights(priv_cache, user, host, db, table)

CheckAdminAccess(session) ==
    \/ session[1] = "root"
    \/ CheckAccess(session[1], session[2], "goods_db", "*", "GRANT")

\* An administrative statement of some session is let through.
Admitted == ~hung /\ \E s \in Sessions : CheckAdminAccess(s)
-----------------------------------------------------------------------------
(* Deleting rows of a system table under a scan of it *)

AccountRows(rows, u, h) == {r \in ToSet(rows) : SameAccount(r, u, h)}
DatabaseRows(u, h, d) == {r \in AccountRows(db_table, u, h) : r.db = d}
TableRows(u, h, d, t) == {r \in ToSet(tables_priv) : SameKey(r, u, h, d, t)}

DeletionHangs(rows, gone) == \E i \in DOMAIN rows : rows[i] \in gone /\ i < Len(rows)

\* The rows that are not gone, in their order
Delete(rows, gone) ==
    LET kept[n \in 0 .. Len(rows)] ==
          IF n = 0 THEN <<>>
          ELSE IF rows[n] \in gone THEN kept[n - 1] ELSE Append(kept[n - 1], rows[n])
    IN  kept[Len(rows)]

RemoveUserFromTable(u, h) == Delete(user_table, AccountRows(user_table, u, h))
RemoveUserHangs(u, h) == DeletionHangs(user_table, AccountRows(user_table, u, h))

\* RemovePrivFromTable does not look at the table when it deletes database rows.
RemoveDbPriv(u, h, d) == Delete(db_table, DatabaseRows(u, h, d))
RemoveTablePriv(u, h, d, t) == Delete(tables_priv, TableRows(u, h, d, t))
RemovePrivHangs(u, h, d, t) ==
    \/ DeletionHangs(db_table, DatabaseRows(u, h, d))
    \/ DeletionHangs(tables_priv, TableRows(u, h, d, t))

\* The rows of the whole database that go when the key is that of a table
Narrow(u, h, d, t) ==
    narrowed' = IF t = "*" THEN narrowed ELSE narrowed \cup DatabaseRows(u, h, d)

\* PersistPriv appends to one of the two tables what db_rows and table_rows left.
PersistPriv(rec, db_rows, table_rows) ==
    IF rec.table = "*"
    THEN db_table' = Append(db_rows, rec) /\ tables_priv' = table_rows
    ELSE db_table' = db_rows /\ tables_priv' = Append(table_rows, rec)

Hang == hung' = TRUE /\ UNCHANGED <<caches, tables, block_list, attempt, past>>
-----------------------------------------------------------------------------
(* Statements *)

CreateUser(u, h, p) ==
    /\ Admitted
    /\ FindUser(u, h) = <<>>
    /\ user_cache' = Append(user_cache, User(u, h, p))
    /\ user_table' = Append(user_table, User(u, h, p))
    /\ UNCHANGED <<priv_cache, db_table, tables_priv, block_list, attempt, hung, past>>

\* The cache loses every privilege of the account, the tables those on *.* only.
DropUser(u, h) ==
    /\ Admitted
    /\ \E r \in ToSet(user_cache) : SameAccount(r, u, h)
    /\ IF RemoveUserHangs(u, h) \/ RemovePrivHangs(u, h, "*", "*")
       THEN Hang
       ELSE /\ user_cache' = Delete(user_cache, AccountRows(user_cache, u, h))
            /\ priv_cache' = Delete(priv_cache, AccountRows(priv_cache, u, h))
            /\ user_table' = RemoveUserFromTable(u, h)
            /\ db_table' = RemoveDbPriv(u, h, "*")
            /\ tables_priv' = RemoveTablePriv(u, h, "*", "*")
            /\ dropped' = dropped \cup {<<u, h>>}
            /\ UNCHANGED <<block_list, attempt, hung, narrowed>>

\* ALTER USER and SET PASSWORD: the row is deleted and inserted again.
SetPassword(u, h, p) ==
    /\ Admitted
    /\ \E i \in DOMAIN user_cache :
          /\ SameAccount(user_cache[i], u, h)
          /\ IF RemoveUserHangs(u, h)
             THEN Hang
             ELSE /\ user_cache' = [user_cache EXCEPT ![i] = User(u, h, p)]
                  /\ user_table' = Append(RemoveUserFromTable(u, h), User(u, h, p))
                  /\ UNCHANGED <<priv_cache, db_table, tables_priv, block_list, attempt,
                                 hung, past>>

\* The first record of the key, if there is one
FirstOf(u, h, d, t) ==
    SelectInSeq(priv_cache, LAMBDA r : SameKey(r, u, h, d, t))

\* GRANT adds to the record of the key, or makes one.
GrantPrivilege(u, h, d, t, bits) ==
    /\ Admitted
    /\ LET i == FirstOf(u, h, d, t)
       IN  IF i = 0
           THEN LET rec == Priv(u, h, d, t, bits)
                IN  /\ priv_cache' = Append(priv_cache, rec)
                    /\ PersistPriv(rec, db_table, tables_priv)
                    /\ UNCHANGED <<hung, narrowed>>
           ELSE IF RemovePrivHangs(u, h, d, t)
           THEN hung' = TRUE /\ UNCHANGED <<priv_cache, db_table, tables_priv, narrowed>>
           ELSE LET rec == Priv(u, h, d, t, priv_cache[i].privileges \cup bits)
                IN  /\ priv_cache' = [priv_cache EXCEPT ![i] = rec]
                    /\ PersistPriv(rec, RemoveDbPriv(u, h, d), RemoveTablePriv(u, h, d, t))
                    /\ Narrow(u, h, d, t)
                    /\ UNCHANGED hung
    /\ UNCHANGED <<user_cache, user_table, block_list, attempt, dropped>>

\* Mutant: the persisted record is not removed when nothing is left of it
RevokeLeavesRow(u, h, d, t, bits) ==
    /\ Admitted
    /\ LET i == FirstOf(u, h, d, t)
           rec == Priv(u, h, d, t, priv_cache[i].privileges \ bits)
       IN  /\ i # 0
           /\ ~RemovePrivHangs(u, h, d, t)
           /\ priv_cache' = [priv_cache EXCEPT ![i] = rec]
           /\ IF rec.privileges = {}
              THEN UNCHANGED <<db_table, tables_priv>>
              ELSE PersistPriv(rec, RemoveDbPriv(u, h, d), RemoveTablePriv(u, h, d, t))
           /\ Narrow(u, h, d, t)
    /\ UNCHANGED <<hung, user_cache, user_table, block_list, attempt, dropped>>

\* REVOKE takes from the record, which stays in the cache even when nothing is left.
RevokePrivilege(u, h, d, t, bits) ==
    /\ Admitted
    /\ LET i == FirstOf(u, h, d, t)
       IN  /\ i # 0
           /\ IF RemovePrivHangs(u, h, d, t)
              THEN hung' = TRUE /\ UNCHANGED <<priv_cache, db_table, tables_priv, narrowed>>
              ELSE LET rec == Priv(u, h, d, t, priv_cache[i].privileges \ bits)
                       db_rows == RemoveDbPriv(u, h, d)
                       table_rows == RemoveTablePriv(u, h, d, t)
                   IN  /\ priv_cache' = [priv_cache EXCEPT ![i] = rec]
                       /\ IF rec.privileges = {}
                          THEN db_table' = db_rows /\ tables_priv' = table_rows
                          ELSE PersistPriv(rec, db_rows, table_rows)
                       /\ Narrow(u, h, d, t)
                       /\ UNCHANGED hung
    /\ UNCHANGED <<user_cache, user_table, block_list, attempt, dropped>>

\* LoadUserCache and LoadPrivCache: database rows first
Reloaded == db_table \o tables_priv
Load == user_cache' = user_table /\ priv_cache' = Reloaded /\ narrowed' = {}

\* FLUSH PRIVILEGES and RELOAD
FlushPrivileges ==
    /\ Admitted
    /\ Load
    /\ UNCHANGED <<tables, block_list, attempt, hung, dropped>>

\* An orderly restart: Initialize opens the tables and loads them.
Restart ==
    /\ ~hung
    /\ \A v \in Visitors : attempt[v] = "away"
    /\ Load
    /\ failure_count' = 0 /\ expired' = FALSE /\ guesses' = 0
    /\ UNCHANGED <<tables, attempt, hung, dropped>>

\* FLUSH HOSTS
ClearBlockList ==
    /\ Admitted
    /\ failure_count' = 0 /\ expired' = FALSE /\ guesses' = 0
    /\ UNCHANGED <<caches, tables, attempt, hung, past>>
-----------------------------------------------------------------------------
(* HandleAuth of the connections from one address *)

\* Mutant: the limit is reached one failure late
IsHostBlockedLate == ~expired /\ failure_count > kMaxAuthFailures

IsHostBlocked == ~expired /\ failure_count >= kMaxAuthFailures

PasswordMatches(user, password) ==
    LET found == FindUser(user, Address)
    IN  found # <<>> /\ Head(found).password = password

\* CheckConnection fails: the host is blocked, or there is no such user, or it has
\* another password.  (Success changes nothing: it does not clear the count.)
CheckConnection(v, user, password) ==
    /\ ~hung
    /\ attempt[v] = "away"
    /\ failure_count < MaxFailures
    /\ IF IsHostBlocked
       THEN attempt' = [attempt EXCEPT ![v] = "blocked"] /\ UNCHANGED guesses
       ELSE /\ ~PasswordMatches(user, password)
            /\ attempt' = [attempt EXCEPT ![v] = "wrong"]
            /\ guesses' = guesses + 1
    /\ UNCHANGED <<caches, tables, failure_count, expired, hung, past>>

\* HandleAuth counts the failure in a second critical section, also that of a
\* visitor the block turned away.  A failure after the block has expired starts the
\* count again.
RecordAuthFailure(v) ==
    /\ ~hung
    /\ attempt[v] # "away"
    /\ failure_count' = (IF expired THEN 0 ELSE failure_count) + 1
    /\ expired' = FALSE
    /\ attempt' = [attempt EXCEPT ![v] = "away"]
    /\ UNCHANGED <<caches, tables, guesses, hung, past>>

\* kBlockDurationSeconds pass since the last failure.
Expire ==
    /\ failure_count > 0 /\ ~expired
    /\ expired' = TRUE
    /\ guesses' = 0
    /\ UNCHANGED <<caches, tables, failure_count, attempt, hung, past>>
-----------------------------------------------------------------------------
Persisted == ToSet(db_table) \cup ToSet(tables_priv)
Kept(rec) == <<rec.user, rec.host>> \notin dropped

\* The records keep their shape, database rows hold no table and table rows name one,
\* and no more failures are counted than there were.
AuthTypeOK ==
    /\ \A r \in ToSet(user_cache) \cup ToSet(user_table) :
          r = User(r.user, r.host, r.password)
    /\ \A r \in ToSet(priv_cache) \cup Persisted :
          r = Priv(r.user, r.host, r.db, r.table, r.privileges) /\ r.privileges \subseteq ALL
    /\ \A r \in ToSet(db_table) : r.table = "*"
    /\ \A r \in ToSet(tables_priv) : r.table # "*"
    /\ failure_count \in 0 .. MaxFailures + Cardinality(Visitors)
    /\ expired \in BOOLEAN /\ hung \in BOOLEAN
    /\ attempt \in [Visitors -> {"away", "wrong", "blocked"}]

\* Between two calls the users in memory are the users in __sys_user, in the same
\* order, whatever was created, dropped, altered and reloaded before: a restart
\* changes nobody's password.
UsersArePersisted == ~hung => user_cache = user_table

\* The records that the tables hold of an account that was never dropped are in the
\* cache.  (DROP USER leaves rows behind.)
RowsAreCached ==
    ~hung => \A r \in Persisted : Kept(r) => r \in ToSet(priv_cache)

\* A record that grants something is in its table, or is one of a whole database whose
\* row went with a GRANT or REVOKE on a table of that database.
RecordsAreStored ==
    ~hung => \A r \in ToSet(priv_cache) :
                Kept(r) /\ r.privileges # {} => r \in Persisted \cup narrowed

\* What CheckAccess lets a user do, from the address of the clients, is the same before
\* and after FLUSH PRIVILEGES or a restart, whatever was granted and revoked, unless
\*   - an account of that name was dropped: its rows are still there;
\*   - two records that apply are equally specific: a reload changes their order;
\*   - a row of the whole database went with a GRANT or REVOKE on one of its tables;
\*   - nothing is left of a record that applies: it is not stored, but until the reload
\*     it hides what a less specific one grants, so that the reload gives a right.
\* A reload never gives a right that no record in the cache has.
AccessSurvivesReload ==
    ~hung /\ priv_cache # Reloaded => \A a \in Accounts, o \in Objects :
        LET user == a[1]
            now == Rights(priv_cache, user, Address, o[1], o[2])
            later == Rights(Reloaded, user, Address, o[1], o[2])
            known == {r \in ToSet(priv_cache) : Applies(r, user, Address, o[1], o[2])}
        IN  (\A b \in dropped : b[1] # user) =>
              /\ later \subseteq UNION {r.privileges : r \in known}
              /\ /\ \A q, r \in known :
                        Score(q, Address, o[1], o[2]) = Score(r, Address, o[1], o[2]) => q = r
                 /\ known \cap narrowed \subseteq ToSet(db_table)
                 => /\ now \subseteq later
                    /\ (\A r \in known : r.privileges # {}) => later \subseteq now

\* No more passwords are compared from a blocked host than the limit and the
\* connections that were already past the test: the test and the count are two
\* critical sections.
GuessesBounded == guesses < kMaxAuthFailures + Cardinality(Visitors)

\* A reload of the system tables gives every account the password it had, and the
\* rights but for the cases AccessSurvivesReload names.
ReloadKeepsRights ==
    AuthTypeOK /\ UsersArePersisted /\ RowsAreCached /\ RecordsAreStored /\ AccessSurvivesReload
=============================================================================
