----------------------------- MODULE Transactions -----------------------------
(***************************************************************************)
(* sql/transaction_manager.cpp, driven by the transaction statements of    *)
(* execution_engine.cpp:952-1108 from the worker threads of the server.    *)
(*                                                                         *)
(* current_txn_ is thread_local: it belongs to the worker, not to the      *)
(* session the worker serves, so the next session on that worker finds the *)
(* transaction of the one before it.  last_xid_ is atomic and              *)
(* active_txns_ is guarded by mutex_; the xid file is guarded by nothing.  *)
(* WriteXidFile truncates the file when it opens it and writes when it     *)
(* closes it, so two writers each write at offset 0 of the same file.      *)
(*                                                                         *)
(* The file is a sequence of digits, because a shorter number written over *)
(* a longer one leaves the tail of the longer one behind.  The base is 10  *)
(* in the code.  Isolation levels, time stamps and the statistics are left *)
(* out; no statement reads them back.                                      *)
(***************************************************************************)
EXTENDS Naturals, Sequences, SequencesExt

CONSTANTS Threads,        \* worker threads
          Names,          \* savepoint names
          NoTxn,          \* the null pointer
          NoFile,         \* the xid file does not exist yet
          Base,           \* base of the digits in the file
          PersistEvery,   \* AllocateXid writes the file at each multiple (1000)
          MaxXid,         \* bound: no transaction begins beyond this xid
          MaxSavepoints,  \* bound: savepoints of one transaction
          MaxRestarts     \* bound: restarts of the server

ASSUME BoundsAssumption ==
    /\ Base \in Nat /\ Base >= 2
    /\ PersistEvery \in Nat \ {0}
    /\ MaxXid \in Nat /\ MaxSavepoints \in Nat /\ MaxRestarts \in Nat
    /\ NoTxn \notin Nat /\ NoFile \notin Seq(Nat)

VARIABLES last_xid,     \* last_xid_
          active_txns,  \* the xids in active_txns_
          current_txn,  \* current_txn_ of each thread
          savepoints,   \* the names in the savepoints of each thread's current_txn_
          file,         \* the xid file: NoFile or a sequence of digits
          pc,           \* where each thread is inside Begin or Commit
          value,        \* the xid a thread is about to hand out or to write
          restarts,     \* restarts so far
          committed,    \* history: xids whose COMMIT was answered, over all restarts
          disturbed,    \* history: the writing of the file met one of the cases that
                        \* WriteXidFile does not guard against
          dropped       \* history: transactions a second BEGIN took from their thread

vars == <<last_xid, active_txns, current_txn, savepoints, file, pc, value, restarts,
          committed, disturbed, dropped>>

\* Inside Begin: the xid is allocated, and written when it is a multiple.
\* Inside Commit: the transaction has left active_txns_, and PersistXid runs.
PCs == {"idle", "begin_open", "begin_write", "begin_push",
        "commit_load", "commit_open", "commit_write"}

\* A thread between reading last_xid_ and having written the file
Writes(t) == pc[t] \in {"begin_open", "begin_write", "commit_open", "commit_write"}
-----------------------------------------------------------------------------
(* The xid file *)

\* operator<< : the digits of n
digits[n \in Nat] == IF n < Base THEN <<n>> ELSE Append(digits[n \div Base], n % Base)

Digits(n) == digits[n]

\* operator>> : 0 for an empty file
Parse(f) ==
    LET number[i \in 0 .. Len(f)] == IF i = 0 THEN 0 ELSE number[i - 1] * Base + f[i]
    IN  number[Len(f)]

\* LoadXid, called by Initialize: a missing and an empty file both mean 1.
LoadXid(f) ==
    IF f = NoFile THEN 1 ELSE IF Parse(f) > 0 THEN Parse(f) ELSE 1

\* Writing at offset 0 replaces the beginning and keeps what is beyond.
Overwrite(f, n) == Digits(n) \o SubSeq(f, Len(Digits(n)) + 1, Len(f))
-----------------------------------------------------------------------------
Init == /\ last_xid = LoadXid(NoFile)
        /\ active_txns = {}
        /\ current_txn = [t \in Threads |-> NoTxn]
        /\ savepoints = [t \in Threads |-> <<>>]
        /\ file = NoFile
        /\ pc = [t \in Threads |-> "idle"]
        /\ value = [t \in Threads |-> 0]
        /\ restarts = 0
        /\ committed = {}
        /\ disturbed = FALSE
        /\ dropped = {}

\* BEGIN: AllocateXid increments the counter, and every PersistEvery-th xid is
\* written to the file before Begin goes on.
Begin(t) ==
    /\ pc[t] = "idle"
    /\ last_xid < MaxXid
    /\ last_xid' = last_xid + 1
    /\ value' = [value EXCEPT ![t] = last_xid + 1]
    /\ IF (last_xid + 1) % PersistEvery = 0
       THEN /\ pc' = [pc EXCEPT ![t] = "begin_open"]
            /\ disturbed' = (disturbed \/ \E u \in Threads : Writes(u))
       ELSE /\ pc' = [pc EXCEPT ![t] = "begin_push"]
            /\ UNCHANGED disturbed
    /\ UNCHANGED <<active_txns, current_txn, savepoints, file, restarts, committed, dropped>>

\* Mutant: a second BEGIN keeps the transaction that is open
BeginPushKeepsOpen(t) ==
    /\ pc[t] = "begin_push"
    /\ active_txns' = active_txns \cup {value[t]}
    /\ current_txn' = [current_txn EXCEPT ![t] = IF @ = NoTxn THEN value[t] ELSE @]
    /\ dropped' = dropped \cup ({current_txn[t]} \ {NoTxn})
    /\ savepoints' = [savepoints EXCEPT ![t] = <<>>]
    /\ pc' = [pc EXCEPT ![t] = "idle"]
    /\ value' = [value EXCEPT ![t] = 0]
    /\ UNCHANGED <<last_xid, file, restarts, committed, disturbed>>

\* The rest of Begin: the new transaction becomes the thread's current one, whether
\* or not it had one; nobody ends the one it had.
BeginPush(t) ==
    /\ pc[t] = "begin_push"
    /\ active_txns' = active_txns \cup {value[t]}
    /\ current_txn' = [current_txn EXCEPT ![t] = value[t]]
    /\ dropped' = dropped \cup ({current_txn[t]} \ {NoTxn})
    /\ savepoints' = [savepoints EXCEPT ![t] = <<>>]
    /\ pc' = [pc EXCEPT ![t] = "idle"]
    /\ value' = [value EXCEPT ![t] = 0]
    /\ UNCHANGED <<last_xid, file, restarts, committed, disturbed>>

\* COMMIT with a current transaction; without one the statement fails.
Commit(t) ==
    /\ pc[t] = "idle"
    /\ current_txn[t] # NoTxn
    /\ active_txns' = active_txns \ {current_txn[t]}
    /\ pc' = [pc EXCEPT ![t] = "commit_load"]
    /\ UNCHANGED <<last_xid, current_txn, savepoints, file, value, restarts, committed,
                   disturbed, dropped>>

\* Mutant: PersistXid writes the xid of the transaction instead of the last one
PersistOwnXid(t) ==
    /\ pc[t] = "commit_load"
    /\ value' = [value EXCEPT ![t] = current_txn[t]]
    /\ pc' = [pc EXCEPT ![t] = "commit_open"]
    /\ disturbed' = (disturbed \/ \E u \in Threads : Writes(u))
    /\ UNCHANGED <<last_xid, active_txns, current_txn, savepoints, file, restarts,
                   committed, dropped>>

\* PersistXid reads last_xid_.
PersistXid(t) ==
    /\ pc[t] = "commit_load"
    /\ value' = [value EXCEPT ![t] = last_xid]
    /\ pc' = [pc EXCEPT ![t] = "commit_open"]
    /\ disturbed' = (disturbed \/ \E u \in Threads : Writes(u))
    /\ UNCHANGED <<last_xid, active_txns, current_txn, savepoints, file, restarts,
                   committed, dropped>>

\* The end of Commit
Committed(t) ==
    /\ committed' = committed \cup {current_txn[t]}
    /\ current_txn' = [current_txn EXCEPT ![t] = NoTxn]
    /\ savepoints' = [savepoints EXCEPT ![t] = <<>>]
    /\ value' = [value EXCEPT ![t] = 0]

\* WriteXidFile opens the file, which truncates it.
OpenXidFile(t) ==
    /\ pc[t] \in {"begin_open", "commit_open"}
    /\ file' = <<>>
    /\ pc' = [pc EXCEPT ![t] = IF @ = "begin_open" THEN "begin_write" ELSE "commit_write"]
    /\ UNCHANGED <<last_xid, active_txns, current_txn, savepoints, value, restarts,
                   committed, disturbed, dropped>>

\* The file does not open: the result of WriteXidFile is ignored, and Begin or
\* Commit goes on.
OpenXidFileFails(t) ==
    /\ pc[t] \in {"begin_open", "commit_open"}
    /\ disturbed' = TRUE
    /\ IF pc[t] = "begin_open"
       THEN /\ pc' = [pc EXCEPT ![t] = "begin_push"]
            /\ UNCHANGED <<committed, current_txn, savepoints, value>>
       ELSE /\ pc' = [pc EXCEPT ![t] = "idle"]
            /\ Committed(t)
    /\ UNCHANGED <<last_xid, active_txns, file, restarts, dropped>>

WriteXidFile(t) ==
    /\ pc[t] \in {"begin_write", "commit_write"}
    /\ file' = Overwrite(file, value[t])
    /\ IF pc[t] = "begin_write"
       THEN /\ pc' = [pc EXCEPT ![t] = "begin_push"]
            /\ UNCHANGED <<committed, current_txn, savepoints, value>>
       ELSE /\ pc' = [pc EXCEPT ![t] = "idle"]
            /\ Committed(t)
    /\ UNCHANGED <<last_xid, active_txns, restarts, disturbed, dropped>>

\* ROLLBACK: no write of the file
Rollback(t) ==
    /\ pc[t] = "idle"
    /\ current_txn[t] # NoTxn
    /\ active_txns' = active_txns \ {current_txn[t]}
    /\ current_txn' = [current_txn EXCEPT ![t] = NoTxn]
    /\ savepoints' = [savepoints EXCEPT ![t] = <<>>]
    /\ UNCHANGED <<last_xid, file, pc, value, restarts, committed, disturbed, dropped>>
-----------------------------------------------------------------------------
(* Savepoints of the current transaction *)

Positions(t, name) == {i \in 1 .. Len(savepoints[t]) : savepoints[t][i] = name}

SavepointStep(t, new) ==
    /\ pc[t] = "idle"
    /\ current_txn[t] # NoTxn
    /\ savepoints' = [savepoints EXCEPT ![t] = new]
    /\ UNCHANGED <<last_xid, active_txns, current_txn, file, pc, value, restarts,
                   committed, disturbed, dropped>>

\* A name may occur again; the new savepoint is added at the end.
CreateSavepoint(t, name) ==
    /\ Len(savepoints[t]) < MaxSavepoints
    /\ SavepointStep(t, Append(savepoints[t], name))

\* find_if: the first savepoint of that name goes.
ReleaseSavepoint(t, name) ==
    /\ Positions(t, name) # {}
    /\ SavepointStep(t, RemoveAt(savepoints[t], Min(Positions(t, name))))

\* find_if again: everything after the first savepoint of that name goes.
RollbackToSavepoint(t, name) ==
    /\ Positions(t, name) # {}
    /\ SavepointStep(t, SubSeq(savepoints[t], 1, Min(Positions(t, name))))

\* COMMIT, ROLLBACK and the savepoint statements without a current transaction
\* answer with an error.
NoTransaction(t) ==
    /\ pc[t] = "idle"
    /\ current_txn[t] = NoTxn
    /\ UNCHANGED vars
-----------------------------------------------------------------------------
(* The end of the process *)

Restart(f) ==
    /\ restarts < MaxRestarts
    /\ restarts' = restarts + 1
    /\ file' = f
    /\ last_xid' = LoadXid(f)
    /\ active_txns' = {}
    /\ dropped' = {}
    /\ current_txn' = [t \in Threads |-> NoTxn]
    /\ savepoints' = [t \in Threads |-> <<>>]
    /\ pc' = [t \in Threads |-> "idle"]
    /\ value' = [t \in Threads |-> 0]
    /\ UNCHANGED committed

\* The process dies.  A file that was opened and not yet written is empty.
Crash ==
    /\ Restart(file)
    /\ disturbed' = (disturbed \/ \E t \in Threads : pc[t] \in {"begin_write", "commit_write"})

\* The destructor, after the workers have been joined: it persists last_xid_ and
\* deletes what is active.  A crash may find the file truncated.
Shutdown(torn) ==
    /\ \A t \in Threads : pc[t] = "idle"
    /\ Restart(IF torn THEN <<>> ELSE Digits(last_xid))
    /\ disturbed' = (disturbed \/ torn)

Next == \/ \E t \in Threads :
              \/ Begin(t) \/ BeginPush(t)
              \/ Commit(t) \/ PersistXid(t)
              \/ OpenXidFile(t) \/ OpenXidFileFails(t) \/ WriteXidFile(t)
              \/ Rollback(t) \/ NoTransaction(t)
              \/ \E name \in Names : \/ CreateSavepoint(t, name)
                                     \/ ReleaseSavepoint(t, name)
                                     \/ RollbackToSavepoint(t, name)
        \/ Crash
        \/ \E torn \in BOOLEAN : Shutdown(torn)

Spec == Init /\ [][Next]_vars
-----------------------------------------------------------------------------
\* The variables have their types, and the file holds digits.
TypeOK ==
    /\ last_xid \in Nat \ {0}
    /\ active_txns \in SUBSET Nat
    /\ current_txn \in [Threads -> Nat \cup {NoTxn}]
    /\ savepoints \in [Threads -> Seq(Names)]
    /\ file # NoFile => file \in Seq(0 .. Base - 1)
    /\ pc \in [Threads -> PCs]
    /\ value \in [Threads -> Nat]
    /\ restarts \in 0 .. MaxRestarts
    /\ committed \in SUBSET Nat
    /\ disturbed \in BOOLEAN
    /\ dropped \in SUBSET Nat

\* A committed xid is never handed out again, even after a crash at any point
\* (transaction_manager.h: "XID persistence (survives server restart)"), as long as
\* no two writers of the file overlapped, no crash fell between truncating and
\* writing it, and it could always be opened.
CommittedXidsStayBehind ==
    ~disturbed => \A x \in committed :
        /\ x <= last_xid
        /\ x \notin active_txns
        /\ \A t \in Threads : pc[t] \in {"begin_open", "begin_write", "begin_push"}
                                  => value[t] # x

\* Every active transaction is the current one of exactly one thread, or a second
\* BEGIN took it from its thread; no thread is inside a transaction that has ended,
\* though the threads allocate, register and end transactions under no common lock.
ActiveIsCurrentOrDropped ==
    /\ \A t \in Threads : current_txn[t] # NoTxn /\ pc[t] # "commit_load"
                             /\ pc[t] # "commit_open" /\ pc[t] # "commit_write"
                             => current_txn[t] \in active_txns
    /\ \A t, u \in Threads : t # u /\ current_txn[t] # NoTxn => current_txn[t] # current_txn[u]
    /\ \A x \in active_txns : \/ x \in dropped
                              \/ \E t \in Threads : current_txn[t] = x

\* Every active transaction is the current one of its thread, or one that a second
\* BEGIN of that thread has dropped.
TransactionsAreOwned == TypeOK /\ ActiveIsCurrentOrDropped
=============================================================================
