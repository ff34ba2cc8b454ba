----------------------------- MODULE LockManager -----------------------------
(***************************************************************************)
(* sql/lock_manager.cpp: row locks under row_mutex_, table locks under     *)
(* table_mutex_, each a map from the object to one LockEntry of a mode and *)
(* a count.  A critical section is one step; a caller asleep on a          *)
(* condition variable has given the mutex up, so going to sleep, waking up *)
(* and giving up are steps of their own.                                   *)
(*                                                                         *)
(* Callers are threads that release only what they hold.  The manager does *)
(* not know who holds what: every call runs as transaction 0               *)
(* (lock_manager.cpp:59, 167, 189, 257), which the Record functions        *)
(* ignore.  Who holds a lock in which mode is therefore kept here, in      *)
(* rowHolders and tableHolders, as what the callers were told.             *)
(*                                                                         *)
(* The wait statistics are left out.                                       *)
(***************************************************************************)
EXTENDS Integers, FiniteSets

CONSTANTS Callers,   \* threads that use the manager
          Rows,      \* RIDs
          Tables,    \* table names
          NoCaller,  \* nobody owns row_mutex_ between two calls
          MaxLocks   \* bound: locks a caller holds, rows and tables together, when
                     \* it asks for another

ASSUME CallersAssumption == NoCaller \notin Callers

VARIABLES row_locks,     \* row_locks_: [mode, count], count 0 when there is no entry
          table_locks,   \* table_locks_, likewise
          row_mutex,     \* who owns row_mutex_ across steps: only a caller that hangs
          rowHolders,    \* who was granted which mode on a row, and has not released it
          tableHolders,  \* the same for a table
          caller         \* where each caller is

lock_vars == <<row_locks, table_locks, row_mutex, rowHolders, tableHolders, caller>>

Modes == {"S", "X", "IS", "IX", "SIX"}

\* An entry that find() does not return
NoEntry == [mode |-> "S", count |-> 0]

\* A caller is running, asleep in LockTable, woken there by notify_all, or hangs
\* on row_mutex_.
Running == [at |-> "running"]
Hangs   == [at |-> "hangs"]
Sleeping(t, m, timed) == [at |-> "asleep", table |-> t, mode |-> m, timed |-> timed]
InLockTable(c) == caller[c].at \in {"asleep", "woken"}

MayAsk(c) ==
    /\ caller[c] = Running
    /\ Cardinality({x \in Rows \X Modes : <<c, x[2]>> \in rowHolders[x[1]]})
       + Cardinality({x \in Tables \X Modes : <<c, x[2]>> \in tableHolders[x[1]]})
       <= MaxLocks

LocksInit == /\ row_locks = [r \in Rows |-> NoEntry]
        /\ table_locks = [t \in Tables |-> NoEntry]
        /\ row_mutex = NoCaller
        /\ rowHolders = [r \in Rows |-> {}]
        /\ tableHolders = [t \in Tables |-> {}]
        /\ caller = [c \in Callers |-> Running]
-----------------------------------------------------------------------------
\* Mutant: X is refused next to everything but an intention
ModesCompatibleXIntention(held, requested) ==
    CASE held = "S"   -> requested \in {"S", "IS"}
      [] held = "X"   -> FALSE
      [] held = "IS"  -> TRUE
      [] held = "IX"  -> requested \in {"IS", "IX"}
      [] held = "SIX" -> requested = "IS"

ModesCompatible(held, requested) ==
    CASE held = "S"   -> requested \in {"S", "IS"}
      [] held = "X"   -> FALSE
      [] held = "IS"  -> requested # "X"
      [] held = "IX"  -> requested \in {"IS", "IX"}
      [] held = "SIX" -> requested = "IS"

\* A granted request: the first one makes the entry, with its own mode; a later one
\* is only counted.
Grant(entry, m) ==
    IF entry.count = 0 THEN [mode |-> m, count |-> 1]
                       ELSE [entry EXCEPT !.count = @ + 1]

\* Mutant: the entry outlives its last holder
ReleaseKeepsEntry(entry) == [entry EXCEPT !.count = IF @ <= 1 THEN 1 ELSE @ - 1]

\* One holder less; the entry is erased with the last one.
Release(entry) ==
    IF entry.count <= 1 THEN NoEntry ELSE [entry EXCEPT !.count = @ - 1]
-----------------------------------------------------------------------------
(* Rows *)

\* Granted at once: no entry, or both S.
RowGrantable(entry, m) ==
    \/ entry.count = 0
    \/ ModesCompatible(entry.mode, m) /\ m = "S" /\ entry.mode = "S"

LockRow(c, r, m) ==
    /\ MayAsk(c)
    /\ row_mutex = NoCaller
    /\ <<c, m>> \notin rowHolders[r]
    /\ RowGrantable(row_locks[r], m)
    /\ row_locks' = [row_locks EXCEPT ![r] = Grant(@, m)]
    /\ rowHolders' = [rowHolders EXCEPT ![r] = @ \cup {<<c, m>>}]
    /\ UNCHANGED <<table_locks, row_mutex, tableHolders, caller>>

\* Any conflict: WouldDeadlock calls DetectDeadlock with row_mutex_ held, and
\* DetectDeadlock locks row_mutex_ again, which is not recursive.  The caller never
\* returns, whatever its timeout, and never unlocks.
LockRowHangs(c, r, m) ==
    /\ MayAsk(c)
    /\ row_mutex = NoCaller
    /\ ~RowGrantable(row_locks[r], m)
    /\ row_mutex' = c
    /\ caller' = [caller EXCEPT ![c] = Hangs]
    /\ UNCHANGED <<row_locks, table_locks, rowHolders, tableHolders>>

UnlockRow(c, r, m) ==
    /\ caller[c] = Running
    /\ row_mutex = NoCaller
    /\ <<c, m>> \in rowHolders[r]
    /\ row_locks' = [row_locks EXCEPT ![r] = Release(@)]
    /\ rowHolders' = [rowHolders EXCEPT ![r] = @ \ {<<c, m>>}]
    /\ UNCHANGED <<table_locks, row_mutex, tableHolders, caller>>

\* LockRow, UnlockRow, ReleaseAllLocks and the row statistics of everyone else wait
\* for the mutex that is never given back.
RowCallBlocks(c) ==
    /\ caller[c] = Running
    /\ row_mutex # NoCaller
    /\ caller' = [caller EXCEPT ![c] = Hangs]
    /\ UNCHANGED <<row_locks, table_locks, row_mutex, rowHolders, tableHolders>>
-----------------------------------------------------------------------------
(* Tables *)

TableGrantable(entry, m) == entry.count = 0 \/ ModesCompatible(entry.mode, m)

GrantTable(c, t, m) ==
    /\ table_locks' = [table_locks EXCEPT ![t] = Grant(@, m)]
    /\ tableHolders' = [tableHolders EXCEPT ![t] = @ \cup {<<c, m>>}]
    /\ UNCHANGED <<row_locks, row_mutex, rowHolders>>

LockTable(c, t, m) ==
    /\ MayAsk(c)
    /\ <<c, m>> \notin tableHolders[t]
    /\ TableGrantable(table_locks[t], m)
    /\ GrantTable(c, t, m)
    /\ UNCHANGED caller

\* A conflicting request sleeps; with a timeout of 0 it returns false and nothing
\* changes.
LockTableWaits(c, t, m, timed) ==
    /\ MayAsk(c)
    /\ <<c, m>> \notin tableHolders[t]
    /\ ~TableGrantable(table_locks[t], m)
    /\ caller' = [caller EXCEPT ![c] = Sleeping(t, m, timed)]
    /\ UNCHANGED <<row_locks, table_locks, row_mutex, rowHolders, tableHolders>>

\* A woken caller evaluates the predicate under the mutex: it is granted the lock or
\* sleeps again.
LockTableWakes(c) ==
    /\ caller[c].at = "woken"
    /\ LET t == caller[c].table
           m == caller[c].mode
       IN  IF TableGrantable(table_locks[t], m)
           THEN /\ GrantTable(c, t, m)
                /\ caller' = [caller EXCEPT ![c] = Running]
           ELSE /\ caller' = [caller EXCEPT ![c].at = "asleep"]
                /\ UNCHANGED <<row_locks, table_locks, row_mutex, rowHolders, tableHolders>>

\* The time of wait_for is up: the predicate decides once more.
LockTableTimesOut(c) ==
    /\ InLockTable(c)
    /\ caller[c].timed
    /\ LET t == caller[c].table
           m == caller[c].mode
       IN  IF TableGrantable(table_locks[t], m)
           THEN GrantTable(c, t, m)
           ELSE UNCHANGED <<row_locks, table_locks, row_mutex, rowHolders, tableHolders>>
    /\ caller' = [caller EXCEPT ![c] = Running]

\* Mutant: notify_one
NotifyOne ==
    LET one == CHOOSE c \in Callers : caller[c].at = "asleep"
    IN  IF \E c \in Callers : caller[c].at = "asleep"
        THEN [caller EXCEPT ![one].at = "woken"]
        ELSE caller

\* table_cv_.notify_all()
NotifyAll ==
    [c \in Callers |-> IF caller[c].at = "asleep" THEN [caller[c] EXCEPT !.at = "woken"]
                                                  ELSE caller[c]]

UnlockTable(c, t, m) ==
    /\ caller[c] = Running
    /\ <<c, m>> \in tableHolders[t]
    /\ table_locks' = [table_locks EXCEPT ![t] = Release(@)]
    /\ tableHolders' = [tableHolders EXCEPT ![t] = @ \ {<<c, m>>}]
    /\ caller' = NotifyAll
    /\ UNCHANGED <<row_locks, row_mutex, rowHolders>>

\* txn_locks_ is always empty, because transaction 0 is never recorded: the call
\* releases nothing, and only wakes the sleepers.
ReleaseAllLocks(c) ==
    /\ caller[c] = Running
    /\ row_mutex = NoCaller
    /\ caller' = NotifyAll
    /\ UNCHANGED <<row_locks, table_locks, row_mutex, rowHolders, tableHolders>>
-----------------------------------------------------------------------------
LocksNext ==
    \E c \in Callers :
        \/ \E r \in Rows, m \in Modes : \/ LockRow(c, r, m)
                                        \/ LockRowHangs(c, r, m)
                                        \/ UnlockRow(c, r, m)
        \/ RowCallBlocks(c)
        \/ \E t \in Tables, m \in Modes : \/ LockTable(c, t, m)
                                          \/ \E timed \in BOOLEAN :
                                                LockTableWaits(c, t, m, timed)
                                          \/ UnlockTable(c, t, m)
        \/ LockTableWakes(c)
        \/ LockTableTimesOut(c)
        \/ ReleaseAllLocks(c)

LocksSpec == LocksInit /\ [][LocksNext]_lock_vars
-----------------------------------------------------------------------------
Entries == [mode : Modes, count : Nat]
Requests == [at : {"asleep", "woken"}, table : Tables, mode : Modes, timed : BOOLEAN]

\* The variables have their types; what a caller waits for, it does not hold yet.
LocksTypeOK ==
    /\ row_locks \in [Rows -> Entries]
    /\ table_locks \in [Tables -> Entries]
    /\ row_mutex \in Callers \cup {NoCaller}
    /\ rowHolders \in [Rows -> SUBSET (Callers \X Modes)]
    /\ tableHolders \in [Tables -> SUBSET (Callers \X Modes)]
    /\ caller \in [Callers -> {Running, Hangs} \cup Requests]
    /\ \A c \in Callers :
          InLockTable(c) => <<c, caller[c].mode>> \notin tableHolders[caller[c].table]

\* The count of an entry is the number of grants not yet released, so an entry goes
\* exactly when its last holder does: no holder is left without an entry (its unlock
\* would return false and the next request would be granted over it), and no entry
\* outlives its holders (every later conflicting request would wait for ever).
EntriesCountHolders ==
    /\ \A r \in Rows : /\ IsFiniteSet(rowHolders[r])
                       /\ row_locks[r].count = Cardinality(rowHolders[r])
    /\ \A t \in Tables : /\ IsFiniteSet(tableHolders[t])
                         /\ table_locks[t].count = Cardinality(tableHolders[t])

\* A table locked in X has one holder, although the entry remembers only the mode
\* of the first holder and the waiters are granted by a predicate of their own.
ExclusiveIsAlone ==
    \A t \in Tables, h \in Callers \X Modes :
        h \in tableHolders[t] /\ h[2] = "X" => tableHolders[t] = {h}

\* The locks held on a table agree with the compatibility matrix
\* (lock_manager.cpp:24-30) as long as its entry was not opened in IS: the mode of
\* an entry stays that of its first holder, even when that one is gone, and IS lets
\* S, IX and SIX in next to each other.
CompatibleUnlessOpenedInIS ==
    \A t \in Tables : table_locks[t].mode # "IS" =>
        \A g, h \in tableHolders[t] : g # h => ModesCompatible(g[2], h[2])

\* A row with more than one holder is held in S by all of them.
RowsSharedOnlyInS ==
    \A r \in Rows : \A g, h \in rowHolders[r] : g # h => g[2] = "S" /\ h[2] = "S"

\* No caller sleeps over a table lock that it could be granted: whatever makes a
\* request grantable also wakes those who wait for it.
NoSleepOverGrantable ==
    \A c \in Callers : caller[c].at = "asleep" =>
        ~TableGrantable(table_locks[caller[c].table], caller[c].mode)

\* The count of an entry is the number of its holders, whichever of the Lock,
\* Unlock and Record calls came in between.
LocksAreCounted == LocksTypeOK /\ EntriesCountHolders

\* What the lock table promises its holders, with the one exception that an entry
\* keeps the mode of its first holder.
HoldersAreCompatible == ExclusiveIsAlone /\ CompatibleUnlessOpenedInIS /\ RowsSharedOnlyInS
=============================================================================
