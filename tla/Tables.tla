-------------------------------- MODULE Tables --------------------------------
(***************************************************************************)
(* Tables and the statements on them: the Catalog, the DDL of              *)
(* goods_handler, and the executors of INSERT, UPDATE, DELETE with its     *)
(* cascade, CREATE TABLE, DROP TABLE and REGISTER_FK, run by sessions      *)
(* that nothing synchronises.  (The LockManager is never called.)          *)
(*                                                                         *)
(* A table has a primary key id, which INSERT assigns, and a column ref    *)
(* that foreign keys use: a foreign key goes from id of the parent to ref  *)
(* of the child.  Rows fit on one page, so that a scan is one step under   *)
(* the latch of that page.  info is the address of the TableInfo a name    *)
(* has in the catalog, 0 for none: a session keeps it after the catalog's  *)
(* mutex is released.                                                      *)
(***************************************************************************)
EXTENDS Integers, Sequences, FiniteSets, FiniteSetsExt, SequencesExt

CONSTANTS Names,         \* table names
          Runners,       \* sessions that run statements
          MaxId,         \* largest value of the type of id
          MaxRefs,       \* bound: values of ref are 1 .. MaxRefs
          MaxInitRows,   \* bound: rows of a table at the start
          MaxInitFks,    \* bound: foreign keys to a table at the start
          CascadeLimit   \* 10 in the code

ASSUME TablesAssumption ==
    /\ IsFiniteSet(Names) /\ Names # {}
    /\ {MaxId, MaxRefs, MaxInitRows, MaxInitFks, CascadeLimit} \subseteq Nat
    /\ MaxInitRows <= MaxId

VARIABLES info,          \* databases_: the TableInfo of each name
          has_heap,      \* table_heap has been stored in it
          files,         \* names whose .db file exists
          rows,          \* live rows of each table
          fks,           \* foreign_keys of each TableInfo
          run,           \* the statement of each session
          fate,          \* "up", or why the server does not go on
          ids_raced,     \* history: tables two statements wrote to at once
          ddl_raced,     \* history: names a CREATE or DROP had beside another one
          lost           \* history: files that a restart or a failing CREATE or DROP
                         \* left without their table

history == <<ids_raced, ddl_raced, lost>>
table_vars == <<info, has_heap, files, rows, fks, run, fate, history>>

Refs == 1 .. MaxRefs

\* RESTRICT stands for SET_NULL too: DELETE follows CASCADE and ignores the others.
Actions == {"CASCADE", "RESTRICT"}

Idle == [at |-> "idle", table |-> CHOOSE n \in Names : TRUE, id |-> 0, ref |-> 0,
         info |-> 0, found |-> {}, frames |-> <<>>, gone |-> {}, overlapped |-> FALSE]

\* Any small database that CREATE TABLE, REGISTER_FK and INSERT can have produced.
TablesInit ==
    /\ info = [n \in Names |-> 1]
    /\ has_heap = [n \in Names |-> TRUE]
    /\ files = Names
    /\ \E refs \in [Names -> SeqOf(Refs, MaxInitRows)] :
          rows = [n \in Names |->
                    {[rid |-> i, id |-> i, ref |-> refs[n][i]] : i \in DOMAIN refs[n]}]
    /\ \E child \in [Names -> SUBSET Names] :
          /\ \A n \in Names : Cardinality(child[n]) <= MaxInitFks
          /\ fks = [n \in Names |-> {[child |-> c, on_delete |-> "CASCADE"] : c \in child[n]}]
    /\ run = [s \in Runners |-> Idle]
    /\ fate = "up"
    /\ ids_raced = {} /\ ddl_raced = {} /\ lost = {}

Busy(s) == run[s].at # "idle"
Ddl(s) == run[s].at \in {"first_page", "register", "store_heap", "drop"}
DdlOn(s, n) == Ddl(s) /\ run[s].table = n

\* A session begins a statement, which is then in state st: it overlaps with those
\* under way.
Begin(s, st) ==
    run' = [r \in Runners |->
              IF r = s
              THEN [st EXCEPT !.overlapped = st # Idle /\ \E q \in Runners \ {s} : Busy(q)]
              ELSE [run[r] EXCEPT !.overlapped = @ \/ Busy(r)]]

Step(s, st) == run' = [run EXCEPT ![s] = st]

\* What a session does next on the table it has open; if a DROP has freed it, the
\* session uses freed memory.
OnTable(s, A) ==
    IF info[run[s].table] = run[s].info
    THEN A
    ELSE /\ fate' = "crashed"
         /\ UNCHANGED <<info, has_heap, files, rows, fks, run, history>>

Can(s, at) == fate = "up" /\ run[s].at = at
-----------------------------------------------------------------------------
(* CREATE TABLE and DROP TABLE *)

\* Another session creates or drops n at the same time.
DdlBeside(s, n) ==
    ddl_raced' = IF \E q \in Runners \ {s} : DdlOn(q, n) THEN ddl_raced \cup {n} ELSE ddl_raced

\* CREATE TABLE: CreateFile.  Of a path that exists it calls OpenFile with the mutex of
\* the DiskManager held and never returns.
Create(s, n) ==
    /\ Can(s, "idle")
    /\ IF n \in files
       THEN fate' = "hung" /\ UNCHANGED <<files, run, ddl_raced>>
       ELSE /\ files' = files \cup {n}
            /\ Begin(s, [Idle EXCEPT !.at = "first_page", !.table = n])
            /\ DdlBeside(s, n)
            /\ UNCHANGED fate
    /\ UNCHANGED <<info, has_heap, rows, fks, ids_raced, lost>>

\* AllocatePage and FetchPage of the first page.  When the disk fails, or FetchPage
\* obtains no frame, the statement ends and the file stays.
FirstPage(s) ==
    /\ Can(s, "first_page")
    /\ \/ Step(s, [run[s] EXCEPT !.at = "register"]) /\ UNCHANGED lost
       \/ Step(s, Idle) /\ lost' = lost \cup {run[s].table}
    /\ UNCHANGED <<info, has_heap, files, rows, fks, fate, ids_raced, ddl_raced>>

\* Catalog::CreateTable, which fails when the name is there.
Register(s) ==
    /\ Can(s, "register")
    /\ LET n == run[s].table
       IN  IF info[n] # 0
           THEN Step(s, Idle) /\ UNCHANGED <<info, has_heap, rows, fks>>
           ELSE /\ info' = [info EXCEPT ![n] = 2]
                /\ has_heap' = [has_heap EXCEPT ![n] = FALSE]
                /\ rows' = [rows EXCEPT ![n] = {}]
                /\ fks' = [fks EXCEPT ![n] = {}]
                /\ Step(s, [run[s] EXCEPT !.at = "store_heap"])
    /\ UNCHANGED <<files, fate, history>>

\* GetTable and info->table_heap = ...
StoreHeap(s) ==
    /\ Can(s, "store_heap")
    /\ LET n == run[s].table
       IN  has_heap' = [has_heap EXCEPT ![n] = (@ \/ info[n] # 0)]
    /\ Step(s, Idle)
    /\ UNCHANGED <<info, files, rows, fks, fate, history>>

\* Mutant: the file of a dropped table is not removed
DropKeepsFile(s, n) ==
    /\ Can(s, "idle")
    /\ Begin(s, [Idle EXCEPT !.at = "drop", !.table = n])
    /\ DdlBeside(s, n)
    /\ UNCHANGED <<info, has_heap, files, rows, fks, fate, ids_raced, lost>>

\* DROP TABLE: delete_table finds the table and has its file removed, which the system
\* may refuse: std::remove is not asked for its result.
Drop(s, n) ==
    /\ Can(s, "idle")
    /\ \/ info[n] = 0 /\ UNCHANGED <<files, lost>>
       \/ info[n] # 0 /\ files' = files \ {n} /\ lost' = lost \ {n}
       \/ info[n] # 0 /\ n \in files /\ lost' = lost \cup {n} /\ UNCHANGED files
    /\ Begin(s, [Idle EXCEPT !.at = "drop", !.table = n])
    /\ DdlBeside(s, n)
    /\ UNCHANGED <<info, has_heap, rows, fks, fate, ids_raced>>

\* ... and removes it from the catalog; its foreign keys go with it.
DropFromCatalog(s) ==
    /\ Can(s, "drop")
    /\ LET n == run[s].table
       IN  /\ info' = [info EXCEPT ![n] = 0]
           /\ has_heap' = [has_heap EXCEPT ![n] = FALSE]
           /\ rows' = [rows EXCEPT ![n] = {}]
           /\ fks' = [fks EXCEPT ![n] = {}]
    /\ Step(s, Idle)
    /\ UNCHANGED <<files, fate, history>>

\* REGISTER_FK: the parent must exist, the child need not.
RegisterForeignKey(s, parent, child, action) ==
    /\ Can(s, "idle")
    /\ info[parent] # 0
    /\ fks' = [fks EXCEPT ![parent] = @ \cup {[child |-> child, on_delete |-> action]}]
    /\ Begin(s, Idle)
    /\ UNCHANGED <<info, has_heap, files, rows, fate, history>>

\* A restart: the catalog is in memory only (Catalog::Load and Save do nothing), so
\* that the files stay and no statement finds their tables any more.
ForgetTables ==
    /\ fate = "up"
    /\ \A s \in Runners : ~Busy(s)
    /\ info' = [n \in Names |-> 0]
    /\ has_heap' = [n \in Names |-> FALSE]
    /\ rows' = [n \in Names |-> {}]
    /\ fks' = [n \in Names |-> {}]
    /\ lost' = files
    /\ ddl_raced' = {}
    /\ UNCHANGED <<files, run, fate, ids_raced>>
-----------------------------------------------------------------------------
(* INSERT and UPDATE *)

\* Binder and goods_handler::open: GetTable
CanOpen(n) == info[n] # 0 /\ has_heap[n]

InsertOpens(s, n, ref) ==
    /\ Can(s, "idle")
    /\ CanOpen(n)
    /\ Begin(s, [Idle EXCEPT !.at = "scan", !.table = n, !.ref = ref, !.info = info[n]])
    /\ UNCHANGED <<info, has_heap, files, rows, fks, fate, history>>

\* Conversion to the type of id
ToIdType(v) == IF v > MaxId THEN v - 2 * (MaxId + 1) ELSE v

\* get_next_id: one more than the largest id, or than 0 if none is positive
NextId(n) == ToIdType(Max({r.id : r \in rows[n]} \cup {0}) + 1)

InsertScans(s) ==
    /\ Can(s, "scan")
    /\ OnTable(s, /\ Step(s, [run[s] EXCEPT !.at = "write", !.id = NextId(run[s].table)])
                  /\ UNCHANGED <<info, has_heap, files, rows, fks, fate, history>>)

NewRid(n) == Max({r.rid : r \in rows[n]} \cup {0}) + 1

\* write_row.  (No index has an index_instance, so none is updated.)
InsertWrites(s) ==
    /\ Can(s, "write")
    /\ LET n == run[s].table
       IN  OnTable(s,
             /\ rows' = [rows EXCEPT ![n] = @ \cup
                           {[rid |-> NewRid(n), id |-> run[s].id, ref |-> run[s].ref]}]
             /\ ids_raced' = IF run[s].overlapped THEN ids_raced \cup {n} ELSE ids_raced
             /\ Step(s, Idle)
             /\ UNCHANGED <<info, has_heap, files, fks, fate, ddl_raced, lost>>)

\* UPDATE n SET ref WHERE id: phase 1 collects the rows with all their values ...
UpdateCollects(s, n, id, ref) ==
    /\ Can(s, "idle")
    /\ CanOpen(n)
    /\ Begin(s, [Idle EXCEPT !.at = "update", !.table = n, !.info = info[n],
                             !.found = {[r EXCEPT !.ref = ref] : r \in {q \in rows[n] : q.id = id}}])
    /\ UNCHANGED <<info, has_heap, files, rows, fks, fate, history>>

\* ... phase 2 writes each one over the row that has its RID, if it is still there.
UpdateApplies(s) ==
    /\ Can(s, "update")
    /\ LET n == run[s].table
       IN  OnTable(s,
             /\ IF run[s].found = {}
                THEN Step(s, Idle) /\ UNCHANGED rows
                ELSE LET new == CHOOSE r \in run[s].found : TRUE
                     IN  /\ rows' = [rows EXCEPT ![n] =
                                       {IF r.rid = new.rid THEN new ELSE r : r \in @}]
                         /\ Step(s, [run[s] EXCEPT !.found = @ \ {new}])
             /\ UNCHANGED <<info, has_heap, files, fks, fate, history>>)
-----------------------------------------------------------------------------
(* DELETE and its cascade.  frames is the stack of CascadeDelete: a frame with *)
(* no child is a call for the ids deleted from table; one with a child is a    *)
(* foreign key of it that is still to be followed.                             *)

Call(table, ids, depth) == [table |-> table, ids |-> ids, depth |-> depth, child |-> {}]

\* DELETE FROM n WHERE id: phase 1 collects the rows.
DeleteCollects(s, n, id) ==
    /\ Can(s, "idle")
    /\ CanOpen(n)
    /\ LET found == {r \in rows[n] : r.id = id}
       IN  Begin(s, [Idle EXCEPT !.at = "delete", !.table = n, !.info = info[n],
                                 !.found = found, !.frames = <<Call(n, {id}, 1)>>])
    /\ UNCHANGED <<info, has_heap, files, rows, fks, fate, history>>

\* delete_row of one collected row; after the last one the cascade goes on.
DeleteRow(s) ==
    /\ Can(s, "delete")
    /\ LET n == run[s].table
       IN  OnTable(s,
             /\ IF run[s].found = {}
                THEN Step(s, [run[s] EXCEPT !.at = "cascade"]) /\ UNCHANGED rows
                ELSE LET old == CHOOSE r \in run[s].found : TRUE
                     IN  /\ rows' = [rows EXCEPT ![n] = {r \in @ : r.rid # old.rid}]
                         /\ Step(s, [run[s] EXCEPT
                                       !.found = @ \ {old},
                                       !.gone = @ \cup {[table |-> n, id |-> old.id,
                                                         depth |-> Head(run[s].frames).depth]}])
             /\ UNCHANGED <<info, has_heap, files, fks, fate, history>>)

\* Mutant: the limit is one level too low
ChildFramesShallow(f) ==
    IF f.depth >= CascadeLimit THEN <<>>
    ELSE SetToSeq({[f EXCEPT !.child = {k.child}] :
                     k \in {g \in fks[f.table] : g.on_delete = "CASCADE"}})

\* CascadeDelete up to its loop: GetChildRelations, and only CASCADE is followed.
ChildFrames(f) ==
    IF f.depth > CascadeLimit THEN <<>>
    ELSE SetToSeq({[f EXCEPT !.child = {k.child}] :
                     k \in {g \in fks[f.table] : g.on_delete = "CASCADE"}})

\* The top frame: a call is replaced by its foreign keys; a foreign key opens the
\* child, collects the rows that refer to a deleted id and calls CascadeDelete for
\* them once they are deleted.  A child that cannot be opened is passed over.
Cascade(s) ==
    /\ Can(s, "cascade")
    /\ run[s].frames # <<>>
    /\ LET f == Head(run[s].frames)
           rest == Tail(run[s].frames)
       IN  IF f.child = {}
           THEN Step(s, [run[s] EXCEPT !.frames = ChildFrames(f) \o rest])
           ELSE LET n == CHOOSE c \in f.child : TRUE
                    found == {r \in rows[n] : r.ref \in f.ids}
                IN  IF ~CanOpen(n) \/ found = {}
                    THEN Step(s, [run[s] EXCEPT !.frames = rest])
                    ELSE Step(s, [run[s] EXCEPT
                                    !.at = "delete", !.table = n, !.info = info[n],
                                    !.found = found,
                                    !.frames = <<Call(n, {r.id : r \in found}, f.depth + 1)>> \o rest])
    /\ UNCHANGED <<info, has_heap, files, rows, fks, fate, history>>

\* The statement ends.
DeleteEnds(s) ==
    /\ Can(s, "cascade")
    /\ run[s].frames = <<>>
    /\ Step(s, Idle)
    /\ UNCHANGED <<info, has_heap, files, rows, fks, fate, history>>
-----------------------------------------------------------------------------
\* Rows, foreign keys and statements keep their shape, and a table that is not in
\* the catalog has no rows.
TablesTypeOK ==
    /\ info \in [Names -> 0 .. 2]
    /\ has_heap \in [Names -> BOOLEAN]
    /\ files \subseteq Names
    /\ \A n \in Names : /\ \A r \in rows[n] : /\ r.id \in (-MaxId - 1) .. MaxId
                                              /\ r.ref \in Refs /\ r.rid > 0
                        /\ \A q, r \in rows[n] : q.rid = r.rid => q = r
                        /\ \A k \in fks[n] : k.child \in Names /\ k.on_delete \in Actions
                        /\ info[n] = 0 => rows[n] = {} /\ fks[n] = {} /\ ~has_heap[n]
    /\ \A s \in Runners : run[s].table \in Names /\ run[s].info \in 0 .. 2
    /\ fate \in {"up", "hung", "crashed"}
    /\ ids_raced \subseteq Names /\ ddl_raced \subseteq Names /\ lost \subseteq Names

\* A DELETE that had the tables for itself leaves no row that refers, through a
\* CASCADE foreign key, to a row it deleted: not in grandchildren, not in a table that
\* refers to itself, not along a cycle of foreign keys.  Only rows deleted at the
\* depth limit may leave children.
CascadeIsComplete ==
    \A s \in Runners :
        run[s].at = "cascade" /\ run[s].frames = <<>> /\ ~run[s].overlapped =>
            \A g \in run[s].gone : g.depth <= CascadeLimit =>
                \A k \in fks[g.table] : k.on_delete = "CASCADE" =>
                    \A r \in rows[k.child] : r.ref # g.id

\* The ids INSERT assigns are unique among the positive ones, whatever was deleted
\* before, unless another statement ran beside an INSERT into the table.  (After the
\* largest id the column is exhausted, and every further row gets the same negative.)
IdsAreUnique ==
    \A n \in Names \ ids_raced :
        \A q, r \in rows[n] : q.id = r.id /\ q.id > 0 => q = r

\* A name that no CREATE or DROP is at work on, nor two ever were at once, is in the
\* catalog if and only if its file is there and not lost, and then has its heap, whatever
\* was created and dropped beside it.  Lost are the files that a restart left behind, of
\* which CREATE made no first page, or which the system did not let DROP remove.
FilesMatchCatalog ==
    \A n \in Names \ ddl_raced : (\A s \in Runners : ~DdlOn(s, n)) =>
        /\ n \in files \ lost <=> info[n] # 0
        /\ info[n] # 0 => has_heap[n]

\* Keys across statements: a cascading DELETE leaves no reference behind within its
\* limit, and the ids that get_next_id gives are unique unless two inserts overlap.
KeysAreSound == TablesTypeOK /\ CascadeIsComplete /\ IdsAreUnique
=============================================================================
