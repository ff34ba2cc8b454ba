---------------------------- MODULE DiskManager ----------------------------
(***************************************************************************)
(* storage/disk/disk_manager.cpp: the .db files, their header page and the *)
(* chain of free pages, with the process dying between two writes.         *)
(*                                                                         *)
(* Every method holds mutex_, so calls do not overlap; a call that makes   *)
(* two writes is cut between them.  A page is larger than the buffer of    *)
(* the stream, so a write reaches the file when it is made.                *)
(***************************************************************************)
EXTENDS Integers, FiniteSets

CONSTANTS Paths,         \* .db paths
          PageLimit,     \* 2^16 in the code: page numbers are uint16_t
          FileIdLimit,   \* 2^16 in the code: file ids are uint16_t
          Bytes,         \* what the table layer may write in the first two bytes of a page
          Garbage,       \* what a first_free_page that was never read may hold
          MaxPages,      \* bound: a file of MaxPages pages is not grown
          MaxOpens,      \* bound: files created or opened
          MaxCrashes     \* bound: crashes

ASSUME DiskAssumption ==
  /\ PageLimit \in Nat \ {0, 1}
  /\ FileIdLimit \in Nat \ {0}
  /\ Bytes \subseteq 0 .. PageLimit - 1
  /\ Garbage \subseteq 0 .. PageLimit - 1
  /\ MaxPages \in 1 .. PageLimit
  /\ MaxOpens \in Nat
  /\ MaxCrashes \in Nat

VARIABLES
  disk,      \* per path: the file, or NoFile
  files,     \* files_: the open files by id
  next_file_id,
  op,        \* what the call that holds mutex_ has still to do
  hung,      \* a call waits for the mutex it holds itself
  handles,   \* the file ids the table layer holds, and for which path it got them
  owned,     \* per path: the pages the table layer holds, with what it put there
  torn,      \* the paths where a crash hit CreateFile before the header was written
  opens, crashes

vars == <<disk, files, next_file_id, op, hung, handles, owned, torn, opens, crashes>>

PageNo == 0 .. PageLimit - 1
FileId == 0 .. FileIdLimit - 1
NoFile == [size |-> -1]
Idle == [call |-> "none"]

\* size: pages in the file; first_free: the header field; body: the first two
\* bytes of a page, which of a free page are the number of the next one.
DbFile == [size : 0 .. PageLimit, first_free : PageNo, body : [PageNo -> PageNo]]

FileEntry == [path : Paths, num_pages : PageNo]

TypeOK ==
  /\ disk \in [Paths -> DbFile \cup {NoFile}]
  /\ DOMAIN files \subseteq FileId /\ \A i \in DOMAIN files : files[i] \in FileEntry
  /\ next_file_id \in FileId
  /\ op \in {Idle} \cup [call : {"create", "header"}, path : Paths, page : PageNo]
            \cup [call : {"extend", "return"}, path : Paths, page : PageNo, for : Paths]
  /\ hung \in BOOLEAN
  /\ handles \subseteq FileId \X Paths
  /\ owned \in [Paths -> UNION {[S -> PageNo] : S \in SUBSET PageNo}]
  /\ torn \subseteq Paths
  /\ opens \in 0 .. MaxOpens
  /\ crashes \in 0 .. MaxCrashes

NoPages == [p \in {} |-> 0]

Init ==
  /\ disk = [x \in Paths |-> NoFile]
  /\ files = [i \in {} |-> 0]
  /\ next_file_id = 0
  /\ op = Idle
  /\ hung = FALSE
  /\ handles = {}
  /\ owned = [x \in Paths |-> NoPages]
  /\ torn = {}
  /\ opens = 0
  /\ crashes = 0

-----------------------------------------------------------------------------
MutexFree == op = Idle /\ ~hung

With(f, k, v) == [x \in DOMAIN f \cup {k} |-> IF x = k THEN v ELSE f[x]]
Without(f, k) == [x \in DOMAIN f \ {k} |-> f[x]]

\* files_[next_file_id_++] = entry, whether the id is in use or not.
Register(path, num_pages) ==
  /\ opens < MaxOpens
  /\ files' = With(files, next_file_id, [path |-> path, num_pages |-> num_pages])
  /\ handles' = handles \cup {<<next_file_id, path>>}
  /\ next_file_id' = (next_file_id + 1) % FileIdLimit
  /\ opens' = opens + 1

\* The file is there: CreateFile calls OpenFile, which locks mutex_ again.
CreateFileExists(path) ==
  /\ MutexFree
  /\ disk[path] # NoFile
  /\ hung' = TRUE
  /\ UNCHANGED <<disk, files, next_file_id, op, handles, owned, torn, opens, crashes>>

\* std::ios::trunc makes an empty file; the header is the first thing written.
CreateFile(path) ==
  /\ MutexFree
  /\ disk[path] = NoFile
  /\ opens < MaxOpens
  /\ disk' = [disk EXCEPT ![path] =
                [size |-> 0, first_free |-> 0, body |-> [p \in PageNo |-> 0]]]
  /\ op' = [call |-> "create", path |-> path, page |-> 0]
  /\ UNCHANGED <<files, next_file_id, hung, handles, owned, torn, opens, crashes>>

CreateHeader ==
  /\ op.call = "create"
  /\ disk' = [disk EXCEPT ![op.path].size = 1]
  /\ Register(op.path, 1)
  /\ op' = Idle
  /\ UNCHANGED <<hung, owned, torn, crashes>>

\* num_pages is the size of the file, cut to 16 bits.
OpenFile(path) ==
  /\ MutexFree
  /\ disk[path] # NoFile
  /\ \A i \in DOMAIN files : files[i].path # path
  /\ Register(path, disk[path].size % PageLimit)
  /\ UNCHANGED <<disk, op, hung, owned, torn, crashes>>

\* The path is open already: its id is returned.
OpenFileAgain(path) ==
  /\ MutexFree
  /\ \E i \in DOMAIN files :
       files[i].path = path /\ handles' = handles \cup {<<i, path>>}
  /\ UNCHANGED <<disk, files, next_file_id, op, hung, owned, torn, opens, crashes>>

CloseFile(h) ==
  /\ MutexFree
  /\ h[1] \in DOMAIN files
  /\ files' = Without(files, h[1])
  /\ handles' = handles \ {h}
  /\ UNCHANGED <<disk, next_file_id, op, hung, owned, torn, opens, crashes>>

\* delete_table: the table gives up its file and the pages in it.
DeleteFile(h) ==
  /\ MutexFree
  /\ files' = Without(files, h[1])
  /\ disk' = [disk EXCEPT ![h[2]] = NoFile]
  /\ handles' = handles \ {h}
  /\ owned' = [owned EXCEPT ![h[2]] = NoPages]
  /\ torn' = torn \ {h[2]}
  /\ UNCHANGED <<next_file_id, op, hung, opens, crashes>>

-----------------------------------------------------------------------------
(* Pages.  h is the handle of the caller: <<file id, path it was got for>>. *)

Image(h) == disk[files[h[1]].path]

IsOpen(h) == MutexFree /\ h[1] \in DOMAIN files /\ Image(h) # NoFile

HasHeader(h) == IsOpen(h) /\ Image(h).size > 0

\* Nothing keeps page 0 from being written like any other page.
WritePage(h, p, v) ==
  /\ IsOpen(h)
  /\ p \in DOMAIN owned[h[2]]
  /\ disk' = [disk EXCEPT ![files[h[1]].path].body[p] = v,
                          ![files[h[1]].path].first_free = IF p = 0 THEN v ELSE @,
                          ![files[h[1]].path].size = IF @ > p THEN @ ELSE p + 1]
  /\ owned' = [owned EXCEPT ![h[2]][p] = v]
  /\ UNCHANGED <<files, next_file_id, op, hung, handles, torn, opens, crashes>>

\* AllocatePage with a free page: the header moves on to the next one.
AllocateReuse(h) ==
  /\ HasHeader(h)
  /\ Image(h).first_free # 0
  /\ disk' = [disk EXCEPT ![files[h[1]].path].first_free = Image(h).body[@]]
  /\ op' = [call |-> "return", path |-> files[h[1]].path, page |-> Image(h).first_free, for |-> h[2]]
  /\ UNCHANGED <<files, next_file_id, hung, handles, owned, torn, opens, crashes>>

AllocateGrowLate(h) ==
  /\ HasHeader(h)
  /\ Image(h).first_free = 0
  /\ files[h[1]].num_pages < MaxPages
  /\ op' = [call |-> "extend", path |-> files[h[1]].path, page |-> files[h[1]].num_pages, for |-> h[2]]
  /\ UNCHANGED <<disk, files, next_file_id, hung, handles, owned, torn, opens, crashes>>

\* AllocatePage without one: num_pages goes up, in 16 bits, and into a header
\* field that nobody reads; then a zeroed page is written.
AllocateGrow(h) ==
  /\ HasHeader(h)
  /\ Image(h).first_free = 0
  /\ files[h[1]].num_pages < MaxPages
  /\ files' = [files EXCEPT ![h[1]].num_pages = (@ + 1) % PageLimit]
  /\ op' = [call |-> "extend", path |-> files[h[1]].path, page |-> files[h[1]].num_pages, for |-> h[2]]
  /\ UNCHANGED <<disk, next_file_id, hung, handles, owned, torn, opens, crashes>>

AllocateExtend ==
  /\ op.call = "extend"
  /\ disk' = [disk EXCEPT ![op.path].body[op.page] = 0,
                          ![op.path].first_free = IF op.page = 0 THEN 0 ELSE @,
                          ![op.path].size = IF @ > op.page THEN @ ELSE op.page + 1]
  /\ op' = [op EXCEPT !.call = "return"]
  /\ UNCHANGED <<files, next_file_id, hung, handles, owned, torn, opens, crashes>>

\* The caller gets the page and clears it.
AllocateReturn ==
  /\ op.call = "return"
  /\ owned' = [owned EXCEPT ![op.for] = With(@, op.page, disk[op.path].body[op.page])]
  /\ op' = Idle
  /\ UNCHANGED <<disk, files, next_file_id, hung, handles, torn, opens, crashes>>

\* A file whose header was never written: the read fails, the header in memory
\* is not initialised and the stream takes no write of this call.
AllocateNoHeader(h) ==
  /\ IsOpen(h) /\ Image(h).size = 0
  /\ \E g \in Garbage :
       LET grows == g = 0 /\ files[h[1]].num_pages < MaxPages
       IN  /\ g # 0 \/ grows
           /\ op' = [call |-> "return", path |-> files[h[1]].path, for |-> h[2],
                     page |-> IF grows THEN files[h[1]].num_pages ELSE g]
           /\ files' = IF grows
                       THEN [files EXCEPT ![h[1]].num_pages = (@ + 1) % PageLimit]
                       ELSE files
  /\ UNCHANGED <<disk, next_file_id, hung, handles, owned, torn, opens, crashes>>

DeallocateHeaderFirst(h, p) ==
  /\ HasHeader(h)
  /\ p \in DOMAIN owned[h[2]]
  /\ disk' = [disk EXCEPT ![files[h[1]].path].first_free = p]
  /\ owned' = [owned EXCEPT ![h[2]] = Without(@, p)]
  /\ op' = [call |-> "header", path |-> files[h[1]].path, page |-> p]
  /\ UNCHANGED <<files, next_file_id, hung, handles, torn, opens, crashes>>

\* DeallocatePage: the page points to the first free page, then the header to it.
DeallocatePage(h, p) ==
  /\ HasHeader(h)
  /\ p \in DOMAIN owned[h[2]]
  /\ disk' = [disk EXCEPT ![files[h[1]].path].body[p] = Image(h).first_free]
  /\ owned' = [owned EXCEPT ![h[2]] = Without(@, p)]
  /\ op' = [call |-> "header", path |-> files[h[1]].path, page |-> p]
  /\ UNCHANGED <<files, next_file_id, hung, handles, torn, opens, crashes>>

DeallocateHeader ==
  /\ op.call = "header"
  /\ disk' = [disk EXCEPT ![op.path].first_free = op.page]
  /\ op' = Idle
  /\ UNCHANGED <<files, next_file_id, hung, handles, owned, torn, opens, crashes>>

-----------------------------------------------------------------------------
\* The process dies and is started again: the files are what was written.
Crash ==
  /\ crashes < MaxCrashes
  /\ torn' = IF op.call = "create" THEN torn \cup {op.path} ELSE torn
  /\ files' = [i \in {} |-> 0]
  /\ next_file_id' = 0
  /\ op' = Idle
  /\ hung' = FALSE
  /\ handles' = {}
  /\ crashes' = crashes + 1
  /\ UNCHANGED <<disk, owned, opens>>

Next ==
  \/ \E x \in Paths : CreateFile(x) \/ CreateFileExists(x) \/ OpenFile(x) \/ OpenFileAgain(x)
  \/ \E h \in handles : CloseFile(h) \/ DeleteFile(h)
  \/ \E h \in handles : AllocateReuse(h) \/ AllocateGrow(h) \/ AllocateNoHeader(h)
  \/ \E h \in handles, p \in PageNo :
       DeallocatePage(h, p) \/ \E v \in Bytes : WritePage(h, p, v)
  \/ CreateHeader \/ AllocateExtend \/ AllocateReturn \/ DeallocateHeader
  \/ Crash

Spec == Init /\ [][Next]_vars

-----------------------------------------------------------------------------
(* Properties.                                                             *)

\* The pages met on the way from the header through the free pages: step i.
Chain(x) ==
  LET at[i \in 0 .. PageLimit] ==
        IF i = 0 THEN disk[x].first_free
        ELSE IF at[i - 1] = 0 THEN 0 ELSE disk[x].body[at[i - 1]]
  IN  at

FreeList(x) == {Chain(x)[i] : i \in 0 .. PageLimit} \ {0}

\* The files that exist and were created whole.
Whole == {x \in Paths \ torn : disk[x] # NoFile}

\* The free chain of every whole file ends, stays inside the file and never
\* meets a page in use, also when the process died in DeallocatePage or in
\* AllocatePage: a page is never handed out twice.
FreeChainSound ==
  \A x \in Whole :
    /\ Chain(x)[PageLimit] = 0
    /\ \A p \in FreeList(x) : p < disk[x].size /\ p \notin DOMAIN owned[x]

\* A page in use is a data page of the file and keeps what its owner put there,
\* whatever is allocated, freed or damaged elsewhere: disk_manager.h:40-41 "Page 0: file header", "Pages 1..N: data pages".
OwnedPagesIntact ==
  \A x \in Whole : \A p \in DOMAIN owned[x] :
    p \in 1 .. disk[x].size - 1 /\ disk[x].body[p] = owned[x][p]

\* A page is lost to the free chain by a crash only, and one crash loses at
\* most one page of all the files.
InFlight(x) == IF op.call \in {"return", "header"} /\ op.path = x THEN {op.page} ELSE {}

Lost(x) == (1 .. disk[x].size - 1) \ (DOMAIN owned[x] \cup FreeList(x) \cup InFlight(x))

CrashLosesOnePage ==
  Cardinality(UNION {{<<x, p>> : p \in Lost(x)} : x \in Whole}) <= crashes

\* The file id a table got stays the id of its own file until it gives it up:
\* disk_manager.h:16 "file_id (up to 65535 files)".
HandlesStayValid ==
  \A h \in handles : h[1] \in DOMAIN files => files[h[1]].path = h[2]

\* The free list that AllocatePage and DeallocatePage keep in the file: across
\* calls, reopenings and crashes between two writes, a page is on the chain once
\* or has an owner, but for the one page that a crash takes out of both.
FreePagesAccountedFor == TypeOK /\ FreeChainSound /\ CrashLosesOnePage

\* No call on one file or page changes what another owner reads back: its pages
\* keep their bytes, and its file id still leads to its own file.
OwnersUndisturbed == OwnedPagesIntact /\ HandlesStayValid
=============================================================================
