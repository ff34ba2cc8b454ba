----------------------------- MODULE PageStore -----------------------------
(***************************************************************************)
(* What the layers above the buffer pool rely on.  A page is created       *)
(* zeroed, holds what its last writer wrote, and is gone once it is deleted*)
(* or the file it is in has been dropped.  A page changes only by a client *)
(* that holds it and writes it; a client that asks for it sees its content,*)
(* and sees it change only by a write to that page.  There is no pool, no  *)
(* frame, no flush and no disk here.                                       *)
(***************************************************************************)
CONSTANTS Clients,
          Files,
          PageNos,
          Data,      \* page contents
          Zero,      \* the zeroed page
          Gone,      \* not a content: the page does not exist
          NoPage,    \* not a page: an idle client holds none
          NoFile     \* not a file: no file is being dropped

PageIds == Files \X PageNos

VARIABLES
  content,    \* per page: what it holds
  at,         \* per client: how far it is with its page
  holds,      \* per client: the page it holds
  view,       \* per client: the bytes it sees
  dropping    \* the file being dropped

vars == <<content, at, holds, view, dropping>>

Init ==
  /\ content = [p \in PageIds |-> Gone]
  /\ at = [c \in Clients |-> "idle"]
  /\ holds = [c \in Clients |-> NoPage]
  /\ view = [c \in Clients |-> Gone]
  /\ dropping = NoFile

\* Client c comes to hold page p and sees v.
Take(c, p, stage, v) ==
  /\ at[c] = "idle"
  /\ at' = [at EXCEPT ![c] = stage]
  /\ holds' = [holds EXCEPT ![c] = p]
  /\ view' = [view EXCEPT ![c] = v]

\* A page nobody holds is created for the client that asks for one.
Create(c, p) ==
  /\ content[p] = Gone
  /\ \A d \in Clients : holds[d] # p
  /\ content' = [content EXCEPT ![p] = Zero]
  /\ Take(c, p, "fresh", Zero)
  /\ UNCHANGED dropping

\* A client that asks for a page sees its content.  Nothing is promised of the
\* bytes of a page whose file has been dropped.
Acquire(c, p) ==
  /\ \E v \in Data \cup {Gone} :
       /\ content[p] # Gone => v = content[p]
       /\ Take(c, p, "pinned", v)
  /\ UNCHANGED <<content, dropping>>

\* A page is read by many or written by one.
ReadLatch(c) ==
  /\ at[c] = "pinned"
  /\ \A d \in Clients : holds[d] = holds[c] => at[d] # "writing"
  /\ at' = [at EXCEPT ![c] = "reading"]
  /\ UNCHANGED <<content, holds, view, dropping>>

WriteLatch(c) ==
  /\ at[c] = "pinned"
  /\ \A d \in Clients : holds[d] = holds[c] => at[d] \notin {"reading", "writing"}
  /\ at' = [at EXCEPT ![c] = "writing"]
  /\ UNCHANGED <<content, holds, view, dropping>>

\* What c writes is the content of its page, and what every holder of it sees.
Write(c, v) ==
  /\ at[c] \in {"writing", "fresh"}
  /\ content' = [p \in PageIds |->
                   IF p = holds[c] /\ content[p] # Gone THEN v ELSE content[p]]
  /\ view' = [d \in Clients |-> IF holds[d] = holds[c] THEN v ELSE view[d]]
  /\ at' = [at EXCEPT ![c] = "modified"]
  /\ UNCHANGED <<holds, dropping>>

Unlatch(c) ==
  /\ at[c] \in {"reading", "writing"}
  /\ at' = [at EXCEPT ![c] = "clean"]
  /\ UNCHANGED <<content, holds, view, dropping>>

Release(c) ==
  /\ at[c] \in {"clean", "modified"}
  /\ at' = [at EXCEPT ![c] = "idle"]
  /\ holds' = [holds EXCEPT ![c] = NoPage]
  /\ view' = [view EXCEPT ![c] = Gone]
  /\ UNCHANGED <<content, dropping>>

\* A page somebody holds is not deleted.
Delete(p) ==
  /\ \A c \in Clients : holds[c] # p
  /\ content' = [content EXCEPT ![p] = Gone]
  /\ UNCHANGED <<at, holds, view, dropping>>

BeginDrop(file) ==
  /\ dropping = NoFile
  /\ dropping' = file
  /\ UNCHANGED <<content, at, holds, view>>

\* The pages of the dropped file are gone; a client that holds one keeps it.
EndDrop ==
  /\ dropping # NoFile
  /\ content' = [p \in PageIds |-> IF p[1] = dropping THEN Gone ELSE content[p]]
  /\ dropping' = NoFile
  /\ UNCHANGED <<at, holds, view>>

ClientStep(c) ==
  \/ \E p \in PageIds : Create(c, p) \/ Acquire(c, p)
  \/ ReadLatch(c) \/ WriteLatch(c) \/ Unlatch(c) \/ Release(c)
  \/ \E v \in Data : Write(c, v)

Next ==
  \/ \E c \in Clients : ClientStep(c)
  \/ \E p \in PageIds : Delete(p)
  \/ \E file \in Files : BeginDrop(file)
  \/ EndDrop

Spec == Init /\ [][Next]_vars
=============================================================================
