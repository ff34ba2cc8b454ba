---------------------------- MODULE ServerProofs ----------------------------
(***************************************************************************)
(* Proofs about Server, for any number of clients, workers and statements: *)
(* what the registry holds, what a statement finds in the shared engine,   *)
(* and whose sockets are open.                                             *)
(***************************************************************************)
EXTENDS Server, FiniteSetTheorems, SequenceTheorems, TLAPS

\* A connection that a worker is running
InSession == {"auth", "refused", "refused_close", "return", "ready", "close", "closing"}
             \cup QueryPoints

\* A KILL that has its target and has not yet finished with it
Killing(c) == at[c] \in {"kill", "kill_close"}
Victim(c) == serving[target[c]]

\* TypeOK without what depends on the other invariants: that active_connections_ does not
\* go below zero, and where the connections of the queue are.
Types ==
    /\ server_running \in BOOLEAN
    /\ main \in {"accept", "join", "done"}
    /\ serving \in [Workers -> Clients \cup {Nobody}]
    /\ registry \in [Clients -> Workers \cup {Nobody}]
    /\ stopped \in [Clients -> BOOLEAN]
    /\ at \in [Clients -> SessionPoints \cup QueryPoints]
    /\ stmt \in [Clients -> Kinds \cup {Nobody}]
    /\ target \in [Clients -> Workers \cup {Nobody}]
    /\ fd \in [Clients -> Fds \cup {0}]
    /\ proto_fd \in [Clients -> Fds \cup {0}]
    /\ closing_fd \in [Clients -> Fds \cup {0}]
    /\ fd_owner \in [Fds -> Clients \cup {Nobody}]
    /\ active \in Int
    /\ current_user \in Clients \cup {Nobody}
    /\ last_error \in Clients \cup {Nobody}
    /\ affected_rows \in Clients \cup {Nobody}
    /\ last_plan \in Clients \cup {Nobody}
    /\ beside \in [Clients -> SUBSET Clients]
    /\ raced \in BOOLEAN
    /\ sent \in 0 .. MaxStatements

\* The connections in the queue wait there once.
QueueInv ==
    /\ queue \in Seq(Clients)
    /\ \A i \in 1 .. Len(queue) : at[queue[i]] = "queued"
    /\ \A i, j \in 1 .. Len(queue) : queue[i] = queue[j] => i = j

\* A worker runs one connection, and a connection in session has one worker.
ServingInv ==
    /\ \A w \in Workers : serving[w] # Nobody => at[serving[w]] \in InSession
    /\ \A w, v \in Workers : serving[w] # Nobody /\ serving[w] = serving[v] => w = v
    /\ \A c \in Clients : at[c] \in InSession => \E w \in Workers : serving[w] = c

\* A registered handler is live and has not begun to end.
RegistryInv ==
    /\ \A c \in Clients : registry[c] # Nobody => /\ serving[registry[c]] = c
                                                  /\ at[c] \notin {"close", "closing"}
    /\ \A c \in Clients : Killing(c) => target[c] \in Workers

HandlerInv == Types /\ QueueInv /\ ServingInv /\ RegistryInv

\* What the statement of c finds in the engine.
StatementInv(c) ==
    /\ current_user \in Near(c)
    /\ at[c] \in {"run", "plan", "kill", "kill_close"} => \E u \in Near(c) : Allowed(u, stmt[c])
    /\ at[c] \in {"kill", "kill_close"} => stmt[c] = "kill"
    /\ at[c] = "plan" => affected_rows \in Near(c)
    /\ at[c] = "error" => last_error \in Near(c) \cup (IF beside[c] = {} THEN {} ELSE {Nobody})
    /\ at[c] = "reply" /\ stmt[c] = "data" => {affected_rows, last_plan} \subseteq Near(c)

\* Statements that are running run beside each other, and what a statement finds in the
\* engine is by one of them or by one that has since ended beside it.
EngineInv ==
    /\ \A c, e \in Clients : InQuery(c) /\ InQuery(e) /\ c # e => e \in beside[c]
    /\ \A c \in Clients : InQuery(c) => StatementInv(c)

\* An open connection owns its number in the kernel; a protocol that nobody stopped has
\* the number of its connection.
NumbersInv ==
    \A c \in Clients :
        /\ at[c] = "away" => fd[c] = 0
        /\ at[c] = "queued" => fd[c] # 0
        /\ fd[c] # 0 => fd_owner[fd[c]] = c
        /\ at[c] \in {"auth", "ready", "refused"} \cup QueryPoints /\ ~stopped[c] =>
              fd[c] # 0 /\ proto_fd[c] = fd[c]
        /\ at[c] \in {"refused_close", "closing"} => closing_fd[c] = fd[c]

\* A KILL has its target to itself: the handler is deregistered, no other KILL has it,
\* and it has not begun to close its connection.
KillInv ==
    /\ \A k \in Clients : Killing(k) => /\ Victim(k) # Nobody
                                        /\ registry[Victim(k)] = Nobody
                                        /\ at[Victim(k)] # "closing"
    /\ \A k \in Clients : at[k] = "kill_close" => /\ at[Victim(k)] # "refused_close"
                                                  /\ stopped[Victim(k)]
                                                  /\ closing_fd[k] = fd[Victim(k)]
    /\ \A k, l \in Clients : Killing(k) /\ Killing(l) /\ target[k] = target[l] => k = l

OpenOnes == {c \in Clients : fd[c] # 0 /\ at[c] # "queued"}

CountInv == active = Cardinality(OpenOnes)

SocketsInv == NumbersInv /\ KillInv /\ CountInv

-----------------------------------------------------------------------------
(* Types. *)

\* 0 is the number of no socket.
LEMMA ZeroIsNoFd == 0 \notin Fds /\ Fds \subseteq Nat
<1>1. Cardinality(Clients) \in Nat
  BY ServerAssumption, FS_CardinalityType
<1> QED BY <1>1 DEF Fds

\* A connection in session is run by the worker WorkerOf names.
LEMMA WorkerOfSession ==
    ASSUME HandlerInv, NEW c \in Clients, at[c] \in InSession
    PROVE  /\ WorkerOf(c) \in Workers /\ serving[WorkerOf(c)] = c
           /\ \A w \in Workers : serving[w] = c => w = WorkerOf(c)
<1>1. \E w \in Workers : serving[w] = c
  BY DEF HandlerInv, ServingInv
<1>2. WorkerOf(c) \in Workers /\ serving[WorkerOf(c)] = c
  BY <1>1 DEF WorkerOf
<1>3. c # Nobody
  BY ServerAssumption
<1> QED BY <1>2, <1>3 DEF HandlerInv, ServingInv

\* Closing a connection keeps the types.
LEMMA CloseFdTypes ==
    ASSUME Types, NEW c \in Clients, NEW f \in Fds \cup {0}, CloseFd(c, f)
    PROVE  /\ fd_owner' \in [Fds -> Clients \cup {Nobody}]
           /\ fd' \in [Clients -> Fds \cup {0}]
           /\ active' \in Int
<1>1. CASE f = 0
  BY <1>1 DEF CloseFd, Types
<1>2. CASE f # 0
  <2>1. fd[c] \in Fds \cup {0}
    BY DEF Types
  <2>2. PICK g \in {f, fd[c]} :
          fd_owner' = IF g = 0 THEN fd_owner ELSE [fd_owner EXCEPT ![g] = Nobody]
    BY <1>2 DEF CloseFd
  <2>3. fd' = [fd EXCEPT ![c] = 0] /\ active' = active - 1
    BY <1>2 DEF CloseFd
  <2> QED BY <2>1, <2>2, <2>3 DEF Types
<1> QED BY <1>1, <1>2

\* The main thread and the workers that take a connection keep the types.
LEMMA LoopTypes ==
    ASSUME HandlerInv,
           \/ AcceptFails \/ Signal \/ Join
           \/ \E c \in Clients : Accept(c)
           \/ \E w \in Workers : Start(w)
    PROVE  Types'
<1>0. Types /\ queue \in Seq(Clients)
  BY DEF HandlerInv, QueueInv
<1>1. CASE AcceptFails \/ Signal \/ Join
  BY <1>0, <1>1 DEF AcceptFails, Signal, Join, TestRunning, Types, handlers, statement, sockets, engine
<1>2. ASSUME NEW c \in Clients, Accept(c)
      PROVE  Types'
  <2>1. PICK f \in Fds : /\ fd_owner' = [fd_owner EXCEPT ![f] = c]
                         /\ fd' = [fd EXCEPT ![c] = f]
    BY <1>2 DEF Accept
  <2>2. at' = [at EXCEPT ![c] = "queued"] /\ main' \in {"accept", "join", "done"}
    BY <1>2 DEF Accept, Move, TestRunning
  <2>3. UNCHANGED <<server_running, serving, registry, stopped, stmt, target, sent, proto_fd,
                    closing_fd, active, current_user, last_error, affected_rows, last_plan,
                    beside, raced>>
    BY <1>2 DEF Accept, handlers, statement, engine
  <2> QED BY <1>0, <2>1, <2>2, <2>3 DEF Types, SessionPoints
<1>3. ASSUME NEW w \in Workers, Start(w)
      PROVE  Types'
  <2> DEFINE c == Head(queue)
  <2>1. c \in Clients
    BY <1>0, <1>3 DEF Start
  <2>2. /\ serving' = [serving EXCEPT ![w] = c]
        /\ registry' = [registry EXCEPT ![c] = w]
        /\ proto_fd' = [proto_fd EXCEPT ![c] = fd[c]]
        /\ at' = [at EXCEPT ![c] = "auth"]
        /\ active' = active + 1
    BY <1>3 DEF Start, Move
  <2>3. UNCHANGED <<server_running, main, stopped, stmt, target, sent, fd, closing_fd,
                    fd_owner, current_user, last_error, affected_rows, last_plan,
                    beside, raced>>
    BY <1>3 DEF Start, statement, engine
  <2> HIDE DEF c
  <2> QED BY <1>0, <2>1, <2>2, <2>3 DEF Types, SessionPoints
<1> QED BY <1>1, <1>2, <1>3

\* The steps of a session that begin and end it keep the types.
LEMMA SessionTypes ==
    ASSUME HandlerInv, NEW c \in Clients,
           Authenticate(c) \/ EndSession(c) \/ CloseTest(c) \/ CloseRefused(c) \/ CloseEnd(c)
    PROVE  Types'
<1>0. Types
  BY DEF HandlerInv
<1>1. CASE Authenticate(c)
  BY <1>0, <1>1 DEF Authenticate, TestStopped, Move, Types, SessionPoints, loop, handlers, statement, sockets, engine
<1>2. CASE EndSession(c)
  BY <1>0, <1>2 DEF EndSession, Move, Types, SessionPoints, loop, statement, sockets, engine
<1>3. CASE CloseTest(c)
  <2>1. raced' \in BOOLEAN
    BY <1>3 DEF CloseTest
  <2>2. /\ closing_fd' = [closing_fd EXCEPT ![c] = fd[c]]
        /\ at' = [at EXCEPT ![c] = IF at[c] = "refused" THEN "refused_close" ELSE "closing"]
    BY <1>3 DEF CloseTest, Move
  <2>3. UNCHANGED <<server_running, main, serving, registry, stopped, stmt, target, sent, fd,
                    proto_fd, fd_owner, active, current_user, last_error, affected_rows,
                    last_plan, beside>>
    BY <1>3 DEF CloseTest, loop, handlers, statement, engine
  <2> QED BY <1>0, <2>1, <2>2, <2>3 DEF Types, SessionPoints
<1>4. CASE CloseRefused(c)
  <2>1. /\ fd_owner' \in [Fds -> Clients \cup {Nobody}]
        /\ fd' \in [Clients -> Fds \cup {0}]
        /\ active' \in Int
    <3>1. CloseFd(c, closing_fd[c]) /\ closing_fd[c] \in Fds \cup {0}
      BY <1>0, <1>4 DEF CloseRefused, Types
    <3> QED BY <1>0, <3>1, CloseFdTypes
  <2> QED BY <1>0, <1>4, <2>1 DEF CloseRefused, Move, Types, SessionPoints, loop, handlers,
             statement, engine
<1>5. CASE CloseEnd(c)
  <2>1. /\ fd_owner' \in [Fds -> Clients \cup {Nobody}]
        /\ fd' \in [Clients -> Fds \cup {0}]
        /\ active' \in Int
    <3>1. CloseFd(c, closing_fd[c]) /\ closing_fd[c] \in Fds \cup {0}
      BY <1>0, <1>5 DEF CloseEnd, Types
    <3> QED BY <1>0, <3>1, CloseFdTypes
  <2> QED BY <1>0, <1>5, <2>1 DEF CloseEnd, Move, Types, SessionPoints, loop, statement, engine
<1> QED BY <1>1, <1>2, <1>3, <1>4, <1>5

\* The steps of a statement keep the types.
LEMMA StatementTypes ==
    ASSUME HandlerInv, NEW c \in Clients,
           \/ \E kind \in Kinds : SetUser(c, kind)
           \/ Check(c) \/ Fails(c) \/ ExecutePlan(c) \/ KeepPlan(c) \/ ExecuteShutdown(c)
           \/ \E d \in Clients : ExecuteKill(c, d)
           \/ StopHandler(c) \/ StopCloses(c) \/ Reply(c)
    PROVE  Types'
<1>0. Types
  BY DEF HandlerInv
<1>1. ASSUME NEW kind \in Kinds, SetUser(c, kind)
      PROVE  Types'
  <2>1. beside' \in [Clients -> SUBSET Clients]
    BY <1>0, <1>1 DEF SetUser, Overlap, Types
  <2>2. sent' \in 0 .. MaxStatements
    BY <1>0, <1>1, ServerAssumption DEF SetUser, Types
  <2> QED BY <1>0, <1>1, <2>1, <2>2 DEF SetUser, Move, Types, QueryPoints, loop, handlers, sockets
<1>2. CASE Check(c)
  BY <1>0, <1>2 DEF Check, Move, Types, QueryPoints, loop, handlers, statement, sockets
<1>3. CASE Fails(c) \/ ExecutePlan(c) \/ KeepPlan(c) \/ ExecuteShutdown(c)
  BY <1>0, <1>3 DEF Fails, ExecutePlan, KeepPlan, ExecuteShutdown, Move, Types, QueryPoints,
     loop, handlers, statement, sockets, engine
<1>4. ASSUME NEW d \in Clients, ExecuteKill(c, d)
      PROVE  Types'
  BY <1>0, <1>4 DEF ExecuteKill, Move, Types, QueryPoints, loop, sockets
<1>5. CASE StopHandler(c)
  <2>1. raced' \in BOOLEAN
    BY <1>0, <1>5 DEF StopHandler, Types
  <2>2. target[c] \in Workers
    BY <1>5 DEF StopHandler, HandlerInv, RegistryInv, Killing
  <2>3. Victim(c) \in Clients \cup {Nobody}
    BY <1>0, <2>2 DEF Types, Victim
  <2>4. /\ stopped' \in [Clients -> BOOLEAN]
        /\ closing_fd' \in [Clients -> Fds \cup {0}]
        /\ at' \in [Clients -> SessionPoints \cup QueryPoints]
    <3>1. CASE Victim(c) = Nobody
      <4>1. at' = [at EXCEPT ![c] = "reply"] /\ stopped' = stopped /\ closing_fd' = closing_fd
        BY <1>5, <3>1 DEF StopHandler, Victim, Move
      <4> QED BY <1>0, <4>1 DEF Types, QueryPoints
    <3>2. CASE Victim(c) # Nobody
      <4>1. /\ at' = [at EXCEPT ![c] = "kill_close"]
            /\ stopped' = [stopped EXCEPT ![Victim(c)] = TRUE]
            /\ closing_fd' = [closing_fd EXCEPT ![c] = fd[Victim(c)]]
        BY <1>5, <3>2 DEF StopHandler, Victim, Move
      <4> QED BY <1>0, <2>3, <3>2, <4>1 DEF Types, QueryPoints
    <3> QED BY <3>1, <3>2
  <2>5. UNCHANGED <<loop, serving, registry, statement, fd, proto_fd, fd_owner, active,
                    engine, beside>>
    BY <1>5 DEF StopHandler
  <2> QED BY <1>0, <2>1, <2>4, <2>5 DEF Types, loop, statement, engine
<1>6. CASE StopCloses(c)
  <2>1. target[c] \in Workers
    BY <1>6 DEF StopCloses, HandlerInv, RegistryInv, Killing
  <2>2. /\ fd_owner' \in [Fds -> Clients \cup {Nobody}]
        /\ fd' \in [Clients -> Fds \cup {0}]
        /\ active' \in Int
    <3>1. CASE serving[target[c]] = Nobody
      BY <1>0, <1>6, <3>1 DEF StopCloses, Types
    <3>2. CASE serving[target[c]] # Nobody
      <4>1. serving[target[c]] \in Clients /\ closing_fd[c] \in Fds \cup {0}
        BY <1>0, <2>1, <3>2 DEF Types
      <4>2. CloseFd(serving[target[c]], closing_fd[c])
        BY <1>6, <3>2 DEF StopCloses
      <4> QED BY <1>0, <4>1, <4>2, CloseFdTypes
    <3> QED BY <3>1, <3>2
  <2> QED BY <1>0, <1>6, <2>2 DEF StopCloses, Move, Types, QueryPoints, loop, handlers,
             statement, engine
<1>7. CASE Reply(c)
  BY <1>0, <1>7 DEF Reply, TestStopped, Move, Types, SessionPoints, loop, handlers, sockets, engine
<1> QED BY <1>1, <1>2, <1>3, <1>4, <1>5, <1>6, <1>7

-----------------------------------------------------------------------------
(* The queue, the workers and the registry. *)

\* A connection in session that stays in session, on its worker, keeps the handlers right
\* if what it registers stays live.
LEMMA MoveKeepsHandlers ==
    ASSUME HandlerInv, Types', NEW c \in Clients, NEW to \in InSession,
           at[c] \in InSession, at' = [at EXCEPT ![c] = to],
           UNCHANGED <<queue, serving>>,
           \A d \in Clients : registry'[d] \in {registry[d], Nobody},
           to \in {"close", "closing"} => registry'[c] = Nobody,
           \A d \in Clients : Killing(d)' => target'[d] \in Workers
    PROVE  HandlerInv'
<1>0. /\ Types /\ at \in [Clients -> SessionPoints \cup QueryPoints]
      /\ \A d \in Clients : at'[d] = IF d = c THEN to ELSE at[d]
  BY DEF HandlerInv, Types
<1>1. QueueInv'
  <2>1. ASSUME NEW i \in 1 .. Len(queue)
        PROVE  at'[queue[i]] = "queued"
    <3>1. at[queue[i]] = "queued" /\ queue[i] \in Clients
      BY DEF HandlerInv, QueueInv
    <3>2. queue[i] # c
      BY <3>1 DEF InSession, QueryPoints
    <3> QED BY <3>1, <3>2, <1>0
  <2> QED BY <2>1 DEF HandlerInv, QueueInv
<1>2. ServingInv'
  <2>1. \A w \in Workers : serving[w] # Nobody => serving[w] \in Clients
    BY <1>0 DEF Types
  <2> QED BY <2>1, <1>0 DEF HandlerInv, ServingInv
<1>3. RegistryInv'
  <2>1. ASSUME NEW d \in Clients, registry'[d] # Nobody
        PROVE  serving'[registry'[d]] = d /\ at'[d] \notin {"close", "closing"}
    <3>1. registry'[d] = registry[d] /\ registry[d] # Nobody
      BY <2>1
    <3>2. serving[registry[d]] = d /\ at[d] \notin {"close", "closing"}
      BY <3>1 DEF HandlerInv, RegistryInv
    <3>3. d = c => to \notin {"close", "closing"}
      BY <2>1
    <3> QED BY <3>1, <3>2, <3>3, <1>0
  <2> QED BY <2>1 DEF RegistryInv
<1> QED BY <1>1, <1>2, <1>3 DEF HandlerInv

\* A connection is accepted: it waits at the end of the queue.
LEMMA AcceptHandlers ==
    ASSUME HandlerInv, NEW c \in Clients, Accept(c)
    PROVE  HandlerInv'
<1>0. Types /\ Types' /\ queue \in Seq(Clients) /\ at \in [Clients -> SessionPoints \cup QueryPoints]
  BY LoopTypes DEF HandlerInv, QueueInv, Types
<1>1. /\ at[c] = "away" /\ queue' = Append(queue, c) /\ at' = [at EXCEPT ![c] = "queued"]
      /\ UNCHANGED <<serving, registry, target>>
  BY DEF Accept, Move, handlers, statement
<1>2. \A d \in Clients : at'[d] = IF d = c THEN "queued" ELSE at[d]
  BY <1>0, <1>1
<1>3. /\ queue' \in Seq(Clients) /\ Len(queue') = Len(queue) + 1 /\ Len(queue) \in Nat
      /\ \A i \in 1 .. Len(queue) : queue'[i] = queue[i]
      /\ queue'[Len(queue) + 1] = c
  BY <1>0, <1>1, AppendProperties
<1>4. \A i \in 1 .. Len(queue) : queue[i] \in Clients /\ queue[i] # c /\ at[queue[i]] = "queued"
  BY <1>0, <1>1 DEF HandlerInv, QueueInv
<1>5. \A i \in 1 .. Len(queue') : i \in 1 .. Len(queue) \/ i = Len(queue) + 1
  BY <1>3
<1>6. QueueInv'
  <2>1. ASSUME NEW i \in 1 .. Len(queue')
        PROVE  at'[queue'[i]] = "queued"
    BY <1>2, <1>3, <1>4, <1>5
  <2>2. ASSUME NEW i \in 1 .. Len(queue'), NEW j \in 1 .. Len(queue'), queue'[i] = queue'[j]
        PROVE  i = j
    BY <2>2, <1>3, <1>4, <1>5 DEF HandlerInv, QueueInv
  <2> QED BY <1>3, <2>1, <2>2 DEF QueueInv
<1>7. ServingInv'
  <2>1. \A w \in Workers : serving[w] # Nobody => serving[w] \in Clients /\ serving[w] # c
    BY <1>0, <1>1 DEF Types, HandlerInv, ServingInv, InSession, QueryPoints
  <2>2. "queued" \notin InSession
    BY DEF InSession, QueryPoints
  <2> QED BY <1>1, <1>2, <2>1, <2>2 DEF HandlerInv, ServingInv
<1>8. RegistryInv'
  BY <1>1, <1>2 DEF HandlerInv, RegistryInv, Killing
<1> QED BY <1>0, <1>6, <1>7, <1>8 DEF HandlerInv

\* A worker takes the first connection of the queue.
LEMMA StartHandlers ==
    ASSUME HandlerInv, NEW w \in Workers, Start(w)
    PROVE  HandlerInv'
<1> DEFINE c == Head(queue)
<1>0. Types /\ Types' /\ queue \in Seq(Clients) /\ at \in [Clients -> SessionPoints \cup QueryPoints]
  BY LoopTypes DEF HandlerInv, QueueInv, Types
<1>1. /\ serving[w] = Nobody /\ queue # <<>> /\ queue' = Tail(queue)
      /\ serving' = [serving EXCEPT ![w] = c]
      /\ registry' = [registry EXCEPT ![c] = w]
      /\ at' = [at EXCEPT ![c] = "auth"]
      /\ target' = target
  BY DEF Start, Move, statement
<1>2. /\ Len(queue) \in Nat \ {0} /\ c = queue[1] /\ c \in Clients
      /\ Tail(queue) \in Seq(Clients) /\ Len(Tail(queue)) = Len(queue) - 1
      /\ \A i \in 1 .. Len(Tail(queue)) : Tail(queue)[i] = queue[i + 1]
  BY <1>0, <1>1
<1>3. at[c] = "queued" /\ c # Nobody
  BY <1>2, ServerAssumption DEF HandlerInv, QueueInv
<1> HIDE DEF c
<1>4. \A d \in Clients : at'[d] = IF d = c THEN "auth" ELSE at[d]
  BY <1>0, <1>1, <1>2
<1>5. \A v \in Workers : serving'[v] = IF v = w THEN c ELSE serving[v]
  BY <1>0, <1>1 DEF Types
<1>6. \A v \in Workers : serving[v] # Nobody => serving[v] \in Clients /\ serving[v] # c
  BY <1>0, <1>3 DEF Types, HandlerInv, ServingInv, InSession, QueryPoints
<1>7. "auth" \in InSession /\ "queued" \notin InSession
  BY DEF InSession, QueryPoints
<1>8. QueueInv'
  <2>1. \A i \in 1 .. Len(queue') :
          i + 1 \in 1 .. Len(queue) /\ i + 1 # 1 /\ queue'[i] = queue[i + 1]
    BY <1>1, <1>2
  <2>2. ASSUME NEW i \in 1 .. Len(queue')
        PROVE  at'[queue'[i]] = "queued"
    <3>1. queue'[i] = queue[i + 1] /\ i + 1 \in 1 .. Len(queue) /\ i + 1 # 1 /\ 1 \in 1 .. Len(queue)
      BY <1>2, <2>1
    <3>2. queue[i + 1] \in Clients /\ at[queue[i + 1]] = "queued" /\ queue[i + 1] # c
      BY <1>0, <1>2, <3>1 DEF HandlerInv, QueueInv
    <3> QED BY <3>1, <3>2, <1>4
  <2>3. ASSUME NEW i \in 1 .. Len(queue'), NEW j \in 1 .. Len(queue'), queue'[i] = queue'[j]
        PROVE  i = j
    <3>1. i + 1 = j + 1
      BY <2>1, <2>3 DEF HandlerInv, QueueInv
    <3> QED BY <3>1
  <2> QED BY <1>1, <1>2, <2>2, <2>3 DEF QueueInv
<1>9. ServingInv'
  <2>1. ASSUME NEW v \in Workers, serving'[v] # Nobody
        PROVE  at'[serving'[v]] \in InSession
    BY <2>1, <1>2, <1>4, <1>5, <1>6, <1>7 DEF HandlerInv, ServingInv
  <2>2. ASSUME NEW v \in Workers, NEW u \in Workers, serving'[v] # Nobody, serving'[v] = serving'[u]
        PROVE  v = u
    BY <2>2, <1>3, <1>5, <1>6 DEF HandlerInv, ServingInv
  <2>3. ASSUME NEW d \in Clients, at'[d] \in InSession
        PROVE  \E v \in Workers : serving'[v] = d
    <3>1. CASE d = c
      BY <3>1, <1>5
    <3>2. CASE d # c
      <4>1. PICK v \in Workers : serving[v] = d
        BY <2>3, <3>2, <1>4 DEF HandlerInv, ServingInv
      <4>2. v # w
        BY <4>1, <1>1, ServerAssumption
      <4> QED BY <4>1, <4>2, <1>5
    <3> QED BY <3>1, <3>2
  <2> QED BY <2>1, <2>2, <2>3 DEF ServingInv
<1>10. RegistryInv'
  <2>1. ASSUME NEW d \in Clients, registry'[d] # Nobody
        PROVE  serving'[registry'[d]] = d /\ at'[d] \notin {"close", "closing"}
    <3>1. CASE d = c
      BY <3>1, <1>0, <1>1, <1>2, <1>4, <1>5 DEF Types
    <3>2. CASE d # c
      <4>1. registry'[d] = registry[d] /\ registry[d] \in Workers
        BY <2>1, <3>2, <1>0, <1>1, <1>2 DEF Types
      <4>2. serving[registry[d]] = d /\ at[d] \notin {"close", "closing"}
        BY <2>1, <4>1 DEF HandlerInv, RegistryInv
      <4>3. registry[d] # w
        BY <4>2, <1>1, ServerAssumption
      <4> QED BY <3>2, <4>1, <4>2, <4>3, <1>4, <1>5
    <3> QED BY <3>1, <3>2
  <2>2. ASSUME NEW d \in Clients, Killing(d)'
        PROVE  target'[d] \in Workers
    BY <2>2, <1>1, <1>4 DEF HandlerInv, RegistryInv, Killing
  <2> QED BY <2>1, <2>2 DEF RegistryInv
<1> QED BY <1>0, <1>8, <1>9, <1>10 DEF HandlerInv

\* The destructor frees the worker.
LEMMA CloseEndHandlers ==
    ASSUME HandlerInv, NEW c \in Clients, CloseEnd(c)
    PROVE  HandlerInv'
<1> DEFINE w == WorkerOf(c)
<1>0. Types /\ Types' /\ at \in [Clients -> SessionPoints \cup QueryPoints]
  BY SessionTypes DEF HandlerInv, Types
<1>1. /\ at[c] = "closing" /\ serving' = [serving EXCEPT ![w] = Nobody]
      /\ at' = [at EXCEPT ![c] = "gone"]
      /\ UNCHANGED <<queue, registry, target>>
  BY DEF CloseEnd, Move, loop, statement
<1>2. at[c] \in InSession /\ "gone" \notin InSession /\ "queued" \notin InSession /\ c # Nobody
  BY <1>1, ServerAssumption DEF InSession, QueryPoints
<1>3. w \in Workers /\ serving[w] = c /\ \A v \in Workers : serving[v] = c => v = w
  BY <1>2, WorkerOfSession
<1> HIDE DEF w
<1>4. \A d \in Clients : at'[d] = IF d = c THEN "gone" ELSE at[d]
  BY <1>0, <1>1
<1>5. \A v \in Workers : serving'[v] = IF v = w THEN Nobody ELSE serving[v]
  BY <1>0, <1>1 DEF Types
<1>6. QueueInv'
  <2>1. \A i \in 1 .. Len(queue) : queue[i] \in Clients /\ queue[i] # c
    BY <1>1 DEF HandlerInv, QueueInv
  <2> QED BY <2>1, <1>1, <1>4 DEF HandlerInv, QueueInv
<1>7. ServingInv'
  <2>1. ASSUME NEW v \in Workers, serving'[v] # Nobody
        PROVE  at'[serving'[v]] \in InSession
    <3>1. v # w /\ serving'[v] = serving[v] /\ serving[v] \in Clients
      BY <2>1, <1>0, <1>5 DEF Types
    <3>2. serving[v] # c
      BY <3>1, <1>3
    <3> QED BY <2>1, <3>1, <3>2, <1>4 DEF HandlerInv, ServingInv
  <2>2. ASSUME NEW v \in Workers, NEW u \in Workers, serving'[v] # Nobody, serving'[v] = serving'[u]
        PROVE  v = u
    BY <2>2, <1>5 DEF HandlerInv, ServingInv
  <2>3. ASSUME NEW d \in Clients, at'[d] \in InSession
        PROVE  \E v \in Workers : serving'[v] = d
    <3>1. d # c /\ at[d] \in InSession
      BY <2>3, <1>2, <1>4
    <3>2. PICK v \in Workers : serving[v] = d
      BY <3>1 DEF HandlerInv, ServingInv
    <3> QED BY <3>1, <3>2, <1>3, <1>5
  <2> QED BY <2>1, <2>2, <2>3 DEF ServingInv
<1>8. RegistryInv'
  <2>1. ASSUME NEW d \in Clients, registry[d] # Nobody
        PROVE  serving'[registry[d]] = d /\ at'[d] \notin {"close", "closing"}
    <3>1. serving[registry[d]] = d /\ at[d] \notin {"close", "closing"} /\ registry[d] \in Workers
      BY <2>1, <1>0 DEF HandlerInv, RegistryInv, Types
    <3>2. d # c
      BY <3>1, <1>1
    <3> QED BY <3>1, <3>2, <1>3, <1>4, <1>5
  <2>2. ASSUME NEW d \in Clients, Killing(d)'
        PROVE  target[d] \in Workers
    BY <2>2, <1>1, <1>4 DEF HandlerInv, RegistryInv, Killing
  <2> QED BY <2>1, <2>2, <1>1 DEF RegistryInv
<1> QED BY <1>0, <1>6, <1>7, <1>8 DEF HandlerInv

\* The steps of a session keep the handlers right.
LEMMA ServeHandlers ==
    ASSUME HandlerInv, NEW c \in Clients, Serve(c)
    PROVE  HandlerInv'
<1>0. Types /\ Types' /\ at \in [Clients -> SessionPoints \cup QueryPoints]
      /\ target \in [Clients -> Workers \cup {Nobody}] /\ registry \in [Clients -> Workers \cup {Nobody}]
  BY SessionTypes, StatementTypes DEF Serve, HandlerInv, Types
<1>1. CASE CloseEnd(c)
  BY <1>1, CloseEndHandlers
<1>2. ASSUME NEW to \in InSession, at[c] \in InSession, at' = [at EXCEPT ![c] = to],
             UNCHANGED <<queue, serving, registry, target>>,
             to = "kill_close" => at[c] = "kill", to # "kill", to # "close",
             to = "closing" => at[c] = "close"
      PROVE  HandlerInv'
  <2>1. \A d \in Clients : Killing(d)' => Killing(d)
    BY <1>0, <1>2 DEF Killing
  <2>2. at[c] = "close" => registry[c] = Nobody
    BY DEF HandlerInv, RegistryInv
  <2> QED BY <1>0, <1>2, <2>1, <2>2, MoveKeepsHandlers DEF HandlerInv, RegistryInv
<1>3. ASSUME Authenticate(c)
      PROVE  HandlerInv'
  <2>1. PICK to \in {"ready", "return", "refused"} : at' = [at EXCEPT ![c] = to]
    BY <1>3 DEF Authenticate, TestStopped, Move
  <2>2. to \in InSession /\ at[c] \in InSession /\ to \notin {"close", "closing", "kill", "kill_close"}
    BY <1>3, <2>1 DEF Authenticate, InSession
  <2>3. UNCHANGED <<queue, serving, registry, target>>
    BY <1>3 DEF Authenticate, loop, handlers, statement
  <2> QED BY <2>1, <2>2, <2>3, <1>2
<1>4. CASE EndSession(c)
  <2>1. /\ at' = [at EXCEPT ![c] = "close"]
        /\ registry' = [registry EXCEPT ![c] = Nobody]
        /\ UNCHANGED <<queue, serving, target>>
    BY <1>4 DEF EndSession, Move, loop, statement
  <2>2. "close" \in InSession /\ at[c] \in InSession
    BY <1>4 DEF EndSession, InSession
  <2>3. \A d \in Clients : Killing(d)' => target'[d] \in Workers
    BY <1>0, <2>1 DEF Killing, HandlerInv, RegistryInv
  <2> QED BY <1>0, <2>1, <2>2, <2>3, MoveKeepsHandlers
<1>5. CASE CloseTest(c)
  <2> DEFINE to == IF at[c] = "refused" THEN "refused_close" ELSE "closing"
  <2>1. at' = [at EXCEPT ![c] = to] /\ UNCHANGED <<queue, serving, registry, target>>
    BY <1>5 DEF CloseTest, Move, loop, handlers, statement
  <2>2. to \in InSession /\ at[c] \in InSession /\ (to = "closing" => at[c] = "close")
        /\ to \notin {"close", "kill", "kill_close"}
    BY <1>5 DEF CloseTest, InSession
  <2> HIDE DEF to
  <2> QED BY <2>1, <2>2, <1>2
<1>6. CASE CloseRefused(c)
  <2>1. /\ at' = [at EXCEPT ![c] = "return"]
        /\ UNCHANGED <<queue, serving, registry, target>>
    BY <1>6 DEF CloseRefused, Move, loop, handlers, statement
  <2>2. "return" \in InSession /\ at[c] \in InSession
    BY <1>6 DEF CloseRefused, InSession
  <2> QED BY <2>1, <2>2, <1>2
<1>7. ASSUME NEW kind \in Kinds, SetUser(c, kind)
      PROVE  HandlerInv'
  <2>1. at' = [at EXCEPT ![c] = "user"] /\ UNCHANGED <<queue, serving, registry, target>>
    BY <1>7 DEF SetUser, Move, loop, handlers
  <2>2. "user" \in InSession /\ at[c] \in InSession
    BY <1>7 DEF SetUser, InSession, QueryPoints
  <2> QED BY <2>1, <2>2, <1>2
<1>8. CASE Check(c) \/ Fails(c) \/ ExecutePlan(c) \/ KeepPlan(c) \/ ExecuteShutdown(c)
  <2>1. PICK to \in {"run", "error", "plan", "reply"} : at' = [at EXCEPT ![c] = to]
    BY <1>8 DEF Check, Fails, ExecutePlan, KeepPlan, ExecuteShutdown, Move
  <2>2. to \in InSession /\ at[c] \in InSession /\ to \notin {"close", "closing", "kill", "kill_close"}
    BY <1>8, <2>1 DEF Check, Fails, ExecutePlan, KeepPlan, ExecuteShutdown, InSession, QueryPoints
  <2>3. UNCHANGED <<queue, serving, registry, target>>
    BY <1>8 DEF Check, Fails, ExecutePlan, KeepPlan, ExecuteShutdown, loop, handlers, statement
  <2> QED BY <2>1, <2>2, <2>3, <1>2
<1>9. ASSUME NEW d \in Clients, ExecuteKill(c, d)
      PROVE  HandlerInv'
  <2>1. at[c] = "run" /\ at[c] \in InSession /\ "kill" \in InSession /\ "error" \in InSession
        /\ UNCHANGED <<queue, serving>>
    BY <1>9 DEF ExecuteKill, InSession, QueryPoints, loop
  <2>2. CASE registry[d] # Nobody
    <3>1. /\ target' = [target EXCEPT ![c] = registry[d]]
          /\ registry' = [registry EXCEPT ![d] = Nobody]
          /\ at' = [at EXCEPT ![c] = "kill"]
      BY <1>9, <2>2 DEF ExecuteKill, Move
    <3>2. \A e \in Clients : Killing(e)' => target'[e] \in Workers
      BY <1>0, <2>2, <3>1 DEF Killing, HandlerInv, RegistryInv
    <3> QED BY <1>0, <2>1, <3>1, <3>2, MoveKeepsHandlers
  <2>3. CASE registry[d] = Nobody
    <3>1. at' = [at EXCEPT ![c] = "error"] /\ UNCHANGED <<target, registry>>
      BY <1>9, <2>3 DEF ExecuteKill, Move
    <3> QED BY <2>1, <3>1, <1>2
  <2> QED BY <2>2, <2>3
<1>10. CASE StopHandler(c)
  <2>1. PICK to \in {"reply", "kill_close"} : at' = [at EXCEPT ![c] = to]
    BY <1>10 DEF StopHandler, Move
  <2>2. to \in InSession /\ at[c] \in InSession /\ at[c] = "kill"
        /\ to \notin {"close", "closing", "kill"}
    BY <1>10, <2>1 DEF StopHandler, InSession, QueryPoints
  <2>3. UNCHANGED <<queue, serving, registry, target>>
    BY <1>10 DEF StopHandler, loop, statement
  <2> QED BY <2>1, <2>2, <2>3, <1>2
<1>11. CASE StopCloses(c)
  <2>1. at' = [at EXCEPT ![c] = "reply"] /\ UNCHANGED <<queue, serving, registry, target>>
    BY <1>11 DEF StopCloses, Move, loop, handlers, statement
  <2>2. "reply" \in InSession /\ at[c] \in InSession
    BY <1>11 DEF StopCloses, InSession, QueryPoints
  <2> QED BY <2>1, <2>2, <1>2
<1>12. CASE Reply(c)
  <2>1. PICK to \in {"ready", "return"} : at' = [at EXCEPT ![c] = to]
    BY <1>12 DEF Reply, TestStopped, Move
  <2>2. target' = [target EXCEPT ![c] = Nobody] /\ UNCHANGED <<queue, serving, registry>>
    BY <1>12 DEF Reply, loop, handlers
  <2>4. to \in InSession /\ at[c] \in InSession /\ to \notin {"close", "closing", "kill", "kill_close"}
    BY <1>12 DEF Reply, InSession, QueryPoints
  <2>3. \A d \in Clients : Killing(d)' => target'[d] \in Workers
    BY <1>0, <2>1, <2>2, <2>4 DEF Killing, HandlerInv, RegistryInv
  <2> QED BY <1>0, <2>1, <2>2, <2>3, <2>4, MoveKeepsHandlers
<1> QED BY <1>1, <1>3, <1>4, <1>5, <1>6, <1>7, <1>8, <1>9, <1>10, <1>11, <1>12 DEF Serve

\* Every step keeps the handlers right.
LEMMA NextHandlers == HandlerInv /\ [Next]_vars => HandlerInv'
<1> SUFFICES ASSUME HandlerInv, [Next]_vars
             PROVE  HandlerInv'
  OBVIOUS
<1>1. CASE AcceptFails \/ Signal \/ Join
  <2>1. Types'
    BY <1>1, LoopTypes
  <2>2. UNCHANGED <<queue, serving, registry, target, at>>
    BY <1>1 DEF AcceptFails, Signal, Join, handlers, statement
  <2> QED BY <2>1, <2>2 DEF HandlerInv, QueueInv, ServingInv, RegistryInv, Killing
<1>2. CASE UNCHANGED vars
  BY <1>2 DEF vars, loop, handlers, statement, sockets, engine, HandlerInv, Types, QueueInv,
     ServingInv, RegistryInv, Killing
<1> QED BY <1>1, <1>2, AcceptHandlers, StartHandlers, ServeHandlers DEF Next

\* The handlers are right at first.
LEMMA InitHandlers == Init => HandlerInv
<1> SUFFICES ASSUME Init
             PROVE  HandlerInv
  OBVIOUS
<1>1. Types
  <2>0. server_running \in BOOLEAN /\ raced \in BOOLEAN
    BY DEF Init
  <2>1. /\ main \in {"accept", "join", "done"}
        /\ sent \in 0 .. MaxStatements /\ active \in Int
        /\ current_user = Nobody /\ last_error = Nobody /\ affected_rows = Nobody
        /\ last_plan = Nobody
    BY ServerAssumption DEF Init
  <2>2. /\ serving \in [Workers -> Clients \cup {Nobody}]
        /\ registry \in [Clients -> Workers \cup {Nobody}]
        /\ target \in [Clients -> Workers \cup {Nobody}]
        /\ stmt \in [Clients -> Kinds \cup {Nobody}]
        /\ fd_owner \in [Fds -> Clients \cup {Nobody}]
    BY DEF Init
  <2>3. stopped \in [Clients -> BOOLEAN] /\ beside \in [Clients -> SUBSET Clients]
    BY DEF Init
  <2>4. /\ fd \in [Clients -> Fds \cup {0}] /\ proto_fd \in [Clients -> Fds \cup {0}]
        /\ closing_fd \in [Clients -> Fds \cup {0}]
        /\ at \in [Clients -> SessionPoints \cup QueryPoints]
    BY DEF Init, SessionPoints
  <2> QED BY <2>0, <2>1, <2>2, <2>3, <2>4 DEF Types
<1>2. QueueInv
  <2>1. queue = <<>> /\ <<>> \in Seq(Clients) /\ Len(<<>>) = 0
    BY DEF Init
  <2> QED BY <2>1 DEF QueueInv
<1>3. ServingInv /\ RegistryInv
  BY ServerAssumption DEF Init, ServingInv, RegistryInv, Killing, InSession, QueryPoints
<1> QED BY <1>1, <1>2, <1>3 DEF HandlerInv

\* The handlers are right in every state.
LEMMA HandlersHold == Spec => []HandlerInv
BY InitHandlers, NextHandlers, PTL DEF Spec

\* connection_handler.cpp: whoever walks the registry under its mutex meets live handlers
\* only, each registered by its own connection, however many workers and clients there are.
THEOREM RegistryCorrect == Spec => []RegistryHoldsLive
<1>1. HandlerInv => RegistryHoldsLive
  BY DEF HandlerInv, RegistryInv, RegistryHoldsLive
<1> QED BY <1>1, HandlersHold, PTL

-----------------------------------------------------------------------------
(* The engine that all sessions share. *)

\* A step outside of HandleQuery, or the reply that ends it, leaves alone what the other
\* statements rely on.
LEMMA OutsideEngine ==
    ASSUME EngineInv,
           UNCHANGED <<current_user, last_error, affected_rows, last_plan>>,
           \A d \in Clients : InQuery(d)' => /\ at'[d] = at[d]
                                             /\ stmt'[d] = stmt[d]
                                             /\ beside'[d] = beside[d]
    PROVE  EngineInv'
<1>1. \A d \in Clients : InQuery(d)' => InQuery(d)
  BY DEF InQuery
<1>2. ASSUME NEW c \in Clients, InQuery(c)'
      PROVE  StatementInv(c)'
  <2>1. StatementInv(c) /\ at'[c] = at[c] /\ stmt'[c] = stmt[c] /\ beside'[c] = beside[c]
    BY <1>1, <1>2 DEF EngineInv
  <2>2. Near(c)' = Near(c)
    BY <2>1 DEF Near
  <2> QED BY <2>1, <2>2 DEF StatementInv, Allowed
<1>3. \A c, e \in Clients : InQuery(c)' /\ InQuery(e)' /\ c # e => e \in beside'[c]
  BY <1>1 DEF EngineInv
<1> QED BY <1>2, <1>3 DEF EngineInv

\* A step of the statement of c writes into the engine what every other statement allows
\* for, since c runs beside it.
LEMMA InsideEngine ==
    ASSUME Types, EngineInv, NEW c \in Clients, InQuery(c), InQuery(c)',
           \A d \in Clients \ {c} : at'[d] = at[d],
           UNCHANGED <<stmt, beside, current_user>>,
           last_error' \in {last_error, Nobody, current_user, c},
           affected_rows' \in {affected_rows, c}, last_plan' \in {last_plan, c},
           StatementInv(c)'
    PROVE  EngineInv'
<1>1. \A d \in Clients : InQuery(d)' => InQuery(d)
  BY DEF InQuery
<1>2. ASSUME NEW d \in Clients, InQuery(d)'
      PROVE  StatementInv(d)'
  <2>1. CASE d = c
    BY <2>1
  <2>2. CASE d # c
    <3>1. StatementInv(d) /\ InQuery(d) /\ c \in beside[d] /\ at'[d] = at[d]
      BY <1>1, <1>2, <2>2 DEF EngineInv
    <3>2. Near(d)' = Near(d) /\ c \in Near(d) /\ beside[d] # {} /\ beside'[d] # {}
      BY <3>1 DEF Near
    <3>3. current_user \in Near(d) /\ current_user' \in Near(d)
      BY <3>1 DEF StatementInv
    <3>4. at[d] = "error" => last_error' \in Near(d) \cup {Nobody}
      BY <3>1, <3>2, <3>3 DEF StatementInv
    <3> QED BY <3>1, <3>2, <3>3, <3>4 DEF StatementInv, Allowed
  <2> QED BY <2>1, <2>2
<1>3. \A d, e \in Clients : InQuery(d)' /\ InQuery(e)' /\ d # e => e \in beside'[d]
  BY <1>1 DEF EngineInv
<1> QED BY <1>2, <1>3 DEF EngineInv

\* A statement begins: it and the statements it meets run beside each other.
LEMMA SetUserEngine ==
    ASSUME Types, EngineInv, NEW c \in Clients, NEW kind \in Kinds, SetUser(c, kind)
    PROVE  EngineInv'
<1>1. /\ \A d \in Clients : at'[d] = IF d = c THEN "user" ELSE at[d]
      /\ \A d \in Clients \ {c} : stmt'[d] = stmt[d]
      /\ current_user' = c
      /\ UNCHANGED <<last_error, affected_rows, last_plan>>
      /\ beside'[c] = {e \in Clients \ {c} : InQuery(e)}
      /\ \A d \in Clients \ {c} : InQuery(d) => beside'[d] = beside[d] \cup {c}
      /\ ~InQuery(c)
  BY DEF SetUser, Move, Overlap, Types, InQuery, QueryPoints
<1>2. \A d \in Clients \ {c} : InQuery(d)' <=> InQuery(d)
  BY <1>1 DEF InQuery
<1>3. ASSUME NEW d \in Clients, InQuery(d)'
      PROVE  StatementInv(d)'
  <2>1. CASE d = c
    BY <1>1, <2>1 DEF StatementInv, Near
  <2>2. CASE d # c
    <3>1. /\ StatementInv(d) /\ at'[d] = at[d] /\ stmt'[d] = stmt[d]
          /\ beside'[d] = beside[d] \cup {c}
      BY <1>1, <1>2, <1>3, <2>2 DEF EngineInv
    <3>2. c \in Near(d)' /\ Near(d) \subseteq Near(d)' /\ beside'[d] # {}
      BY <3>1 DEF Near
    <3>3. at'[d] = "error" => last_error' \in Near(d)' \cup {Nobody}
      BY <1>1, <3>1, <3>2 DEF StatementInv
    <3> QED BY <1>1, <3>1, <3>2, <3>3 DEF StatementInv, Allowed
  <2> QED BY <2>1, <2>2
<1>4. \A d, e \in Clients : InQuery(d)' /\ InQuery(e)' /\ d # e => e \in beside'[d]
  BY <1>1, <1>2 DEF EngineInv
<1> QED BY <1>3, <1>4 DEF EngineInv

\* Every step of a statement keeps what it relies on.
LEMMA StatementEngine ==
    ASSUME Types, EngineInv, NEW c \in Clients,
           \/ Check(c) \/ Fails(c) \/ ExecutePlan(c) \/ KeepPlan(c) \/ ExecuteShutdown(c)
           \/ \E d \in Clients : ExecuteKill(c, d)
           \/ StopHandler(c) \/ StopCloses(c)
    PROVE  EngineInv'
<1>0. /\ at \in [Clients -> SessionPoints \cup QueryPoints]
      /\ UNCHANGED <<stmt, beside, current_user>>
      /\ InQuery(c) /\ StatementInv(c) /\ Near(c)' = Near(c)
  BY DEF Types, Check, Fails, ExecutePlan, KeepPlan, ExecuteShutdown, ExecuteKill, StopHandler,
     StopCloses, statement, engine, InQuery, QueryPoints, EngineInv, Near
<1>1. c \in Near(c) /\ current_user \in Near(c)
  BY <1>0 DEF Near, StatementInv
<1>2. ASSUME NEW to \in QueryPoints, at' = [at EXCEPT ![c] = to],
             last_error' \in {last_error, Nobody, current_user, c},
             affected_rows' \in {affected_rows, c}, last_plan' \in {last_plan, c},
             StatementInv(c)'
      PROVE  EngineInv'
  <2>1. InQuery(c)' /\ \A d \in Clients \ {c} : at'[d] = at[d]
    BY <1>0, <1>2 DEF InQuery
  <2> QED BY <1>0, <1>2, <2>1, InsideEngine
<1>3. CASE Check(c)
  <2>0. UNCHANGED <<affected_rows, last_plan>>
    BY <1>3 DEF Check
  <2>1. CASE Allowed(current_user, stmt[c])
    <3>1. at' = [at EXCEPT ![c] = "run"] /\ at'[c] = "run" /\ last_error' = Nobody
      BY <1>0, <1>3, <2>1 DEF Check, Move
    <3>2. StatementInv(c)'
      BY <1>0, <1>1, <2>1, <3>1 DEF StatementInv, Allowed
    <3>3. "run" \in QueryPoints
      BY DEF QueryPoints
    <3> QED BY <1>2, <2>0, <3>1, <3>2, <3>3
  <2>2. CASE ~Allowed(current_user, stmt[c])
    <3>1. at' = [at EXCEPT ![c] = "error"] /\ at'[c] = "error" /\ last_error' = current_user
      BY <1>0, <1>3, <2>2 DEF Check, Move
    <3>2. StatementInv(c)'
      BY <1>0, <1>1, <3>1 DEF StatementInv
    <3>3. "error" \in QueryPoints
      BY DEF QueryPoints
    <3> QED BY <1>2, <2>0, <3>1, <3>2, <3>3
  <2> QED BY <2>1, <2>2
<1>4. CASE Fails(c)
  <2>1. /\ at' = [at EXCEPT ![c] = "error"] /\ at'[c] = "error" /\ last_error' = c
        /\ UNCHANGED <<affected_rows, last_plan>>
    BY <1>0, <1>4 DEF Fails, Move
  <2>2. StatementInv(c)' /\ "error" \in QueryPoints
    BY <1>0, <1>1, <2>1 DEF StatementInv, QueryPoints
  <2> QED BY <1>2, <2>1, <2>2
<1>5. CASE ExecutePlan(c)
  <2>1. /\ at[c] = "run" /\ at' = [at EXCEPT ![c] = "plan"] /\ at'[c] = "plan" /\ affected_rows' = c
        /\ UNCHANGED <<last_error, last_plan>>
    BY <1>0, <1>5 DEF ExecutePlan, Move
  <2>2. StatementInv(c)' /\ "plan" \in QueryPoints
    BY <1>0, <1>1, <2>1 DEF StatementInv, QueryPoints, Allowed
  <2> QED BY <1>2, <2>1, <2>2
<1>6. CASE KeepPlan(c)
  <2>1. /\ at[c] = "plan" /\ at' = [at EXCEPT ![c] = "reply"] /\ at'[c] = "reply" /\ last_plan' = c
        /\ UNCHANGED <<last_error, affected_rows>>
    BY <1>0, <1>6 DEF KeepPlan, Move
  <2>2. StatementInv(c)' /\ "reply" \in QueryPoints
    BY <1>0, <1>1, <2>1 DEF StatementInv, QueryPoints
  <2> QED BY <1>2, <2>1, <2>2
<1>7. CASE ExecuteShutdown(c)
  <2>1. /\ stmt[c] = "shutdown" /\ at' = [at EXCEPT ![c] = "reply"] /\ at'[c] = "reply"
        /\ UNCHANGED <<last_error, affected_rows, last_plan>>
    BY <1>0, <1>7 DEF ExecuteShutdown, Move, engine
  <2>2. StatementInv(c)' /\ "reply" \in QueryPoints
    BY <1>0, <1>1, <2>1 DEF StatementInv, QueryPoints
  <2> QED BY <1>2, <2>1, <2>2
<1>8. ASSUME NEW d \in Clients, ExecuteKill(c, d)
      PROVE  EngineInv'
  <2>0. at[c] = "run" /\ stmt[c] = "kill" /\ UNCHANGED <<affected_rows, last_plan>>
    BY <1>8 DEF ExecuteKill
  <2>1. CASE registry[d] # Nobody
    <3>1. at' = [at EXCEPT ![c] = "kill"] /\ at'[c] = "kill" /\ last_error' = last_error
      BY <1>0, <1>8, <2>1 DEF ExecuteKill, Move
    <3>2. StatementInv(c)' /\ "kill" \in QueryPoints
      BY <1>0, <1>1, <2>0, <3>1 DEF StatementInv, QueryPoints, Allowed
    <3> QED BY <1>2, <2>0, <3>1, <3>2
  <2>2. CASE registry[d] = Nobody
    <3>1. at' = [at EXCEPT ![c] = "error"] /\ at'[c] = "error" /\ last_error' = c
      BY <1>0, <1>8, <2>2 DEF ExecuteKill, Move
    <3>2. StatementInv(c)' /\ "error" \in QueryPoints
      BY <1>0, <1>1, <3>1 DEF StatementInv, QueryPoints
    <3> QED BY <1>2, <2>0, <3>1, <3>2
  <2> QED BY <2>1, <2>2
<1>9. CASE StopHandler(c) \/ StopCloses(c)
  <2>1. PICK to \in {"kill_close", "reply"} : at' = [at EXCEPT ![c] = to]
    BY <1>9 DEF StopHandler, StopCloses, Move
  <2>2. /\ at[c] \in {"kill", "kill_close"} /\ at'[c] = to
        /\ UNCHANGED <<last_error, affected_rows, last_plan>>
    BY <1>0, <1>9, <2>1 DEF StopHandler, StopCloses, engine
  <2>3. StatementInv(c)' /\ to \in QueryPoints
    BY <1>0, <1>1, <2>1, <2>2 DEF StatementInv, QueryPoints, Allowed
  <2> QED BY <1>2, <2>1, <2>2, <2>3
<1> QED BY <1>3, <1>4, <1>5, <1>6, <1>7, <1>8, <1>9

\* Every step keeps what the statements rely on.
LEMMA NextEngine == Types /\ QueueInv /\ EngineInv /\ [Next]_vars => EngineInv'
<1> SUFFICES ASSUME Types, QueueInv, EngineInv, [Next]_vars
             PROVE  EngineInv'
  OBVIOUS
<1>0. at \in [Clients -> SessionPoints \cup QueryPoints] /\ beside \in [Clients -> SUBSET Clients]
  BY DEF Types
<1>1. CASE AcceptFails \/ Signal \/ Join \/ UNCHANGED vars
  <2>1. UNCHANGED <<at, stmt, beside, current_user, last_error, affected_rows, last_plan>>
    BY <1>1 DEF AcceptFails, Signal, Join, vars, statement, engine
  <2> QED BY <2>1, OutsideEngine
<1>2. ASSUME NEW c \in Clients,
             Accept(c) \/ Authenticate(c) \/ EndSession(c) \/ CloseTest(c) \/ CloseRefused(c) \/ CloseEnd(c)
      PROVE  EngineInv'
  <2>1. UNCHANGED <<stmt, beside, current_user, last_error, affected_rows, last_plan>>
    BY <1>2 DEF Accept, Authenticate, EndSession, CloseTest, CloseRefused, CloseEnd, statement, engine
  <2>2. PICK to \in SessionPoints : at' = [at EXCEPT ![c] = to]
    BY <1>2 DEF Accept, Authenticate, TestStopped, EndSession, CloseTest, CloseRefused, CloseEnd, Move,
       SessionPoints
  <2>3. to \notin QueryPoints
    BY <2>2 DEF SessionPoints, QueryPoints
  <2>4. \A d \in Clients : InQuery(d)' => at'[d] = at[d]
    BY <1>0, <2>2, <2>3 DEF InQuery
  <2> QED BY <2>1, <2>4, OutsideEngine
<1>3. ASSUME NEW c \in Clients, Reply(c)
      PROVE  EngineInv'
  <2>0. PICK to \in {"ready", "return"} : at' = [at EXCEPT ![c] = to]
    BY <1>3 DEF Reply, TestStopped, Move
  <2>1. UNCHANGED <<current_user, last_error, affected_rows, last_plan>>
        /\ \A d \in Clients \ {c} : stmt'[d] = stmt[d] /\ beside'[d] = beside[d]
    BY <1>3 DEF Reply, engine, Types
  <2>2. \A d \in Clients : InQuery(d)' => d # c
    BY <1>0, <2>0 DEF InQuery, QueryPoints
  <2>3. \A d \in Clients \ {c} : at'[d] = at[d]
    BY <1>0, <2>0
  <2> QED BY <2>1, <2>2, <2>3, OutsideEngine
<1>4. ASSUME NEW w \in Workers, Start(w)
      PROVE  EngineInv'
  <2>1. UNCHANGED <<stmt, beside, current_user, last_error, affected_rows, last_plan>>
        /\ at' = [at EXCEPT ![Head(queue)] = "auth"]
    BY <1>4 DEF Start, Move, statement, engine
  <2>2. \A d \in Clients : InQuery(d)' => at'[d] = at[d]
    BY <1>0, <2>1 DEF InQuery, QueryPoints
  <2> QED BY <2>1, <2>2, OutsideEngine
<1> QED BY <1>1, <1>2, <1>3, <1>4, StatementEngine, SetUserEngine DEF Next, Serve

\* execution_engine.cpp keeps current_user_, last_error_, affected_rows_ and last_plan_ in
\* one object for all sessions: whatever statements ran before, a statement is checked with
\* the rights of its own user or of one whose statement ran beside it, an error it reports
\* is theirs, and so are the affected rows and the plan a planned statement replies from.
THEOREM StatementCorrect == Spec => []StatementSeesItself
<1>1. Init => EngineInv
  BY DEF Init, EngineInv, InQuery, QueryPoints
<1>2. HandlerInv /\ EngineInv /\ [Next]_vars => EngineInv'
  BY NextEngine DEF HandlerInv
<1>3. EngineInv => StatementSeesItself
  BY DEF EngineInv, StatementInv, StatementSeesItself
<1> QED BY <1>1, <1>2, <1>3, HandlersHold, PTL DEF Spec

-----------------------------------------------------------------------------
(* The sockets. *)

\* Where a session has an open connection, unless it was stopped.
Talking == {"auth", "ready", "refused"} \cup QueryPoints

\* Counting the open connections.
LEMMA OpenFinite == IsFiniteSet(OpenOnes)
BY ServerAssumption, FS_Subset DEF OpenOnes

\* The victim of a KILL is a connection in session, and no other KILL has it.
LEMMA VictimInSession ==
    ASSUME HandlerInv, KillInv, NEW k \in Clients, Killing(k)
    PROVE  /\ Victim(k) \in Clients /\ at[Victim(k)] \in InSession
           /\ target[k] \in Workers /\ serving[target[k]] = Victim(k)
           /\ \A l \in Clients : Killing(l) /\ Victim(l) = Victim(k) => l = k
<1>1. target[k] \in Workers /\ Victim(k) # Nobody
  BY DEF HandlerInv, RegistryInv, KillInv
<1>2. Victim(k) \in Clients /\ at[Victim(k)] \in InSession
  BY <1>1 DEF HandlerInv, Types, ServingInv, Victim
<1>3. ASSUME NEW l \in Clients, Killing(l), Victim(l) = Victim(k)
      PROVE  l = k
  <2>1. target[l] \in Workers /\ serving[target[l]] = serving[target[k]] /\ serving[target[l]] # Nobody
    BY <1>1, <1>3 DEF HandlerInv, RegistryInv, Victim
  <2>2. target[l] = target[k]
    BY <2>1, <1>1 DEF HandlerInv, ServingInv
  <2> QED BY <1>3, <2>2 DEF KillInv
<1> QED BY <1>1, <1>2, <1>3 DEF Victim

\* A session that goes on, with its connection left alone.
LEMMA PlainMove ==
    ASSUME HandlerInv, NumbersInv, KillInv, CountInv, NEW c \in Clients,
           NEW to \in SessionPoints \cup QueryPoints,
           at[c] \in InSession, at' = [at EXCEPT ![c] = to],
           UNCHANGED <<fd, proto_fd, closing_fd, fd_owner, active, stopped, serving>>,
           \A d \in Clients : registry'[d] \in {registry[d], Nobody},
           \A d \in Clients \ {c} : target'[d] = target[d],
           to \notin {"away", "queued", "kill", "kill_close", "refused_close", "closing"},
           to \in Talking => at[c] \in Talking
    PROVE  NumbersInv' /\ KillInv' /\ CountInv'
<1>0. /\ \A d \in Clients : at'[d] = IF d = c THEN to ELSE at[d]
      /\ at[c] \notin {"away", "queued"}
  BY DEF HandlerInv, Types, InSession, QueryPoints
<1>1. NumbersInv'
  <2>1. \A d \in Clients : at'[d] \in Talking => at[d] \in Talking
    BY <1>0
  <2>2. \A d \in Clients : at'[d] \in {"away", "queued", "refused_close", "closing"} => at'[d] = at[d]
    BY <1>0
  <2> QED BY <2>1, <2>2 DEF NumbersInv, Talking
<1>2. KillInv'
  <2>1. \A k \in Clients : Killing(k)' => k # c /\ Killing(k) /\ at'[k] = at[k]
    BY <1>0 DEF Killing
  <2>2. \A k \in Clients : Killing(k)' => Victim(k)' = Victim(k) /\ target'[k] = target[k]
    BY <2>1 DEF Victim
  <2>3. ASSUME NEW k \in Clients, Killing(k)'
        PROVE  /\ Victim(k)' # Nobody /\ registry'[Victim(k)'] = Nobody /\ at'[Victim(k)'] # "closing"
               /\ at'[k] = "kill_close" => /\ at'[Victim(k)'] # "refused_close"
                                           /\ stopped'[Victim(k)']
                                           /\ closing_fd'[k] = fd'[Victim(k)']
    <3>1. Killing(k) /\ at'[k] = at[k] /\ Victim(k)' = Victim(k)
      BY <2>1, <2>2, <2>3
    <3>2. Victim(k) \in Clients
      BY <3>1, VictimInSession
    <3> QED BY <3>1, <3>2, <1>0 DEF KillInv
  <2>4. \A k, l \in Clients : Killing(k)' /\ Killing(l)' /\ target'[k] = target'[l] => k = l
    BY <2>1, <2>2 DEF KillInv
  <2>5. \A k \in Clients : at'[k] = "kill_close" => Killing(k)'
    BY DEF Killing
  <2> QED BY <2>3, <2>4, <2>5 DEF KillInv
<1>3. CountInv'
  <2>1. OpenOnes' = OpenOnes
    BY <1>0 DEF OpenOnes
  <2> QED BY <2>1 DEF CountInv
<1> QED BY <1>1, <1>2, <1>3

\* What Close does to a connection whose number it has just seen.
LEMMA CloseEffect ==
    ASSUME HandlerInv, NumbersInv, CountInv, NEW c \in Clients, NEW a \in Clients, NEW to,
           at[c] \in InSession, at[a] \in InSession, to \notin {"away", "queued"},
           at' = [at EXCEPT ![a] = to],
           CloseFd(c, fd[c])
    PROVE  /\ \A d \in Clients : fd'[d] = IF d = c THEN 0 ELSE fd[d]
           /\ \A d \in Clients : fd'[d] # 0 => fd_owner'[fd'[d]] = d
           /\ CountInv'
<1>0. /\ fd \in [Clients -> Fds \cup {0}] /\ fd_owner \in [Fds -> Clients \cup {Nobody}]
      /\ \A d \in Clients : at'[d] = IF d = a THEN to ELSE at[d]
      /\ at[c] \notin {"away", "queued"} /\ at[a] \notin {"away", "queued"}
  BY DEF HandlerInv, Types, InSession, QueryPoints
<1>1. CASE fd[c] = 0
  <2>1. fd' = fd /\ fd_owner' = fd_owner /\ active' = active
    BY <1>1 DEF CloseFd
  <2>2. OpenOnes' = OpenOnes
    BY <1>0, <2>1 DEF OpenOnes
  <2> QED BY <1>0, <1>1, <2>1, <2>2 DEF NumbersInv, CountInv
<1>2. CASE fd[c] # 0
  <2>1. /\ fd' = [fd EXCEPT ![c] = 0] /\ active' = active - 1
        /\ fd_owner' = [fd_owner EXCEPT ![fd[c]] = Nobody]
    BY <1>2 DEF CloseFd
  <2>2. \A d \in Clients : fd'[d] = IF d = c THEN 0 ELSE fd[d]
    BY <1>0, <2>1
  <2>3. ASSUME NEW d \in Clients, fd'[d] # 0
        PROVE  fd_owner'[fd'[d]] = d
    <3>1. d # c /\ fd'[d] = fd[d] /\ fd_owner[fd[d]] = d /\ fd_owner[fd[c]] = c
      BY <1>2, <2>2, <2>3 DEF NumbersInv
    <3>2. fd[d] # fd[c] /\ fd[d] \in Fds
      BY <1>0, <2>3, <3>1
    <3> QED BY <1>0, <2>1, <3>1, <3>2
  <2>4. OpenOnes' = OpenOnes \ {c} /\ c \in OpenOnes
    BY <1>0, <1>2, <2>2 DEF OpenOnes
  <2>5. Cardinality(OpenOnes \ {c}) = Cardinality(OpenOnes) - 1
    BY <2>4, OpenFinite, FS_RemoveElement
  <2>6. CountInv'
    BY <2>1, <2>4, <2>5 DEF CountInv
  <2> QED BY <2>2, <2>3, <2>6
<1> QED BY <1>1, <1>2

\* A connection is accepted on a number that was nobody's.
LEMMA AcceptSockets ==
    ASSUME HandlerInv, SocketsInv, NEW c \in Clients, Accept(c)
    PROVE  SocketsInv'
<1>0. /\ fd \in [Clients -> Fds \cup {0}] /\ fd_owner \in [Fds -> Clients \cup {Nobody}]
      /\ at \in [Clients -> SessionPoints \cup QueryPoints]
      /\ NumbersInv /\ KillInv /\ CountInv
  BY DEF HandlerInv, Types, SocketsInv
<1>1. PICK f \in Fds : /\ fd_owner[f] = Nobody
                       /\ fd_owner' = [fd_owner EXCEPT ![f] = c]
                       /\ fd' = [fd EXCEPT ![c] = f]
  BY DEF Accept
<1>2. /\ at[c] = "away" /\ at' = [at EXCEPT ![c] = "queued"]
      /\ UNCHANGED <<serving, registry, stopped, target, proto_fd, closing_fd, active>>
  BY DEF Accept, Move, handlers, statement
<1>3. f # 0 /\ c # Nobody
  BY ZeroIsNoFd, ServerAssumption
<1>4. \A d \in Clients : at'[d] = (IF d = c THEN "queued" ELSE at[d]) /\ fd'[d] = (IF d = c THEN f ELSE fd[d])
  BY <1>0, <1>1, <1>2
<1>5. NumbersInv'
  <2>1. ASSUME NEW d \in Clients, fd'[d] # 0
        PROVE  fd_owner'[fd'[d]] = d
    <3>1. CASE d = c
      BY <3>1, <1>0, <1>1, <1>4
    <3>2. CASE d # c
      <4>1. fd'[d] = fd[d] /\ fd[d] \in Fds /\ fd_owner[fd[d]] = d /\ d # Nobody
        BY <2>1, <3>2, <1>0, <1>4, ServerAssumption DEF NumbersInv
      <4>2. fd[d] # f
        BY <4>1, <1>1
      <4> QED BY <4>1, <4>2, <1>0, <1>1
    <3> QED BY <3>1, <3>2
  <2>2. "queued" \notin Talking
    BY DEF Talking, QueryPoints
  <2> QED BY <2>1, <2>2, <1>0, <1>2, <1>3, <1>4 DEF NumbersInv, Talking
<1>6. KillInv'
  <2>1. \A k \in Clients : Killing(k)' => k # c /\ Killing(k) /\ at'[k] = at[k] /\ Victim(k)' = Victim(k)
    BY <1>2, <1>4 DEF Killing, Victim
  <2>2. \A k \in Clients : Killing(k) => Victim(k) \in Clients /\ Victim(k) # c
    BY <1>0, <1>2, VictimInSession DEF InSession, QueryPoints
  <2>3. \A k \in Clients : at'[k] = "kill_close" => Killing(k)'
    BY DEF Killing
  <2> QED BY <2>1, <2>2, <2>3, <1>0, <1>2, <1>4 DEF KillInv
<1>7. CountInv'
  <2>1. fd[c] = 0
    BY <1>0, <1>2 DEF NumbersInv
  <2>2. OpenOnes' = OpenOnes
    BY <2>1, <1>4 DEF OpenOnes
  <2> QED BY <2>2, <1>0, <1>2 DEF CountInv
<1> QED BY <1>5, <1>6, <1>7 DEF SocketsInv

\* A worker takes a connection: it is counted, and its protocol copies the number.
LEMMA StartSockets ==
    ASSUME HandlerInv, SocketsInv, NEW w \in Workers, Start(w)
    PROVE  SocketsInv'
<1> DEFINE c == Head(queue)
<1>0. /\ fd \in [Clients -> Fds \cup {0}] /\ at \in [Clients -> SessionPoints \cup QueryPoints]
      /\ queue \in Seq(Clients) /\ NumbersInv /\ KillInv /\ CountInv
      /\ proto_fd \in [Clients -> Fds \cup {0}] /\ serving \in [Workers -> Clients \cup {Nobody}]
      /\ registry \in [Clients -> Workers \cup {Nobody}]
  BY DEF HandlerInv, QueueInv, Types, SocketsInv
<1>1. /\ serving[w] = Nobody /\ queue # <<>>
      /\ serving' = [serving EXCEPT ![w] = c]
      /\ registry' = [registry EXCEPT ![c] = w]
      /\ proto_fd' = [proto_fd EXCEPT ![c] = fd[c]]
      /\ at' = [at EXCEPT ![c] = "auth"]
      /\ active' = active + 1
      /\ UNCHANGED <<stopped, target, fd, closing_fd, fd_owner>>
  BY DEF Start, Move, statement
<1>2. c = queue[1] /\ c \in Clients /\ 1 \in 1 .. Len(queue)
  BY <1>0, <1>1
<1>3. at[c] = "queued" /\ fd[c] # 0
  BY <1>0, <1>2 DEF HandlerInv, QueueInv, NumbersInv
<1> HIDE DEF c
<1>4. \A d \in Clients : /\ at'[d] = IF d = c THEN "auth" ELSE at[d]
                         /\ proto_fd'[d] = IF d = c THEN fd[d] ELSE proto_fd[d]
  BY <1>0, <1>1, <1>2
<1>5. NumbersInv'
  BY <1>0, <1>1, <1>3, <1>4 DEF NumbersInv
<1>6. KillInv'
  <2>1. \A k \in Clients : Killing(k)' => k # c /\ Killing(k) /\ at'[k] = at[k]
    BY <1>4 DEF Killing
  <2>2. \A k \in Clients : Killing(k) => /\ Victim(k) \in Clients /\ Victim(k) # c
                                         /\ target[k] \in Workers /\ target[k] # w
    <3> SUFFICES ASSUME NEW k \in Clients, Killing(k)
                 PROVE  /\ Victim(k) \in Clients /\ Victim(k) # c
                        /\ target[k] \in Workers /\ target[k] # w
      OBVIOUS
    <3>1. Victim(k) \in Clients /\ at[Victim(k)] \in InSession /\ target[k] \in Workers
          /\ serving[target[k]] = Victim(k)
      BY <1>0, VictimInSession
    <3>2. Victim(k) # c
      BY <3>1, <1>3 DEF InSession, QueryPoints
    <3> QED BY <3>1, <3>2, <1>1, ServerAssumption
  <2>3. \A k \in Clients : Killing(k)' => Victim(k)' = Victim(k)
    BY <2>1, <2>2, <1>0, <1>1 DEF Victim
  <2>4. \A k \in Clients : at'[k] = "kill_close" => Killing(k)'
    BY DEF Killing
  <2>5. \A d \in Clients \ {c} : registry'[d] = registry[d]
    BY <1>0, <1>1
  <2> QED BY <2>1, <2>2, <2>3, <2>4, <2>5, <1>0, <1>1, <1>4 DEF KillInv
<1>7. CountInv'
  <2>1. OpenOnes' = OpenOnes \cup {c} /\ c \notin OpenOnes
    BY <1>1, <1>2, <1>3, <1>4 DEF OpenOnes
  <2>2. Cardinality(OpenOnes \cup {c}) = Cardinality(OpenOnes) + 1
    BY <2>1, OpenFinite, FS_AddElement
  <2> QED BY <2>1, <2>2, <1>0, <1>1 DEF CountInv
<1> QED BY <1>5, <1>6, <1>7 DEF SocketsInv

\* A session that is about to close, and that no KILL holds, has seen its own number.
LEMMA CloseTestSockets ==
    ASSUME HandlerInv, SocketsInv, NEW c \in Clients, CloseTest(c), ~raced'
    PROVE  SocketsInv'
<1> DEFINE to == IF at[c] = "refused" THEN "refused_close" ELSE "closing"
<1>0. /\ at \in [Clients -> SessionPoints \cup QueryPoints]
      /\ closing_fd \in [Clients -> Fds \cup {0}] /\ NumbersInv /\ KillInv /\ CountInv
  BY DEF HandlerInv, Types, SocketsInv
<1>1. /\ at[c] \in {"refused", "close"} /\ at' = [at EXCEPT ![c] = to]
      /\ closing_fd' = [closing_fd EXCEPT ![c] = fd[c]]
      /\ UNCHANGED <<serving, registry, stopped, target, fd, proto_fd, fd_owner, active>>
  BY DEF CloseTest, Move, handlers, statement
<1>2. \A k \in Clients : ~(at[k] \in {"kill", "kill_close"} /\ target[k] = WorkerOf(c))
  BY DEF CloseTest
<1>3. at[c] \in InSession /\ to \in {"refused_close", "closing"}
  BY <1>1 DEF InSession
<1> HIDE DEF to
<1>4. \A d \in Clients : /\ at'[d] = IF d = c THEN to ELSE at[d]
                         /\ closing_fd'[d] = IF d = c THEN fd[c] ELSE closing_fd[d]
  BY <1>0, <1>1
<1>5. NumbersInv'
  <2>1. to \notin {"away", "queued"} \cup Talking
    BY <1>3 DEF Talking, QueryPoints
  <2> QED BY <2>1, <1>0, <1>1, <1>3, <1>4 DEF NumbersInv, Talking
<1>6. KillInv'
  <2>1. \A k \in Clients : Killing(k)' => /\ k # c /\ Killing(k) /\ at'[k] = at[k]
                                          /\ Victim(k)' = Victim(k) /\ closing_fd'[k] = closing_fd[k]
    BY <1>1, <1>3, <1>4 DEF Killing, Victim
  <2>2. \A k \in Clients : Killing(k) => Victim(k) \in Clients /\ Victim(k) # c
    <3> SUFFICES ASSUME NEW k \in Clients, Killing(k)
                 PROVE  Victim(k) \in Clients /\ Victim(k) # c
      OBVIOUS
    <3>1. Victim(k) \in Clients /\ target[k] \in Workers /\ serving[target[k]] = Victim(k)
      BY <1>0, VictimInSession
    <3>2. target[k] # WorkerOf(c)
      BY <1>2 DEF Killing
    <3> QED BY <3>1, <3>2, <1>3, WorkerOfSession
  <2>3. \A k \in Clients : at'[k] = "kill_close" => Killing(k)'
    BY DEF Killing
  <2> QED BY <2>1, <2>2, <2>3, <1>0, <1>1, <1>4 DEF KillInv
<1>7. CountInv'
  <2>1. OpenOnes' = OpenOnes
    BY <1>1, <1>3, <1>4 DEF OpenOnes
  <2> QED BY <2>1, <1>0, <1>1 DEF CountInv
<1> QED BY <1>5, <1>6, <1>7 DEF SocketsInv

\* A session closes its own connection.
LEMMA CloseSockets ==
    ASSUME HandlerInv, SocketsInv, NEW c \in Clients, CloseRefused(c) \/ CloseEnd(c)
    PROVE  SocketsInv'
<1>0. /\ at \in [Clients -> SessionPoints \cup QueryPoints]
      /\ closing_fd \in [Clients -> Fds \cup {0}] /\ NumbersInv /\ KillInv /\ CountInv
      /\ stopped \in [Clients -> BOOLEAN] /\ serving \in [Workers -> Clients \cup {Nobody}]
      /\ proto_fd \in [Clients -> Fds \cup {0}]
  BY DEF HandlerInv, Types, SocketsInv
<1>1. PICK to \in {"return", "gone"} : at' = [at EXCEPT ![c] = to]
  BY DEF CloseRefused, CloseEnd, Move
<1>2. /\ at[c] \in {"refused_close", "closing"} /\ CloseFd(c, closing_fd[c])
      /\ closing_fd' = [closing_fd EXCEPT ![c] = 0]
      /\ UNCHANGED <<registry, target>>
      /\ \A d \in Clients \ {c} : stopped'[d] = stopped[d] /\ proto_fd'[d] = proto_fd[d]
  BY <1>0 DEF CloseRefused, CloseEnd, handlers, statement
<1>3. at[c] \in InSession /\ closing_fd[c] = fd[c]
  BY <1>0, <1>2 DEF InSession, NumbersInv
<1>4. /\ \A d \in Clients : fd'[d] = IF d = c THEN 0 ELSE fd[d]
      /\ \A d \in Clients : fd'[d] # 0 => fd_owner'[fd'[d]] = d
      /\ CountInv'
  BY <1>0, <1>1, <1>2, <1>3, CloseEffect
<1>5. \A d \in Clients : /\ at'[d] = IF d = c THEN to ELSE at[d]
                         /\ closing_fd'[d] = IF d = c THEN 0 ELSE closing_fd[d]
  BY <1>0, <1>1, <1>2
<1>6. NumbersInv'
  <2>1. to \notin {"away", "queued", "refused_close", "closing"} \cup Talking
    BY <1>1 DEF Talking, QueryPoints
  <2>2. ASSUME NEW d \in Clients
        PROVE  /\ at'[d] = "away" => fd'[d] = 0
               /\ at'[d] = "queued" => fd'[d] # 0
               /\ at'[d] \in Talking /\ ~stopped'[d] => fd'[d] # 0 /\ proto_fd'[d] = fd'[d]
               /\ at'[d] \in {"refused_close", "closing"} => closing_fd'[d] = fd'[d]
    <3>1. CASE d = c
      BY <3>1, <2>1, <1>5
    <3>2. CASE d # c
      BY <3>2, <1>0, <1>2, <1>4, <1>5 DEF NumbersInv, Talking
    <3> QED BY <3>1, <3>2
  <2> QED BY <2>2, <1>4 DEF NumbersInv, Talking
<1>7. KillInv'
  <2>1. \A k \in Clients : Killing(k)' => /\ k # c /\ Killing(k) /\ at'[k] = at[k]
                                          /\ closing_fd'[k] = closing_fd[k]
    BY <1>1, <1>5 DEF Killing
  <2>2. ASSUME NEW k \in Clients, Killing(k)
        PROVE  /\ Victim(k) \in Clients /\ Victim(k)' = Victim(k)
               /\ Victim(k) = c => at[k] # "kill_close" /\ CloseRefused(c)
    <3>1. /\ Victim(k) \in Clients /\ target[k] \in Workers /\ serving[target[k]] = Victim(k)
          /\ at[Victim(k)] # "closing"
          /\ at[k] = "kill_close" => at[Victim(k)] # "refused_close"
      BY <1>0, <2>2, VictimInSession DEF KillInv
    <3>2. CASE CloseRefused(c)
      BY <3>1, <3>2, <1>2 DEF CloseRefused, handlers, statement, Victim
    <3>3. CASE CloseEnd(c)
      <4>1. at[c] = "closing" /\ serving' = [serving EXCEPT ![WorkerOf(c)] = Nobody]
        BY <3>3 DEF CloseEnd
      <4>2. WorkerOf(c) \in Workers /\ serving[WorkerOf(c)] = c
        BY <1>3, WorkerOfSession
      <4>3. target[k] # WorkerOf(c) /\ Victim(k) # c
        BY <3>1, <4>1, <4>2
      <4>4. serving'[target[k]] = serving[target[k]] /\ target'[k] = target[k]
        BY <1>0, <1>2, <3>1, <4>1, <4>3
      <4> QED BY <3>1, <4>3, <4>4 DEF Victim
    <3> QED BY <3>2, <3>3
  <2>3. ASSUME NEW k \in Clients, Killing(k)'
        PROVE  /\ Victim(k)' # Nobody /\ registry'[Victim(k)'] = Nobody /\ at'[Victim(k)'] # "closing"
               /\ at'[k] = "kill_close" => /\ at'[Victim(k)'] # "refused_close"
                                           /\ stopped'[Victim(k)']
                                           /\ closing_fd'[k] = fd'[Victim(k)']
    <3>1. Killing(k) /\ at'[k] = at[k] /\ closing_fd'[k] = closing_fd[k]
      BY <2>1, <2>3
    <3>2. /\ Victim(k) \in Clients /\ Victim(k)' = Victim(k)
          /\ Victim(k) = c => at[k] # "kill_close"
      BY <2>2, <3>1
    <3>3. /\ Victim(k) # Nobody /\ registry[Victim(k)] = Nobody /\ at[Victim(k)] # "closing"
          /\ at[k] = "kill_close" => /\ at[Victim(k)] # "refused_close"
                                     /\ stopped[Victim(k)]
                                     /\ closing_fd[k] = fd[Victim(k)]
      BY <1>0, <3>1 DEF KillInv
    <3>4. CASE Victim(k) = c
      BY <3>1, <3>2, <3>3, <3>4, <1>1, <1>2, <1>5
    <3>5. CASE Victim(k) # c
      BY <3>1, <3>2, <3>3, <3>5, <1>2, <1>4, <1>5
    <3> QED BY <3>4, <3>5
  <2>4. \A k, l \in Clients : Killing(k)' /\ Killing(l)' /\ target'[k] = target'[l] => k = l
    BY <2>1, <1>0, <1>2 DEF KillInv
  <2>5. \A k \in Clients : at'[k] = "kill_close" => Killing(k)'
    BY DEF Killing
  <2> QED BY <2>3, <2>4, <2>5 DEF KillInv
<1> QED BY <1>4, <1>6, <1>7 DEF SocketsInv

\* KILL finds a registered handler: nobody else has it as a target, for it would not be
\* registered.
LEMMA ExecuteKillSockets ==
    ASSUME HandlerInv, SocketsInv, NEW c \in Clients, NEW d \in Clients, ExecuteKill(c, d)
    PROVE  SocketsInv'
<1>0. /\ at \in [Clients -> SessionPoints \cup QueryPoints]
      /\ registry \in [Clients -> Workers \cup {Nobody}] /\ target \in [Clients -> Workers \cup {Nobody}]
      /\ NumbersInv /\ KillInv /\ CountInv
  BY DEF HandlerInv, Types, SocketsInv
<1>1. /\ at[c] = "run"
      /\ UNCHANGED <<serving, stopped, fd, proto_fd, closing_fd, fd_owner, active>>
  BY DEF ExecuteKill, sockets
<1>2. at[c] \in InSession /\ at[c] \in Talking
  BY <1>1 DEF InSession, Talking, QueryPoints
<1>3. CASE registry[d] = Nobody
  <2>1. at' = [at EXCEPT ![c] = "error"] /\ UNCHANGED <<registry, target>>
    BY <1>3 DEF ExecuteKill, Move
  <2>2. "error" \in SessionPoints \cup QueryPoints
    BY DEF QueryPoints
  <2> QED BY <1>0, <1>1, <1>2, <2>1, <2>2, PlainMove DEF SocketsInv
<1>4. CASE registry[d] # Nobody
  <2> DEFINE w == registry[d]
  <2>1. /\ target' = [target EXCEPT ![c] = w] /\ registry' = [registry EXCEPT ![d] = Nobody]
        /\ at' = [at EXCEPT ![c] = "kill"]
    BY <1>4 DEF ExecuteKill, Move
  <2>2. w \in Workers /\ serving[w] = d /\ at[d] \notin {"close", "closing"}
    BY <1>0, <1>4 DEF HandlerInv, RegistryInv
  <2>3. w # Nobody
    BY <1>4
  <2> HIDE DEF w
  <2>4. \A e \in Clients : /\ at'[e] = IF e = c THEN "kill" ELSE at[e]
                           /\ target'[e] = IF e = c THEN w ELSE target[e]
                           /\ registry'[e] = IF e = d THEN Nobody ELSE registry[e]
    BY <1>0, <2>1
  <2>5. NumbersInv'
    <3>1. "kill" \in Talking /\ "kill" \notin {"away", "queued", "refused_close", "closing"}
      BY DEF Talking, QueryPoints
    <3> QED BY <3>1, <1>0, <1>1, <1>2, <2>4 DEF NumbersInv, Talking
  <2>6. KillInv'
    <3>1. ASSUME NEW k \in Clients, k # c, Killing(k)'
          PROVE  /\ Killing(k) /\ at'[k] = at[k] /\ Victim(k)' = Victim(k) /\ target'[k] = target[k]
                 /\ target[k] # w /\ Victim(k) \in Clients
      <4>1. Killing(k) /\ at'[k] = at[k] /\ target'[k] = target[k]
        BY <3>1, <2>4 DEF Killing
      <4>2. registry[Victim(k)] = Nobody /\ Victim(k) \in Clients
        BY <4>1, <1>0, VictimInSession DEF KillInv
      <4>3. target[k] # w
        BY <4>2, <2>2, <1>4 DEF Victim
      <4> QED BY <4>1, <4>2, <4>3, <1>1 DEF Victim
    <3>2. Victim(c)' = d /\ at'[c] = "kill" /\ target'[c] = w
      BY <1>1, <2>2, <2>4 DEF Victim
    <3>3. ASSUME NEW k \in Clients, Killing(k)'
          PROVE  /\ Victim(k)' # Nobody /\ registry'[Victim(k)'] = Nobody /\ at'[Victim(k)'] # "closing"
                 /\ at'[k] = "kill_close" => /\ at'[Victim(k)'] # "refused_close"
                                             /\ stopped'[Victim(k)']
                                             /\ closing_fd'[k] = fd'[Victim(k)']
      <4>1. CASE k = c
        BY <4>1, <3>2, <2>2, <2>4, ServerAssumption
      <4>2. CASE k # c
        BY <3>1, <3>3, <4>2, <1>0, <1>1, <2>4 DEF KillInv
      <4> QED BY <4>1, <4>2
    <3>4. ASSUME NEW k \in Clients, NEW l \in Clients, Killing(k)', Killing(l)', target'[k] = target'[l]
          PROVE  k = l
      BY <3>1, <3>2, <3>4, <1>0 DEF KillInv
    <3>5. \A k \in Clients : at'[k] = "kill_close" => Killing(k)'
      BY DEF Killing
    <3> QED BY <3>3, <3>4, <3>5 DEF KillInv
  <2>7. CountInv'
    <3>1. OpenOnes' = OpenOnes
      BY <1>1, <2>4 DEF OpenOnes
    <3> QED BY <3>1, <1>0, <1>1 DEF CountInv
  <2> QED BY <2>5, <2>6, <2>7 DEF SocketsInv
<1> QED BY <1>3, <1>4

\* Stop: the session that KILL holds is stopped, and its number seen, before it closes.
LEMMA StopHandlerSockets ==
    ASSUME HandlerInv, SocketsInv, NEW c \in Clients, StopHandler(c), ~raced'
    PROVE  SocketsInv'
<1> DEFINE v == Victim(c)
<1>0. /\ at \in [Clients -> SessionPoints \cup QueryPoints]
      /\ closing_fd \in [Clients -> Fds \cup {0}] /\ stopped \in [Clients -> BOOLEAN]
      /\ NumbersInv /\ KillInv /\ CountInv
  BY DEF HandlerInv, Types, SocketsInv
<1>1. at[c] = "kill" /\ Killing(c)
  BY DEF StopHandler, Killing
<1>2. /\ v \in Clients /\ v # Nobody /\ at[v] # "closing" /\ registry[v] = Nobody
      /\ \A l \in Clients : Killing(l) /\ Victim(l) = v => l = c
  BY <1>0, <1>1, VictimInSession DEF KillInv
<1>3. /\ stopped' = [stopped EXCEPT ![v] = TRUE]
      /\ closing_fd' = [closing_fd EXCEPT ![c] = fd[v]]
      /\ at' = [at EXCEPT ![c] = "kill_close"]
      /\ at[v] # "refused_close"
      /\ UNCHANGED <<serving, registry, target, fd, proto_fd, fd_owner, active>>
  BY <1>2 DEF StopHandler, Victim, Move, statement
<1> HIDE DEF v
<1>4. \A d \in Clients : /\ at'[d] = IF d = c THEN "kill_close" ELSE at[d]
                         /\ closing_fd'[d] = IF d = c THEN fd[v] ELSE closing_fd[d]
                         /\ stopped'[d] = IF d = v THEN TRUE ELSE stopped[d]
  BY <1>0, <1>3
<1>5. NumbersInv'
  <2>1. at[c] \in Talking /\ "kill_close" \in Talking
    BY <1>1 DEF Talking, QueryPoints
  <2>2. ASSUME NEW d \in Clients
        PROVE  /\ at'[d] = "away" => fd'[d] = 0
               /\ at'[d] = "queued" => fd'[d] # 0
               /\ fd'[d] # 0 => fd_owner'[fd'[d]] = d
               /\ at'[d] \in Talking /\ ~stopped'[d] => fd'[d] # 0 /\ proto_fd'[d] = fd'[d]
               /\ at'[d] \in {"refused_close", "closing"} => closing_fd'[d] = fd'[d]
    <3>1. ~stopped'[d] => ~stopped[d]
      BY <1>4
    <3>2. at'[d] \in Talking => at[d] \in Talking
      BY <1>4, <2>1
    <3> QED BY <3>1, <3>2, <1>0, <1>3, <1>4 DEF NumbersInv, Talking
  <2> QED BY <2>2 DEF NumbersInv, Talking
<1>6. KillInv'
  <2>1. \A k \in Clients : Killing(k)' <=> Killing(k)
    BY <1>1, <1>4 DEF Killing
  <2>2. \A k \in Clients : Victim(k)' = Victim(k)
    BY <1>3 DEF Victim
  <2>3. ASSUME NEW k \in Clients, Killing(k)'
        PROVE  /\ Victim(k)' # Nobody /\ registry'[Victim(k)'] = Nobody /\ at'[Victim(k)'] # "closing"
               /\ at'[k] = "kill_close" => /\ at'[Victim(k)'] # "refused_close"
                                           /\ stopped'[Victim(k)']
                                           /\ closing_fd'[k] = fd'[Victim(k)']
    <3>1. Killing(k) /\ Victim(k) \in Clients /\ Victim(k)' = Victim(k)
      BY <1>0, <2>1, <2>2, <2>3, VictimInSession
    <3>2. CASE k = c
      <4>1. Victim(k)' = v
        BY <3>1, <3>2 DEF v
      <4>2. stopped'[v]
        BY <1>0, <1>2, <1>3
      <4>3. closing_fd'[c] = fd'[v]
        BY <1>0, <1>3
      <4>4. at'[v] = "kill_close" \/ at'[v] = at[v]
        BY <1>0, <1>2, <1>3
      <4> QED BY <3>2, <4>1, <4>2, <4>3, <4>4, <1>2, <1>3
    <3>3. CASE k # c
      <4>1. Victim(k) # v
        BY <3>1, <3>3, <1>2
      <4> QED BY <3>1, <3>3, <4>1, <1>0, <1>3, <1>4 DEF KillInv
    <3> QED BY <3>2, <3>3
  <2>4. \A k, l \in Clients : Killing(k)' /\ Killing(l)' /\ target'[k] = target'[l] => k = l
    BY <2>1, <1>0, <1>3 DEF KillInv
  <2>5. \A k \in Clients : at'[k] = "kill_close" => Killing(k)'
    BY DEF Killing
  <2> QED BY <2>3, <2>4, <2>5 DEF KillInv
<1>7. CountInv'
  <2>1. OpenOnes' = OpenOnes
    BY <1>1, <1>3, <1>4 DEF OpenOnes
  <2> QED BY <2>1, <1>0, <1>3 DEF CountInv
<1> QED BY <1>5, <1>6, <1>7 DEF SocketsInv

\* Stop closes the connection it has stopped, and no other.
LEMMA StopClosesSockets ==
    ASSUME HandlerInv, SocketsInv, NEW c \in Clients, StopCloses(c)
    PROVE  SocketsInv'
<1> DEFINE v == Victim(c)
<1>0. /\ at \in [Clients -> SessionPoints \cup QueryPoints]
      /\ closing_fd \in [Clients -> Fds \cup {0}]
      /\ NumbersInv /\ KillInv /\ CountInv
  BY DEF HandlerInv, Types, SocketsInv
<1>1. at[c] = "kill_close" /\ Killing(c) /\ at[c] \in InSession
  BY DEF StopCloses, Killing, InSession, QueryPoints
<1>2. /\ v \in Clients /\ v # Nobody /\ at[v] \in InSession
      /\ at[v] \notin {"closing", "refused_close"} /\ stopped[v] /\ closing_fd[c] = fd[v]
      /\ \A l \in Clients : Killing(l) /\ Victim(l) = v => l = c
  BY <1>0, <1>1, VictimInSession DEF KillInv
<1>3. /\ CloseFd(v, closing_fd[c])
      /\ closing_fd' = [closing_fd EXCEPT ![c] = 0]
      /\ at' = [at EXCEPT ![c] = "reply"]
      /\ UNCHANGED <<serving, registry, stopped, target, proto_fd>>
  BY <1>2 DEF StopCloses, Victim, Move, handlers, statement
<1> HIDE DEF v
<1>4. /\ \A d \in Clients : fd'[d] = IF d = v THEN 0 ELSE fd[d]
      /\ \A d \in Clients : fd'[d] # 0 => fd_owner'[fd'[d]] = d
      /\ CountInv'
  BY <1>0, <1>1, <1>2, <1>3, CloseEffect
<1>5. \A d \in Clients : /\ at'[d] = IF d = c THEN "reply" ELSE at[d]
                         /\ closing_fd'[d] = IF d = c THEN 0 ELSE closing_fd[d]
  BY <1>0, <1>3
<1>6. NumbersInv'
  <2>1. at[c] \in Talking /\ "reply" \in Talking /\ at[v] \notin {"away", "queued"}
    BY <1>1, <1>2 DEF Talking, QueryPoints, InSession
  <2>2. ASSUME NEW d \in Clients
        PROVE  /\ at'[d] = "away" => fd'[d] = 0
               /\ at'[d] = "queued" => fd'[d] # 0
               /\ at'[d] \in Talking /\ ~stopped'[d] => fd'[d] # 0 /\ proto_fd'[d] = fd'[d]
               /\ at'[d] \in {"refused_close", "closing"} => closing_fd'[d] = fd'[d]
    <3>1. at'[d] \in Talking => at[d] \in Talking
      BY <1>5, <2>1
    <3>2. CASE d = v
      BY <3>1, <3>2, <1>2, <1>3, <1>4, <1>5, <2>1
    <3>3. CASE d # v
      BY <3>1, <3>3, <1>0, <1>3, <1>4, <1>5 DEF NumbersInv, Talking
    <3> QED BY <3>2, <3>3
  <2> QED BY <2>2, <1>4 DEF NumbersInv, Talking
<1>7. KillInv'
  <2>1. \A k \in Clients : Killing(k)' => k # c /\ Killing(k) /\ at'[k] = at[k]
    BY <1>5 DEF Killing
  <2>2. \A k \in Clients : Victim(k)' = Victim(k)
    BY <1>3 DEF Victim
  <2>3. ASSUME NEW k \in Clients, Killing(k)'
        PROVE  /\ Victim(k)' # Nobody /\ registry'[Victim(k)'] = Nobody /\ at'[Victim(k)'] # "closing"
               /\ at'[k] = "kill_close" => /\ at'[Victim(k)'] # "refused_close"
                                           /\ stopped'[Victim(k)']
                                           /\ closing_fd'[k] = fd'[Victim(k)']
    <3>1. k # c /\ Killing(k) /\ Victim(k) \in Clients /\ Victim(k)' = Victim(k) /\ Victim(k) # v
      BY <1>0, <1>2, <2>1, <2>2, <2>3, VictimInSession
    <3> QED BY <3>1, <1>0, <1>3, <1>4, <1>5 DEF KillInv
  <2>4. \A k, l \in Clients : Killing(k)' /\ Killing(l)' /\ target'[k] = target'[l] => k = l
    BY <2>1, <1>0, <1>3 DEF KillInv
  <2>5. \A k \in Clients : at'[k] = "kill_close" => Killing(k)'
    BY DEF Killing
  <2> QED BY <2>3, <2>4, <2>5 DEF KillInv
<1> QED BY <1>4, <1>6, <1>7 DEF SocketsInv

\* The other steps of a session leave its connection alone.
LEMMA PlainSockets ==
    ASSUME HandlerInv, SocketsInv, NEW c \in Clients,
           \/ Authenticate(c) \/ EndSession(c) \/ \E kind \in Kinds : SetUser(c, kind)
           \/ Check(c) \/ Fails(c) \/ ExecutePlan(c) \/ KeepPlan(c) \/ ExecuteShutdown(c)
           \/ Reply(c)
    PROVE  SocketsInv'
<1>0. /\ registry \in [Clients -> Workers \cup {Nobody}] /\ target \in [Clients -> Workers \cup {Nobody}]
      /\ NumbersInv /\ KillInv /\ CountInv
  BY DEF HandlerInv, Types, SocketsInv
<1>1. UNCHANGED <<fd, proto_fd, closing_fd, fd_owner, active, stopped, serving>>
  BY DEF Authenticate, EndSession, SetUser, Check, Fails, ExecutePlan, KeepPlan, ExecuteShutdown,
     Reply, sockets, handlers
<1>2. \A d \in Clients : registry'[d] \in {registry[d], Nobody}
  BY <1>0 DEF Authenticate, EndSession, SetUser, Check, Fails, ExecutePlan, KeepPlan, ExecuteShutdown,
     Reply, handlers
<1>3. \A d \in Clients \ {c} : target'[d] = target[d]
  BY <1>0 DEF Authenticate, EndSession, SetUser, Check, Fails, ExecutePlan, KeepPlan, ExecuteShutdown,
     Reply, statement
<1>4. PICK to \in {"ready", "return", "refused", "close", "user", "run", "error", "plan", "reply"} :
        at' = [at EXCEPT ![c] = to] /\ (to # "close" => at[c] \in Talking)
  BY DEF Authenticate, EndSession, SetUser, Check, Fails, ExecutePlan, KeepPlan, ExecuteShutdown,
     Reply, TestStopped, Move, Talking, QueryPoints
<1>5. at[c] \in InSession
  BY DEF Authenticate, EndSession, SetUser, Check, Fails, ExecutePlan, KeepPlan, ExecuteShutdown,
     Reply, InSession, QueryPoints
<1>6. /\ to \in SessionPoints \cup QueryPoints
      /\ to \notin {"away", "queued", "kill", "kill_close", "refused_close", "closing"}
      /\ to \in Talking => at[c] \in Talking
  BY <1>4 DEF SessionPoints, QueryPoints, Talking
<1> QED BY <1>0, <1>1, <1>2, <1>3, <1>4, <1>5, <1>6, PlainMove DEF SocketsInv

\* Every step keeps the sockets right, unless it is one in which a KILL meets a session
\* that is ending.
LEMMA NextSockets ==
    HandlerInv /\ (~raced => SocketsInv) /\ [Next]_vars => (~raced => SocketsInv)'
<1> SUFFICES ASSUME HandlerInv, ~raced => SocketsInv, [Next]_vars, ~raced'
             PROVE  SocketsInv'
  OBVIOUS
<1>0. ~raced
  BY DEF Next, Serve, vars, AcceptFails, Signal, Join, Accept, Start, Authenticate, EndSession,
     CloseTest, CloseRefused, CloseEnd, SetUser, Check, Fails, ExecutePlan, KeepPlan,
     ExecuteShutdown, ExecuteKill, StopHandler, StopCloses, Reply
<1>1. CASE AcceptFails \/ Signal \/ Join \/ UNCHANGED vars
  <2>1. UNCHANGED <<serving, registry, stopped, at, target, fd, proto_fd, closing_fd, fd_owner, active>>
    BY <1>1 DEF AcceptFails, Signal, Join, vars, handlers, statement, sockets
  <2> QED BY <1>0, <2>1 DEF SocketsInv, NumbersInv, KillInv, CountInv, OpenOnes, Killing, Victim
<1> QED BY <1>0, <1>1, AcceptSockets, StartSockets, CloseTestSockets, CloseSockets,
           ExecuteKillSockets, StopHandlerSockets, StopClosesSockets, PlainSockets DEF Next, Serve

\* No connection is open at first.
LEMMA InitSockets == Init => SocketsInv
<1> SUFFICES ASSUME Init
             PROVE  SocketsInv
  OBVIOUS
<1>1. NumbersInv
  BY DEF Init, NumbersInv, QueryPoints
<1>2. KillInv
  BY DEF Init, KillInv, Killing
<1>3. CountInv
  <2>1. OpenOnes = {}
    BY DEF Init, OpenOnes
  <2> QED BY <2>1, FS_EmptySet DEF Init, CountInv
<1> QED BY <1>1, <1>2, <1>3 DEF SocketsInv

\* connection.cpp and connection_handler.cpp, for any number of clients and workers: as long
\* as no KILL meets a session that is ending, active_connections_ is the number of open
\* connections and a reply goes to the socket of its own client.
THEOREM SocketsCorrect == Spec => []SocketsAreSound
<1>1. HandlerInv /\ (~raced => SocketsInv) => SocketsAreSound
  <2> SUFFICES ASSUME HandlerInv, ~raced => SocketsInv
               PROVE  SocketsAreSound
    OBVIOUS
  <2>1. ActiveCountsOpen
    BY DEF ActiveCountsOpen, SocketsInv, CountInv, OpenOnes
  <2>2. TypeOK
    <3>1. active \in (IF raced THEN Int ELSE Nat)
      <4>1. ~raced => active \in Nat
        BY OpenFinite, FS_CardinalityType DEF SocketsInv, CountInv
      <4> QED BY <4>1 DEF HandlerInv, Types
    <3>2. \A i \in DOMAIN queue : at[queue[i]] = "queued"
      <4>1. DOMAIN queue = 1 .. Len(queue)
        BY DEF HandlerInv, QueueInv
      <4> QED BY <4>1 DEF HandlerInv, QueueInv
    <3>3. \A f \in {fd, proto_fd, closing_fd} : f \in [Clients -> Fds \cup {0}]
      BY DEF HandlerInv, Types
    <3>4. {current_user, last_error, affected_rows, last_plan} \subseteq Clients \cup {Nobody}
      BY DEF HandlerInv, Types
    <3> QED BY <3>1, <3>2, <3>3, <3>4 DEF HandlerInv, Types, TypeOK
  <2>3. RepliesReachTheirClient
    BY DEF RepliesReachTheirClient, SocketsInv, NumbersInv, QueryPoints
  <2> QED BY <2>1, <2>2, <2>3 DEF SocketsAreSound
<1>2. Init => (~raced => SocketsInv)
  BY InitSockets
<1> QED BY <1>1, <1>2, NextSockets, HandlersHold, PTL DEF Spec
=============================================================================
