-------------------------------- MODULE Server --------------------------------
(***************************************************************************)
(* The server process: the accept loop of goods_db_main.cpp, the workers   *)
(* of the thread pool (module ThreadPool has the pool itself), one         *)
(* ConnectionHandler per connection, and the one ExecutionEngine that all  *)
(* handlers share without a lock.                                          *)
(*                                                                         *)
(* A connection occupies a worker from the handshake to its end.  The      *)
(* handler is an object on the worker's stack, so a pointer to it stays    *)
(* the address of whatever handler that worker runs next.                  *)
(*                                                                         *)
(* The engine's members are modelled by the client whose statement wrote   *)
(* them last: current_user_, last_error_, affected_rows_, and last_plan_,  *)
(* which owns the schema the reply is written from.  File descriptors are  *)
(* numbers the kernel hands out again, lowest first; a Protocol keeps its  *)
(* own copy of the number (connection_handler.cpp:74).                     *)
(***************************************************************************)
EXTENDS Integers, Sequences, FiniteSets

CONSTANTS Clients,        \* each connects once
          Workers,        \* threads of the pool
          Admins,         \* clients whose user passes CheckAdminAccess
          Readers,        \* clients whose user passes CheckPrivilegeForStatement
          MaxStatements,  \* bound: statements of all clients together
          Nobody          \* no client, no worker

ASSUME ServerAssumption ==
    /\ IsFiniteSet(Clients)
    /\ Admins \subseteq Clients /\ Readers \subseteq Clients
    /\ MaxStatements \in Nat
    /\ Nobody \notin Clients /\ Nobody \notin Workers

VARIABLES server_running,  \* server_running
          main,            \* where the main thread is
          queue,           \* accepted connections in task_queue_
          serving,         \* the connection each worker runs
          registry,        \* g_connection_registry: the worker of each registered handler
          stopped,         \* running_ = false
          at,              \* where each connection is
          stmt,            \* the statement of each connection
          target,          \* ExecuteKill: the worker on whose stack target lies
          fd,              \* fd_ of each Connection, 0 for -1
          proto_fd,        \* fd_ of each Protocol
          closing_fd,      \* the number a thread is about to close
          fd_owner,        \* the kernel: whose socket each number is
          active,          \* active_connections_
          current_user, last_error, affected_rows, last_plan,   \* the engine
          beside,          \* history: the clients whose statements ran beside this one
          raced,           \* history: a session closed while a KILL held its handler
          sent             \* statements so far

loop == <<server_running, main, queue>>
handlers == <<serving, registry, stopped>>
statement == <<stmt, target, sent>>
sockets == <<fd, proto_fd, closing_fd, fd_owner, active>>
engine == <<current_user, last_error, affected_rows, last_plan>>
vars == <<loop, handlers, at, statement, sockets, engine, beside, raced>>

Fds == 1 .. Cardinality(Clients)

\* A statement that goes through the planner, and the two that do not and change
\* what other sessions see
Kinds == {"data", "kill", "shutdown"}

\* Inside HandleQuery
QueryPoints == {"user", "run", "plan", "kill", "kill_close", "error", "reply"}
InQuery(c) == at[c] \in QueryPoints

WorkerOf(c) == CHOOSE w \in Workers : serving[w] = c

Init == /\ server_running = TRUE
        /\ main = "accept"
        /\ queue = <<>>
        /\ serving = [w \in Workers |-> Nobody]
        /\ registry = [c \in Clients |-> Nobody]
        /\ stopped = [c \in Clients |-> FALSE]
        /\ at = [c \in Clients |-> "away"]
        /\ stmt = [c \in Clients |-> Nobody]
        /\ target = [c \in Clients |-> Nobody]
        /\ fd = [c \in Clients |-> 0]
        /\ proto_fd = [c \in Clients |-> 0]
        /\ closing_fd = [c \in Clients |-> 0]
        /\ fd_owner = [f \in Fds |-> Nobody]
        /\ active = 0
        /\ current_user = Nobody /\ last_error = Nobody
        /\ affected_rows = Nobody /\ last_plan = Nobody
        /\ beside = [c \in Clients |-> {}]
        /\ raced = FALSE
        /\ sent = 0

Move(c, to) == at' = [at EXCEPT ![c] = to]
-----------------------------------------------------------------------------
(* The main thread *)

\* while (server_running): the test that follows an accept.  A signal between the
\* two is a signal before the accept.
TestRunning == main' = IF server_running THEN "accept" ELSE "join"

\* accept returns a connection, on the lowest free number, and it is submitted.
Accept(c) ==
    /\ main = "accept"
    /\ at[c] = "away"
    /\ \E f \in Fds :
          /\ fd_owner[f] = Nobody
          /\ \A g \in Fds : fd_owner[g] = Nobody => f <= g
          /\ fd_owner' = [fd_owner EXCEPT ![f] = c]
          /\ fd' = [fd EXCEPT ![c] = f]
    /\ queue' = Append(queue, c)
    /\ Move(c, "queued")
    /\ TestRunning
    /\ UNCHANGED <<server_running, handlers, statement, proto_fd, closing_fd, active,
                   engine, beside, raced>>

\* accept fails; a signal alone does not make it return (signal() restarts it).
AcceptFails ==
    /\ main = "accept"
    /\ TestRunning
    /\ UNCHANGED <<server_running, queue, handlers, at, statement, sockets, engine,
                   beside, raced>>

\* SIGTERM or SIGINT
Signal ==
    /\ server_running
    /\ main # "done"
    /\ server_running' = FALSE
    /\ UNCHANGED <<main, queue, handlers, at, statement, sockets, engine, beside,
                   raced>>

\* server.Close() and pool.Shutdown(), which returns when the queue is empty and
\* every worker has finished its connection.
Join ==
    /\ main = "join"
    /\ queue = <<>>
    /\ \A w \in Workers : serving[w] = Nobody
    /\ main' = "done"
    /\ UNCHANGED <<server_running, queue, handlers, at, statement, sockets, engine,
                   beside, raced>>
-----------------------------------------------------------------------------
(* A connection: ConnectionHandler::Run *)

\* Mutant: a worker takes no new connection once the server is shutting down
StartWhileRunning(w) ==
    /\ serving[w] = Nobody
    /\ queue # <<>>
    /\ server_running
    /\ LET c == Head(queue)
       IN  /\ serving' = [serving EXCEPT ![w] = c]
           /\ registry' = [registry EXCEPT ![c] = w]
           /\ proto_fd' = [proto_fd EXCEPT ![c] = fd[c]]
           /\ Move(c, "auth")
    /\ queue' = Tail(queue)
    /\ active' = active + 1
    /\ UNCHANGED <<server_running, main, stopped, statement, fd, closing_fd, fd_owner,
                   engine, beside, raced>>

\* A worker takes the connection: the constructors of Connection and
\* ConnectionHandler, then the protocol and the handshake.
Start(w) ==
    /\ serving[w] = Nobody
    /\ queue # <<>>
    /\ main # "done"
    /\ LET c == Head(queue)
       IN  /\ serving' = [serving EXCEPT ![w] = c]
           /\ registry' = [registry EXCEPT ![c] = w]
           /\ proto_fd' = [proto_fd EXCEPT ![c] = fd[c]]
           /\ Move(c, "auth")
    /\ queue' = Tail(queue)
    /\ active' = active + 1
    /\ UNCHANGED <<server_running, main, stopped, statement, fd, closing_fd, fd_owner,
                   engine, beside, raced>>

\* while (running_ && ...): the test that precedes ReadPacket.  A session that is
\* stopped after it still runs the statement it reads.
TestStopped(c) == Move(c, IF stopped[c] THEN "return" ELSE "ready")

\* HandleAuth: the client is let in or refused.
Authenticate(c) ==
    /\ at[c] = "auth"
    /\ TestStopped(c) \/ Move(c, "refused")
    /\ UNCHANGED <<loop, handlers, statement, sockets, engine, beside, raced>>

\* Mutant: the handler stays registered
EndSessionRegistered(c) ==
    /\ at[c] \in {"auth", "ready", "return"}
    /\ Move(c, "close")
    /\ UNCHANGED <<loop, handlers, statement, sockets, engine, beside, raced>>

\* A read fails, the client says QUIT, or it was refused or stopped before the loop's
\* test: Run returns, and the destructor of the handler deregisters it.
EndSession(c) ==
    /\ at[c] \in {"auth", "ready", "return"}
    /\ registry' = [registry EXCEPT ![c] = Nobody]
    /\ Move(c, "close")
    /\ UNCHANGED <<loop, serving, stopped, statement, sockets, engine, beside, raced>>

\* Connection::Close of c, which has seen f in fd_.  When fd_ has been cleared since,
\* the number that is closed may be the old one or -1.
CloseFd(c, f) ==
    IF f = 0
    THEN UNCHANGED <<fd_owner, fd, active>>
    ELSE /\ \E g \in {f, fd[c]} :
               fd_owner' = IF g = 0 THEN fd_owner ELSE [fd_owner EXCEPT ![g] = Nobody]
         /\ fd' = [fd EXCEPT ![c] = 0]
         /\ active' = active - 1

\* Close, on its own thread, tests fd_: HandleAuth after a refusal, and the destructor.
CloseTest(c) ==
    /\ at[c] \in {"refused", "close"}
    /\ closing_fd' = [closing_fd EXCEPT ![c] = fd[c]]
    /\ Move(c, IF at[c] = "refused" THEN "refused_close" ELSE "closing")
    /\ raced' = (raced \/ \E k \in Clients :
                             at[k] \in {"kill", "kill_close"} /\ target[k] = WorkerOf(c))
    /\ UNCHANGED <<loop, handlers, statement, fd, proto_fd, fd_owner, active, engine,
                   beside>>

\* HandleAuth closes the connection of a client it refuses, and Run returns.
CloseRefused(c) ==
    /\ at[c] = "refused_close"
    /\ CloseFd(c, closing_fd[c])
    /\ closing_fd' = [closing_fd EXCEPT ![c] = 0]
    /\ Move(c, "return")
    /\ UNCHANGED <<loop, handlers, statement, proto_fd, engine, beside, raced>>

\* The destructor closes the connection; the handler is gone and the worker free.
CloseEnd(c) ==
    /\ at[c] = "closing"
    /\ CloseFd(c, closing_fd[c])
    /\ closing_fd' = [closing_fd EXCEPT ![c] = 0]
    /\ proto_fd' = [proto_fd EXCEPT ![c] = 0]
    /\ serving' = [serving EXCEPT ![WorkerOf(c)] = Nobody]
    /\ stopped' = [stopped EXCEPT ![c] = FALSE]
    /\ Move(c, "gone")
    /\ UNCHANGED <<loop, registry, statement, engine, beside, raced>>
-----------------------------------------------------------------------------
(* A statement: HandleQuery and ExecutionEngine::ExecuteSQL *)

\* The statement that c begins runs beside those that are running.
Overlap(c) == beside' = [d \in Clients |->
                           IF d = c THEN {e \in Clients \ {c} : InQuery(e)}
                           ELSE IF InQuery(d) THEN beside[d] \cup {c} ELSE beside[d]]

\* Mutant: the user is set for the first statement only
SetUserOnce(c, kind) ==
    /\ at[c] = "ready"
    /\ sent < MaxStatements
    /\ sent' = sent + 1
    /\ stmt' = [stmt EXCEPT ![c] = kind]
    /\ current_user' = IF current_user = Nobody THEN c ELSE current_user
    /\ Overlap(c)
    /\ Move(c, "user")
    /\ UNCHANGED <<loop, handlers, target, sockets, last_error, affected_rows, last_plan,
                   raced>>

\* The handler reads a statement and calls SetCurrentUser.
SetUser(c, kind) ==
    /\ at[c] = "ready"
    /\ sent < MaxStatements
    /\ sent' = sent + 1
    /\ stmt' = [stmt EXCEPT ![c] = kind]
    /\ current_user' = c
    /\ Overlap(c)
    /\ Move(c, "user")
    /\ UNCHANGED <<loop, handlers, target, sockets, last_error, affected_rows, last_plan,
                   raced>>

\* CheckAdminAccess and CheckPrivilegeForStatement ask about the user they are given.
Allowed(user, kind) ==
    user \in (IF kind \in {"kill", "shutdown"} THEN Admins ELSE Readers)

\* ExecuteSQL begins: last_error_ is cleared, and the privilege check asks about
\* current_user_ as it is now; a refusal names it in last_error_.
Check(c) ==
    /\ at[c] = "user"
    /\ IF Allowed(current_user, stmt[c])
       THEN Move(c, "run") /\ last_error' = Nobody
       ELSE Move(c, "error") /\ last_error' = current_user
    /\ UNCHANGED <<loop, handlers, statement, sockets, current_user, affected_rows,
                   last_plan, beside, raced>>

\* Binding, planning or creating the executors fails.
Fails(c) ==
    /\ at[c] = "run"
    /\ stmt[c] = "data"
    /\ last_error' = c
    /\ Move(c, "error")
    /\ UNCHANGED <<loop, handlers, statement, sockets, current_user, affected_rows,
                   last_plan, beside, raced>>

\* ExecutePlan: the rows are produced or changed, and affected_rows_ is set.
ExecutePlan(c) ==
    /\ at[c] = "run"
    /\ stmt[c] = "data"
    /\ affected_rows' = c
    /\ Move(c, "plan")
    /\ UNCHANGED <<loop, handlers, statement, sockets, current_user, last_error,
                   last_plan, beside, raced>>

\* last_plan_ = std::move(plan): the plan of the statement before is destroyed.
KeepPlan(c) ==
    /\ at[c] = "plan"
    /\ last_plan' = c
    /\ Move(c, "reply")
    /\ UNCHANGED <<loop, handlers, statement, sockets, current_user, last_error,
                   affected_rows, beside, raced>>

\* SHUTDOWN only clears server_running.
ExecuteShutdown(c) ==
    /\ at[c] = "run"
    /\ stmt[c] = "shutdown"
    /\ server_running' = FALSE
    /\ Move(c, "reply")
    /\ UNCHANGED <<main, queue, handlers, statement, sockets, engine, beside, raced>>

\* KILL d: the handler is looked up and deregistered under the registry's mutex.
ExecuteKill(c, d) ==
    /\ at[c] = "run"
    /\ stmt[c] = "kill"
    /\ IF registry[d] # Nobody
       THEN /\ target' = [target EXCEPT ![c] = registry[d]]
            /\ registry' = [registry EXCEPT ![d] = Nobody]
            /\ Move(c, "kill")
            /\ UNCHANGED last_error
       ELSE /\ last_error' = c
            /\ Move(c, "error")
            /\ UNCHANGED <<target, registry>>
    /\ UNCHANGED <<loop, serving, stopped, stmt, sent, sockets, current_user,
                   affected_rows, last_plan, beside, raced>>

\* Mutant: Stop closes the connection and leaves running_ as it is
StopKeepsRunning(c) ==
    /\ at[c] = "kill"
    /\ LET d == serving[target[c]]
       IN  IF d = Nobody
           THEN Move(c, "reply") /\ UNCHANGED <<closing_fd, raced>>
           ELSE /\ closing_fd' = [closing_fd EXCEPT ![c] = fd[d]]
                /\ raced' = (raced \/ at[d] \in {"refused_close", "closing"})
                /\ Move(c, "kill_close")
    /\ UNCHANGED <<loop, handlers, statement, fd, proto_fd, fd_owner, active, engine,
                   beside>>

\* target->Stop(), after the mutex is released: running_ is cleared and fd_ read in
\* the handler that is now where target points, if there still is one.
StopHandler(c) ==
    /\ at[c] = "kill"
    /\ LET d == serving[target[c]]
       IN  IF d = Nobody
           THEN Move(c, "reply") /\ UNCHANGED <<stopped, closing_fd, raced>>
           ELSE /\ stopped' = [stopped EXCEPT ![d] = TRUE]
                /\ closing_fd' = [closing_fd EXCEPT ![c] = fd[d]]
                /\ raced' = (raced \/ at[d] \in {"refused_close", "closing"})
                /\ Move(c, "kill_close")
    /\ UNCHANGED <<loop, serving, registry, statement, fd, proto_fd, fd_owner, active,
                   engine, beside>>

\* The rest of Close, called from Stop.
StopCloses(c) ==
    /\ at[c] = "kill_close"
    /\ LET d == serving[target[c]]
       IN  IF d = Nobody
           THEN UNCHANGED <<fd_owner, fd, active>>
           ELSE CloseFd(d, closing_fd[c])
    /\ closing_fd' = [closing_fd EXCEPT ![c] = 0]
    /\ Move(c, "reply")
    /\ UNCHANGED <<loop, handlers, statement, proto_fd, engine, beside, raced>>

\* The reply is written to proto_fd, and the loop goes on to its test.
Reply(c) ==
    /\ at[c] \in {"error", "reply"}
    /\ TestStopped(c)
    /\ target' = [target EXCEPT ![c] = Nobody]
    /\ stmt' = [stmt EXCEPT ![c] = Nobody]
    /\ beside' = [beside EXCEPT ![c] = {}]
    /\ UNCHANGED <<loop, handlers, sent, sockets, engine, raced>>
-----------------------------------------------------------------------------
Serve(c) ==
    \/ Authenticate(c) \/ EndSession(c)
    \/ CloseTest(c) \/ CloseRefused(c) \/ CloseEnd(c)
    \/ \E kind \in Kinds : SetUser(c, kind)
    \/ Check(c) \/ Fails(c) \/ ExecutePlan(c) \/ KeepPlan(c)
    \/ ExecuteShutdown(c)
    \/ \E d \in Clients : ExecuteKill(c, d)
    \/ StopHandler(c) \/ StopCloses(c)
    \/ Reply(c)

Next == \/ AcceptFails \/ Signal \/ Join
        \/ \E c \in Clients : Accept(c) \/ Serve(c)
        \/ \E w \in Workers : Start(w)

Spec == Init /\ [][Next]_vars

\* Threads are scheduled, and a client that holds a connection goes on talking or
\* leaves: with MaxStatements finite it leaves in the end.  Nothing is assumed of
\* accept.
Fairness == /\ WF_vars(Join)
            /\ \A c \in Clients : WF_vars(Serve(c))
            /\ WF_vars(\E w \in Workers : Start(w))

FairSpec == Spec /\ Fairness
-----------------------------------------------------------------------------
SessionPoints == {"away", "queued", "auth", "refused", "refused_close", "return", "ready",
                  "close", "closing", "gone"}

\* Every variable keeps its type; active_connections_ never goes below zero unless a
\* KILL met a session that was ending.
TypeOK ==
    /\ server_running \in BOOLEAN
    /\ main \in {"accept", "join", "done"}
    /\ \A i \in DOMAIN queue : at[queue[i]] = "queued"
    /\ serving \in [Workers -> Clients \cup {Nobody}]
    /\ registry \in [Clients -> Workers \cup {Nobody}]
    /\ stopped \in [Clients -> BOOLEAN]
    /\ at \in [Clients -> SessionPoints \cup QueryPoints]
    /\ stmt \in [Clients -> Kinds \cup {Nobody}]
    /\ target \in [Clients -> Workers \cup {Nobody}]
    /\ \A f \in {fd, proto_fd, closing_fd} : f \in [Clients -> Fds \cup {0}]
    /\ fd_owner \in [Fds -> Clients \cup {Nobody}]
    /\ active \in (IF raced THEN Int ELSE Nat)
    /\ {current_user, last_error, affected_rows, last_plan} \subseteq Clients \cup {Nobody}
    /\ beside \in [Clients -> SUBSET Clients]
    /\ raced \in BOOLEAN
    /\ sent \in 0 .. MaxStatements

\* The registry holds only handlers that exist, each at its own address: what
\* SHOW PROCESSLIST reads through the registry, under its mutex, is a live object.
RegistryHoldsLive ==
    \A c \in Clients : registry[c] # Nobody => serving[registry[c]] = c

\* c and the clients whose statements ran beside the one c is running
Near(c) == beside[c] \cup {c}

\* What a statement finds in the one engine was put there by itself or by a statement
\* that ran beside it, never by one that had ended: the rights it is checked with are
\* those of such a user, the error it reports names one (or was cleared by one), and
\* the affected rows and the plan the reply of a planned statement is written from are
\* theirs.  A statement that runs alone so has its own rights, error, rows and plan.
\* KILL and SHUTDOWN (like GRANT or COMMIT) set no affected_rows_ and reply with the
\* number the statement before them left.
StatementSeesItself ==
    \A c \in Clients : InQuery(c) =>
        /\ at[c] \in {"run", "plan", "kill", "kill_close"} =>
              \E u \in Near(c) : Allowed(u, stmt[c])
        /\ at[c] = "error" =>
              last_error \in Near(c) \cup (IF beside[c] = {} THEN {} ELSE {Nobody})
        /\ at[c] = "reply" /\ stmt[c] = "data" => {affected_rows, last_plan} \subseteq Near(c)

\* active_connections_, which SHOW STATUS reports, is the number of connections that
\* a handler holds open, unless a KILL met a session that was ending: Close may then
\* run twice for one connection.
ActiveCountsOpen ==
    ~raced => active = Cardinality({c \in Clients : fd[c] # 0 /\ at[c] # "queued"})

\* The number a Protocol has copied is the socket of its own client whenever it
\* writes a reply, unless the session was stopped by a KILL (its number may then be
\* another client's) or a KILL met a session that was ending.
RepliesReachTheirClient ==
    ~raced => \A c \in Clients :
                 at[c] \in {"error", "reply"} /\ ~stopped[c] => fd_owner[proto_fd[c]] = c

\* Every connection that was accepted is served by a worker and closed, also when the
\* server is shut down while it waits in the queue, and once the accept loop has
\* ended the process ends: again and again there is a moment with no open session, in
\* which main is in accept or done.
SessionsEnd == []<>(/\ \A c \in Clients : at[c] \in {"away", "gone"}
                    /\ main # "join")

\* active_connections_ counts the open sockets, and what a session writes goes to
\* its own client, unless two threads closed the same connection.
SocketsAreSound == TypeOK /\ ActiveCountsOpen /\ RepliesReachTheirClient
=============================================================================
