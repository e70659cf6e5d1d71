------------------------------- MODULE Server -------------------------------
(***************************************************************************)
(* The server process: main of server/src/server.c, which opens the        *)
(* database, the routes, the pool and two sockets, polls, accepts, hands   *)
(* clients to the pool and shuts down after SIGINT; and handle_client of   *)
(* api.c, which the workers run.  The pool is ThreadPool, whose jobs are   *)
(* the clients and whose owner is main.                                    *)
(***************************************************************************)
EXTENDS ThreadPool, HttpRequest, Settings

CONSTANTS
  Internal,    \* the clients that connect to the internal port
  MaxFaults,   \* bound: polls, accepts, mallocs and the like that fail
  SomeRequests, Tokens, AdminTokens, Envs, Argvs  \* for which parsing is checked

ASSUME ServerAssumption ==
  /\ Internal \subseteq Jobs /\ MaxFaults \in Nat
  /\ Tokens \subseteq Seq(Nat)
  /\ \A r \in SomeRequests : IsRequest(r)
  /\ Argvs \subseteq Seq(Words)

VARIABLES
  spc,           \* where main is
  keep_running,
  ready,         \* sockets with POLLIN in revents that the loop has not visited
  db, tree,      \* "none", "open", "closed": server.db, the router's tree
  conn,          \* a client's connection: "away", "waiting", "open", "closed"
  said,          \* what came from the client: "nothing", "bytes", "hangup"
  hpc,           \* a worker in handle_client: "idle", "recv", "serve", "close"
  faults

pool  == <<queue, working_cnt, thread_cnt, stop, i, wpc, job, mpc, added, started, done>>
svars == <<pool, spc, keep_running, ready, db, tree, conn, said, hpc, faults>>

Sockets == {0, 1}
SocketOf(c) == IF c \in Internal THEN 1 ELSE 0
Waiting(s) == {c \in Jobs : conn[c] = "waiting" /\ SocketOf(c) = s}
Alive == spc \notin {"failed", "exit"}

STypeOK ==
  /\ TypeOK
  /\ spc \in {"db", "pool", "loop", "poll", "accept", "shut", "destroy", "api", "failed", "exit"}
  /\ keep_running \in BOOLEAN /\ ready \subseteq Sockets
  /\ {db, tree} \subseteq {"none", "open", "closed"}
  /\ conn \in [Jobs -> {"away", "waiting", "open", "closed"}]
  /\ said \in [Jobs -> {"nothing", "bytes", "hangup"}]
  /\ hpc \in [Workers -> {"idle", "recv", "serve", "close"}]
  /\ \A w \in Workers : hpc[w] # "idle" <=> wpc[w] = "running"
  /\ faults \in 0..MaxFaults

SInit ==
  /\ Init
  /\ spc = "db" /\ keep_running = TRUE /\ ready = {} /\ db = "none" /\ tree = "none"
  /\ conn = [c \in Jobs |-> "away"] /\ said = [c \in Jobs |-> "nothing"]
  /\ hpc = [w \in Workers |-> "idle"] /\ faults = 0

-----------------------------------------------------------------------------
(* main.                                                                   *)

Fault == faults < MaxFaults /\ faults' = faults + 1

\* When the process ends, the kernel closes what is open.
Reset == conn' = [c \in Jobs |-> IF conn[c] = "away" THEN "away" ELSE "closed"]

OpenDb ==
  /\ spc = "db"
  /\ \/ db' = "open" /\ tree' = "open" /\ spc' = "pool" /\ UNCHANGED faults  \* and init_api
     \/ Fault /\ spc' = "failed" /\ UNCHANGED <<db, tree>>
  /\ UNCHANGED <<pool, keep_running, ready, conn, said, hpc>>

\* tpool_create, and tpool_destroy inside it when a thread cannot be created.
CreatePool ==
  /\ spc = "pool"
  /\ \/ (\E w \in Workers : CreateThread(w)) /\ UNCHANGED faults
     \/ CreateFails /\ Fault
     \/ mpc = "failed" /\ Destroy /\ UNCHANGED faults
     \/ CheckWait /\ UNCHANGED faults
  /\ UNCHANGED <<spc, keep_running, ready, db, tree, conn, said, hpc>>

CreateSockets ==
  /\ spc = "pool"
  /\ \/ mpc = "open" /\ spc' = "loop" /\ UNCHANGED faults
     \/ mpc = "open" /\ Fault /\ spc' = "failed"
     \/ mpc = "freed" /\ spc' = "failed" /\ UNCHANGED faults
  /\ UNCHANGED <<pool, keep_running, ready, db, tree, conn, said, hpc>>

TestRunning ==
  /\ spc = "loop" /\ spc' = (IF keep_running THEN "poll" ELSE "shut")
  /\ UNCHANGED <<pool, keep_running, ready, db, tree, conn, said, hpc, faults>>

\* Mutant: poll waits for ever.
PollUntimed ==
  /\ spc = "poll" /\ ready' = {s \in Sockets : Waiting(s) # {}}
  /\ ready' # {} /\ spc' = "accept"
  /\ UNCHANGED <<pool, keep_running, db, tree, conn, said, hpc, faults>>

\* Mutant: the internal socket is not looked at.
PollPublic ==
  /\ spc = "poll" /\ ready' = {s \in {0} : Waiting(s) # {}}
  /\ spc' = (IF ready' = {} THEN "loop" ELSE "accept")
  /\ UNCHANGED <<pool, keep_running, db, tree, conn, said, hpc, faults>>

\* poll returns what is ready, nothing after half a second.
Poll ==
  /\ spc = "poll" /\ ready' = {s \in Sockets : Waiting(s) # {}}
  /\ spc' = (IF ready' = {} THEN "loop" ELSE "accept")
  /\ UNCHANGED <<pool, keep_running, db, tree, conn, said, hpc, faults>>

\* poll fails for another reason than a signal: the loop ends as well.
PollFails ==
  /\ spc = "poll" /\ Fault /\ spc' = "shut"
  /\ UNCHANGED <<pool, keep_running, ready, db, tree, conn, said, hpc>>

\* One round of the loop over the two sockets, the public one first.
Visited(s) ==
  /\ spc = "accept" /\ s \in ready /\ \A t \in ready : s <= t
  /\ ready' = ready \ {s} /\ spc' = (IF ready' = {} THEN "loop" ELSE "accept")

Accept(s) ==
  /\ Visited(s)
  /\ \E c \in Waiting(s) : AddWork(c) /\ conn' = [conn EXCEPT ![c] = "open"]
  /\ UNCHANGED <<keep_running, db, tree, said, hpc, faults>>

\* accept fails, or the client_t cannot be allocated and the socket is closed.
AcceptFails(s) ==
  /\ Visited(s) /\ Fault
  /\ conn' = conn \/ \E c \in Waiting(s) : conn' = [conn EXCEPT ![c] = "closed"]
  /\ UNCHANGED <<pool, keep_running, db, tree, said, hpc>>

\* tpool_work_create writes through the null pointer that malloc gave it.
NoNode(s) ==
  /\ spc = "accept" /\ s \in ready /\ \A t \in ready : s <= t
  /\ Waiting(s) # {} /\ Fault /\ spc' = "failed" /\ Reset
  /\ UNCHANGED <<pool, keep_running, ready, db, tree, said, hpc>>

\* The listening sockets are closed, which resets who still waits, and
\* tpool_destroy begins.
CloseSockets == conn' = [c \in Jobs |-> IF conn[c] = "waiting" THEN "closed" ELSE conn[c]]

\* Mutant: the routes go before the pool.
ShutDownApiFirst ==
  /\ spc = "shut" /\ spc' = "destroy"
  /\ CloseSockets /\ Destroy /\ tree' = "closed"
  /\ UNCHANGED <<keep_running, ready, db, said, hpc, faults>>

ShutDown ==
  /\ spc = "shut" /\ spc' = "destroy"
  /\ CloseSockets /\ Destroy
  /\ UNCHANGED <<keep_running, ready, db, tree, said, hpc, faults>>

AwaitWorkers ==
  /\ spc = "destroy" /\ CheckWait
  /\ UNCHANGED <<spc, keep_running, ready, db, tree, conn, said, hpc, faults>>

destroy_api ==
  /\ spc = "destroy" /\ mpc = "freed" /\ spc' = "api" /\ tree' = "closed"
  /\ UNCHANGED <<pool, keep_running, ready, db, conn, said, hpc, faults>>

db_close ==
  /\ spc = "api" /\ spc' = "exit" /\ db' = "closed" /\ Reset
  /\ UNCHANGED <<pool, keep_running, ready, tree, said, hpc, faults>>

Main ==
  \/ OpenDb \/ CreatePool \/ CreateSockets \/ TestRunning \/ Poll \/ PollFails
  \/ \E s \in Sockets : Accept(s) \/ AcceptFails(s) \/ NoNode(s)
  \/ ShutDown \/ AwaitWorkers \/ destroy_api \/ db_close

-----------------------------------------------------------------------------
(* The workers: tpool_worker around handle_client.                         *)

server == <<spc, keep_running, ready, db, tree, faults>>

TakeClient(w) ==
  /\ Take(w) /\ hpc' = [hpc EXCEPT ![w] = "recv"]
  /\ UNCHANGED <<server, conn, said>>

\* recv returns when there is something to read or the client has closed.
Recv(w) ==
  /\ hpc[w] = "recv" /\ said[job[w]] # "nothing"
  /\ hpc' = [hpc EXCEPT ![w] = IF said[job[w]] = "bytes" THEN "serve" ELSE "close"]
  /\ UNCHANGED <<pool, server, conn, said>>

\* parse_request, then 400 or dispatch, which uses the routes and the database.
Serve(w) ==
  /\ hpc[w] = "serve" /\ hpc' = [hpc EXCEPT ![w] = "close"]
  /\ UNCHANGED <<pool, server, conn, said>>

\* Mutant: the socket of a client that said nothing stays open.
CloseServed(w) ==
  /\ hpc[w] = "close" /\ RunJob(w) /\ hpc' = [hpc EXCEPT ![w] = "idle"]
  /\ conn' = IF said[job[w]] = "bytes" THEN [conn EXCEPT ![job[w]] = "closed"] ELSE conn
  /\ UNCHANGED <<server, said>>

Close(w) ==
  /\ hpc[w] = "close" /\ RunJob(w) /\ hpc' = [hpc EXCEPT ![w] = "idle"]
  /\ conn' = [conn EXCEPT ![job[w]] = "closed"]
  /\ UNCHANGED <<server, said>>

\* The pool's own steps.
Pooled(w) ==
  /\ Sleep(w) \/ Exit(w) \/ Finish(w)
  /\ UNCHANGED <<server, conn, said, hpc>>

Woken ==
  /\ SpuriousOwner \/ \E w \in Workers : SpuriousWorker(w)
  /\ UNCHANGED <<server, conn, said, hpc>>

Working(w) == Alive /\ (TakeClient(w) \/ Recv(w) \/ Serve(w) \/ Close(w) \/ Pooled(w))

-----------------------------------------------------------------------------
(* Clients and signals.                                                    *)

Connect(c) ==
  /\ spc \in {"loop", "poll", "accept"} /\ conn[c] = "away"
  /\ conn' = [conn EXCEPT ![c] = "waiting"]
  /\ UNCHANGED <<pool, server, said, hpc>>

Talk(c) ==
  /\ conn[c] \in {"waiting", "open"} /\ said[c] = "nothing"
  /\ said' \in {[said EXCEPT ![c] = x] : x \in {"bytes", "hangup"}}
  /\ UNCHANGED <<pool, server, conn, hpc>>

\* handle_sigint in main: poll, if it is there, ends with EINTR.
SigintMain ==
  /\ Alive /\ keep_running' = FALSE
  /\ spc' = (IF spc = "poll" THEN "shut" ELSE spc)
  /\ UNCHANGED <<pool, ready, db, tree, faults, conn, said, hpc>>

\* handle_sigint in a worker: a recv that waits ends with EINTR.
SigintWorker(w) ==
  /\ Alive /\ wpc[w] \notin {"unborn", "exited"} /\ keep_running' = FALSE
  /\ hpc' = [hpc EXCEPT ![w] = IF @ = "recv" /\ said[job[w]] = "nothing" THEN "close" ELSE @]
  /\ UNCHANGED <<pool, spc, ready, db, tree, faults, conn, said>>

SNext ==
  \/ Main \/ \E w \in Workers : Working(w) \/ SigintWorker(w)
  \/ Alive /\ Woken
  \/ \E c \in Jobs : Connect(c) \/ Talk(c)
  \/ SigintMain

SSpec == SInit /\ [][SNext]_svars

\* Main and every worker keep running; poll is over after half a second.
\* Clients and signals need not come.
SFairSpec == SSpec /\ WF_svars(Main) /\ \A w \in Workers : WF_svars(Working(w))

-----------------------------------------------------------------------------
(* Properties.                                                             *)

\* The routes and the database are there for as long as a worker serves a
\* client, also during shutdown (the order of the calls at the end of main).
InUse == Alive /\ (\E w \in Workers : hpc[w] = "serve") => db = "open" /\ tree = "open"

\* An accepted socket is in somebody's hands, so that it will be closed: the
\* queue's or a worker's.  (At shutdown the queue is dropped, see pool_drain.)
SocketOwned ==
  Alive /\ ~stop =>
    \A c \in Jobs : conn[c] = "open" <=> c \in Range(queue) \/ \E w \in Workers : job[w] = c /\ hpc[w] # "idle"

\* Nobody holds a worker for ever by saying nothing.
NoStall == []<>(\A c \in Jobs : conn[c] = "open" => said[c] # "nothing")

\* After SIGINT, whichever thread it reached, the process ends, unless a silent
\* client holds a worker: recv has no timeout, and tpool_destroy waits.
ShutdownEnds == NoStall => (~keep_running ~> ~Alive)

\* A client of either port is served and closed, or the server is stopped,
\* unless silent clients hold the workers.
Served == NoStall => \A c \in Jobs : (conn[c] = "waiting") ~> (conn[c] = "closed" \/ ~keep_running)

\* What arrives first of a request never acts for somebody else, on another path
\* or with a header for its number (api.c, one recv and parse_request).
PrefixSafe == spc = "db" => \A r \in SomeRequests, t \in AdminTokens : PartIsSafe(r, t)

\* A bearer token gives the role and the user it names (auth_parse).
AuthExact == spc = "db" => \A token \in Tokens, t \in AdminTokens : TokenIsUser(token, t)

\* Command line before environment before default, for every setting (load_config).
ConfigPrecedence == spc = "db" => \A env \in Envs, argv \in Argvs : Precedence(env, argv)
=============================================================================
