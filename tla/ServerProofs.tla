---------------------------- MODULE ServerProofs ----------------------------
(***************************************************************************)
(* Proofs about Server.tla for every number of workers and clients: main   *)
(* uses the pool as ThreadPool.tla prescribes, no worker touches what main *)
(* has torn down, and no accepted socket is lost before the shutdown; and  *)
(* what a text of any length is parsed for.                                *)
(***************************************************************************)
EXTENDS Server, ThreadPoolProofs, DataProofs

\* Where main is says what it has opened and how far the pool has come.
MainInv ==
  /\ spc = "db" => \A w \in Workers : wpc[w] = "unborn"
  /\ spc \in {"loop", "poll", "accept", "shut"} => mpc = "open"
  /\ spc = "api" => mpc = "freed"
  /\ spc \in {"pool", "loop", "poll", "accept", "shut", "destroy"}
       => db = "open" /\ tree = "open"

\* A client is handed to the pool at most once, and only after its accept; the
\* clients that workers hold are distinct.
ClientInv ==
  /\ \A m, n \in DOMAIN added : added[m] = added[n] => m = n
  /\ \A c \in Range(added) : conn[c] \notin {"away", "waiting"}
  /\ \A v, w \in Workers :
       wpc[v] = "running" /\ wpc[w] = "running" /\ job[v] = job[w] => v = w

\* The queue or a worker has client c.
Held(c) ==
  c \in Range(queue) \/ \E w \in Workers : wpc[w] = "running" /\ job[w] = c

SIndInv == STypeOK /\ MainInv /\ ClientInv /\ SocketOwned
-----------------------------------------------------------------------------
(* The server uses the pool correctly.                                     *)

\* What main and the workers do with the pool are steps of the pool.
LEMMA ServerStepIsPoolStep == [SNext]_svars => [Next]_vars
<1> SUFFICES ASSUME [SNext]_svars PROVE [Next]_vars
  OBVIOUS
<1>1. CASE OpenDb
  BY <1>1 DEF OpenDb, pool, vars
<1>2. CASE CreatePool
  BY <1>2 DEF CreatePool, Next
<1>3. CASE CreateSockets
  BY <1>3 DEF CreateSockets, pool, vars
<1>4. CASE TestRunning
  BY <1>4 DEF TestRunning, pool, vars
<1>5. CASE Poll
  BY <1>5 DEF Poll, pool, vars
<1>6. CASE PollFails
  BY <1>6 DEF PollFails, pool, vars
<1>7. ASSUME NEW s \in Sockets, Accept(s) PROVE [Next]_vars
  BY <1>7 DEF Accept, Waiting, Next
<1>8. ASSUME NEW s \in Sockets, AcceptFails(s) PROVE [Next]_vars
  BY <1>8 DEF AcceptFails, pool, vars
<1>9. ASSUME NEW s \in Sockets, NoNode(s) PROVE [Next]_vars
  BY <1>9 DEF NoNode, pool, vars
<1>10. CASE ShutDown
  BY <1>10 DEF ShutDown, Next
<1>11. CASE AwaitWorkers
  BY <1>11 DEF AwaitWorkers, Next
<1>12. CASE destroy_api
  BY <1>12 DEF destroy_api, pool, vars
<1>13. CASE db_close
  BY <1>13 DEF db_close, pool, vars
<1>14. ASSUME NEW w \in Workers, Working(w) PROVE [Next]_vars
  BY <1>14 DEF Working, TakeClient, Recv, Serve, Close, Pooled, Next, Worker, pool, vars
<1>15. CASE Woken
  BY <1>15 DEF Woken, Next
<1>16. ASSUME NEW c \in Jobs, Connect(c) \/ Talk(c) PROVE [Next]_vars
  BY <1>16 DEF Connect, Talk, pool, vars
<1>17. ASSUME SigintMain \/ \E w \in Workers : SigintWorker(w) PROVE [Next]_vars
  BY <1>17 DEF SigintMain, SigintWorker, pool, vars
<1>18. CASE UNCHANGED svars
  BY <1>18 DEF svars, pool, vars
<1> QED
  BY <1>1, <1>2, <1>3, <1>4, <1>5, <1>6, <1>7, <1>8, <1>9, <1>10, <1>11, <1>12,
     <1>13, <1>14, <1>15, <1>16, <1>17, <1>18 DEF SNext, Main

\* main, its workers and handle_client use the pool as its specification says:
\* the server implements ThreadPool, so that all that is proved of a pool whose
\* jobs return holds for the server's.
THEOREM ServerImplementsPool == SSpec => Spec
<1>1. SInit => Init
  BY DEF SInit
<1> QED
  BY <1>1, ServerStepIsPoolStep, PTL DEF SSpec, Spec

\* The pool is not freed under a worker, whatever fails and whenever the signal
\* comes.
THEOREM ServerJoins == SSpec => []JoinBeforeFree
  BY ServerImplementsPool, Joined, PTL

-----------------------------------------------------------------------------
(* Sequences of clients.                                                   *)

\* A sequence without repetitions stays one when a new element is appended.
LEMMA AppendOnce ==
  ASSUME NEW s \in Seq(Jobs), NEW x \in Jobs, x \notin Range(s),
         \A m, n \in DOMAIN s : s[m] = s[n] => m = n
  PROVE  \A m, n \in DOMAIN Append(s, x) : Append(s, x)[m] = Append(s, x)[n] => m = n
<1>1. DOMAIN Append(s, x) = 1..(Len(s) + 1) /\ DOMAIN s = 1..Len(s) /\ Len(s) \in Nat
  OBVIOUS
<1>2. \A k \in 1..Len(s) : Append(s, x)[k] = s[k] /\ s[k] # x
  BY DEF Range
<1>3. Append(s, x)[Len(s) + 1] = x
  OBVIOUS
<1> QED
  BY <1>1, <1>2, <1>3

\* In a concatenation without repetitions the two parts have nothing in common.
LEMMA PartsDisjoint ==
  ASSUME NEW s \in Seq(Jobs), NEW q \in Seq(Jobs),
         \A m, n \in DOMAIN (s \o q) : (s \o q)[m] = (s \o q)[n] => m = n
  PROVE  Range(s) \cap Range(q) = {}
<1> SUFFICES ASSUME NEW a \in 1..Len(s), NEW b \in 1..Len(q), s[a] = q[b]
             PROVE  FALSE
  BY DEF Range
<1>1. Len(s) \in Nat /\ Len(q) \in Nat /\ DOMAIN (s \o q) = 1..(Len(s) + Len(q))
  OBVIOUS
<1>2. a \in DOMAIN (s \o q) /\ Len(s) + b \in DOMAIN (s \o q) /\ a # Len(s) + b
  BY <1>1
<1>3. (s \o q)[a] = s[a]
  OBVIOUS
<1>4. (s \o q)[Len(s) + b] = q[b]
  OBVIOUS
<1> QED
  BY <1>2, <1>3, <1>4

\* Taking the head of a queue removes at most that element from its range.
LEMMA RangeTail ==
  ASSUME NEW q \in Seq(Jobs), q # <<>>
  PROVE  Head(q) \in Jobs /\ Range(q) = {Head(q)} \cup Range(Tail(q))
<1>1. Len(q) \in Nat /\ Len(q) > 0 /\ DOMAIN q = 1..Len(q)
        /\ DOMAIN Tail(q) = 1..(Len(q) - 1) /\ Head(q) = q[1]
  OBVIOUS
<1>2. \A k \in 1..(Len(q) - 1) : Tail(q)[k] = q[k + 1]
  OBVIOUS
<1>3. \A k \in 1..Len(q) : k = 1 \/ (k - 1 \in 1..(Len(q) - 1) /\ (k - 1) + 1 = k)
  BY <1>1
<1>4. Range(q) \subseteq {Head(q)} \cup Range(Tail(q))
  <2> SUFFICES ASSUME NEW x \in Range(q), x # Head(q) PROVE x \in Range(Tail(q))
    OBVIOUS
  <2>1. PICK k \in 1..Len(q) : x = q[k]
    BY <1>1 DEF Range
  <2>2. k - 1 \in DOMAIN Tail(q) /\ Tail(q)[k - 1] = x
    BY <1>1, <1>2, <1>3, <2>1
  <2> QED
    BY <2>2 DEF Range
<1>5. {Head(q)} \cup Range(Tail(q)) \subseteq Range(q)
  BY <1>1, <1>2 DEF Range
<1> QED
  BY <1>1, <1>4, <1>5

\* While the pool does not stop, what waits in the queue has not been taken,
\* and in particular is on no worker.
LEMMA QueuedNotTaken ==
  ASSUME IndInv, ClientInv, ~stop
  PROVE  /\ Range(started) \cap Range(queue) = {}
         /\ \A w \in Workers : wpc[w] = "running" => job[w] \notin Range(queue)
<1>1. added = started \o queue /\ started \in Seq(Jobs) /\ queue \in Seq(Jobs)
  BY DEF IndInv, FifoOnce, TypeOK
<1>2. Range(started) \cap Range(queue) = {}
  BY <1>1, PartsDisjoint DEF ClientInv
<1> QED
  BY <1>2 DEF IndInv, JobInv

-----------------------------------------------------------------------------
(* The invariant of the server is inductive.                               *)

\* The initial state.
LEMMA InitSIndInv == SInit => SIndInv
<1> SUFFICES ASSUME SInit PROVE SIndInv
  OBVIOUS
<1>1. TypeOK
  BY InitIndInv DEF SInit, IndInv
<1>2. STypeOK
  BY <1>1, ServerAssumption DEF SInit, Init, STypeOK
<1>3. MainInv /\ ClientInv /\ SocketOwned
  BY DEF SInit, Init, MainInv, ClientInv, SocketOwned, Range
<1> QED
  BY <1>2, <1>3 DEF SIndInv

\* What main does to the pool changes nothing about who runs what.
LEMMA RunningKept ==
  ASSUME TypeOK,
         \/ \E w \in Workers : CreateThread(w)
         \/ \E j \in Jobs : AddWork(j)
         \/ CreateFails \/ Destroy \/ CheckWait
  PROVE  /\ \A w \in Workers : wpc'[w] = "running" <=> wpc[w] = "running"
         /\ job' = job
<1>1. ASSUME NEW w \in Workers, CreateThread(w)
      PROVE  \A v \in Workers : wpc'[v] = "running" <=> wpc[v] = "running"
  BY <1>1 DEF CreateThread, TypeOK
<1>2. ASSUME Destroy \/ \E j \in Jobs : AddWork(j)
      PROVE  \A v \in Workers : wpc'[v] = "running" <=> wpc[v] = "running"
  BY <1>2, WakeKeeps DEF Destroy, AddWork, TypeOK
<1>3. job' = job
  BY DEF CreateThread, AddWork, CreateFails, Destroy, CheckWait
<1> QED
  BY <1>1, <1>2, <1>3 DEF CreateFails, CheckWait

\* Every step keeps the types, and a worker is in handle_client exactly while
\* the pool has it run a job.
LEMMA NextSType ==
  ASSUME STypeOK, TypeOK', [SNext]_svars
  PROVE  STypeOK'
<1> USE DEF STypeOK
<1>0. Fault => faults' \in 0..MaxFaults
  BY ServerAssumption DEF Fault
<1>1. CASE OpenDb
  BY <1>0, <1>1 DEF OpenDb, pool
<1>2. CASE CreatePool
  <2>1. \A w \in Workers : wpc'[w] = "running" <=> wpc[w] = "running"
    BY <1>2, RunningKept DEF CreatePool
  <2> QED
    BY <1>0, <1>2, <2>1 DEF CreatePool
<1>3. CASE CreateSockets
  BY <1>0, <1>3 DEF CreateSockets, pool
<1>4. CASE TestRunning
  BY <1>4 DEF TestRunning, pool
<1>5. CASE Poll
  BY <1>5 DEF Poll, pool
<1>6. CASE PollFails
  BY <1>0, <1>6 DEF PollFails, pool
<1>7. ASSUME NEW s \in Sockets, Accept(s) PROVE STypeOK'
  <2>1. \A w \in Workers : wpc'[w] = "running" <=> wpc[w] = "running"
    BY <1>7, RunningKept DEF Accept, Waiting
  <2>2. conn' \in [Jobs -> {"away", "waiting", "open", "closed"}]
    BY <1>7 DEF Accept
  <2> QED
    BY <1>7, <2>1, <2>2 DEF Accept, Visited
<1>8. ASSUME NEW s \in Sockets, AcceptFails(s) PROVE STypeOK'
  BY <1>0, <1>8 DEF AcceptFails, Visited, pool
<1>9. ASSUME NEW s \in Sockets, NoNode(s) PROVE STypeOK'
  BY <1>0, <1>9 DEF NoNode, Reset, pool
<1>10. CASE ShutDown
  <2>1. \A w \in Workers : wpc'[w] = "running" <=> wpc[w] = "running"
    BY <1>10, RunningKept DEF ShutDown
  <2> QED
    BY <1>10, <2>1 DEF ShutDown, CloseSockets
<1>11. CASE AwaitWorkers
  BY <1>11 DEF AwaitWorkers, CheckWait
<1>12. CASE destroy_api
  BY <1>12 DEF destroy_api, pool
<1>13. CASE db_close
  BY <1>13 DEF db_close, Reset, pool
<1>14. ASSUME NEW w \in Workers, TakeClient(w) PROVE STypeOK'
  BY <1>14 DEF TakeClient, Take, server, TypeOK, WorkerState
<1>15. ASSUME NEW w \in Workers, Recv(w) \/ Serve(w) PROVE STypeOK'
  BY <1>15 DEF Recv, Serve, server, pool
<1>16. ASSUME NEW w \in Workers, Close(w) PROVE STypeOK'
  BY <1>16 DEF Close, RunJob, server, TypeOK, WorkerState
<1>17. ASSUME NEW w \in Workers, Pooled(w) PROVE STypeOK'
  BY <1>17 DEF Pooled, Sleep, Exit, Finish, server, TypeOK, WorkerState
<1>18. CASE Woken
  BY <1>18 DEF Woken, SpuriousOwner, SpuriousWorker, server, TypeOK, WorkerState
<1>19. ASSUME NEW c \in Jobs, Connect(c) \/ Talk(c) PROVE STypeOK'
  BY <1>19 DEF Connect, Talk, server, pool
<1>20. CASE SigintMain
  BY <1>20 DEF SigintMain, pool
<1>21. ASSUME NEW w \in Workers, SigintWorker(w) PROVE STypeOK'
  BY <1>21 DEF SigintWorker, pool
<1>22. CASE UNCHANGED svars
  BY <1>22 DEF svars, pool
<1> QED
  BY <1>1, <1>2, <1>3, <1>4, <1>5, <1>6, <1>7, <1>8, <1>9, <1>10, <1>11, <1>12,
     <1>13, <1>14, <1>15, <1>16, <1>17, <1>18, <1>19, <1>20, <1>21, <1>22
  DEF SNext, Main, Working

\* Main opens before it serves and tears down after the workers have left.
LEMMA NextMain ==
  ASSUME IndInv, STypeOK, MainInv, [SNext]_svars
  PROVE  MainInv'
<1> USE DEF STypeOK, MainInv
<1>1. CASE OpenDb
  BY <1>1 DEF OpenDb, pool, Fault
<1>2. CASE CreatePool
  BY <1>2 DEF CreatePool
<1>3. CASE CreateSockets
  BY <1>3 DEF CreateSockets, pool
<1>4. CASE TestRunning
  BY <1>4 DEF TestRunning, pool
<1>5. CASE Poll
  BY <1>5 DEF Poll, pool
<1>6. CASE PollFails
  BY <1>6 DEF PollFails, pool
<1>7. ASSUME NEW s \in Sockets, Accept(s) PROVE MainInv'
  BY <1>7 DEF Accept, AddWork, Visited
<1>8. ASSUME NEW s \in Sockets, AcceptFails(s) PROVE MainInv'
  BY <1>8 DEF AcceptFails, Visited, pool
<1>9. ASSUME NEW s \in Sockets, NoNode(s) PROVE MainInv'
  BY <1>9 DEF NoNode, pool
<1>10. CASE ShutDown
  BY <1>10 DEF ShutDown
<1>11. CASE AwaitWorkers
  BY <1>11 DEF AwaitWorkers, CheckWait
<1>12. CASE destroy_api
  BY <1>12 DEF destroy_api, pool
<1>13. CASE db_close
  BY <1>13 DEF db_close, pool
<1>14. ASSUME NEW w \in Workers, TakeClient(w) PROVE MainInv'
  BY <1>14 DEF TakeClient, Take, server
<1>15. ASSUME NEW w \in Workers, Recv(w) \/ Serve(w) PROVE MainInv'
  BY <1>15 DEF Recv, Serve, server, pool
<1>16. ASSUME NEW w \in Workers, Close(w) PROVE MainInv'
  BY <1>16 DEF Close, RunJob, server
<1>17. ASSUME NEW w \in Workers, Pooled(w) PROVE MainInv'
  BY <1>17 DEF Pooled, Sleep, Exit, Finish, SignalOwner, server, poolVars
<1>18. CASE Woken
  BY <1>18 DEF Woken, SpuriousOwner, SpuriousWorker, server
<1>19. ASSUME NEW c \in Jobs, Connect(c) \/ Talk(c) PROVE MainInv'
  BY <1>19 DEF Connect, Talk, server, pool
<1>20. CASE SigintMain
  BY <1>20 DEF SigintMain, pool
<1>21. ASSUME NEW w \in Workers, SigintWorker(w) PROVE MainInv'
  BY <1>21 DEF SigintWorker, pool
<1>22. CASE UNCHANGED svars
  BY <1>22 DEF svars, pool
<1> QED
  BY <1>1, <1>2, <1>3, <1>4, <1>5, <1>6, <1>7, <1>8, <1>9, <1>10, <1>11, <1>12,
     <1>13, <1>14, <1>15, <1>16, <1>17, <1>18, <1>19, <1>20, <1>21, <1>22
  DEF SNext, Main, Working

\* No client is handed over twice, and no two workers hold the same one.
LEMMA NextClient ==
  ASSUME IndInv, STypeOK, MainInv, ClientInv, [SNext]_svars
  PROVE  ClientInv'
<1> USE DEF STypeOK, ClientInv
<1>0. added \in Seq(Jobs) /\ Range(added) \subseteq Jobs
  BY DEF TypeOK, Range
<1>1. CASE OpenDb
  BY <1>1 DEF OpenDb, pool
<1>2. CASE CreatePool
  <2>1. \A w \in Workers : wpc'[w] = "running" <=> wpc[w] = "running"
    BY <1>2, RunningKept DEF CreatePool
  <2>2. UNCHANGED <<added, job, conn>>
    BY <1>2 DEF CreatePool, CreateThread, CreateFails, Destroy, CheckWait, history
  <2> QED
    BY <2>1, <2>2
<1>3. CASE CreateSockets
  BY <1>3 DEF CreateSockets, pool
<1>4. CASE TestRunning
  BY <1>4 DEF TestRunning, pool
<1>5. CASE Poll
  BY <1>5 DEF Poll, pool
<1>6. CASE PollFails
  BY <1>6 DEF PollFails, pool
<1>7. ASSUME NEW s \in Sockets, Accept(s) PROVE ClientInv'
  <2>1. PICK c \in Waiting(s) : AddWork(c) /\ conn' = [conn EXCEPT ![c] = "open"]
    BY <1>7 DEF Accept
  <2>2. c \in Jobs /\ c \notin Range(added) /\ added' = Append(added, c) /\ job' = job
    BY <2>1 DEF Waiting, AddWork
  <2>3. Range(added') = Range(added) \cup {c}
    BY <1>0, <2>2, RangeAppend
  <2>4. \A m, n \in DOMAIN added' : added'[m] = added'[n] => m = n
    BY <1>0, <2>2, AppendOnce
  <2>5. \A x \in Range(added') : conn'[x] \notin {"away", "waiting"}
    BY <1>0, <2>1, <2>2, <2>3
  <2>6. \A w \in Workers : wpc'[w] = "running" <=> wpc[w] = "running"
    BY <2>1, <2>2, RunningKept
  <2> QED
    BY <2>2, <2>4, <2>5, <2>6
<1>8. ASSUME NEW s \in Sockets, AcceptFails(s) PROVE ClientInv'
  BY <1>0, <1>8 DEF AcceptFails, Waiting, pool
<1>9. ASSUME NEW s \in Sockets, NoNode(s) PROVE ClientInv'
  BY <1>0, <1>9 DEF NoNode, Reset, pool
<1>10. CASE ShutDown
  <2>1. \A w \in Workers : wpc'[w] = "running" <=> wpc[w] = "running"
    BY <1>10, RunningKept DEF ShutDown
  <2> QED
    BY <1>0, <1>10, <2>1 DEF ShutDown, Destroy, CloseSockets, history
<1>11. CASE AwaitWorkers
  BY <1>11 DEF AwaitWorkers, CheckWait, history
<1>12. CASE destroy_api
  BY <1>12 DEF destroy_api, pool
<1>13. CASE db_close
  BY <1>0, <1>13 DEF db_close, Reset, pool
<1>14. ASSUME NEW w \in Workers, TakeClient(w) PROVE ClientInv'
  <2>1. Take(w) /\ conn' = conn
    BY <1>14 DEF TakeClient
  <2>2. ~stop /\ queue # <<>> /\ queue \in Seq(Jobs) /\ Head(queue) \in Range(queue)
    BY <2>1, RangeTail DEF Take, TypeOK
  <2>3. \A v \in Workers : wpc[v] = "running" => job[v] # Head(queue)
    BY <2>2, QueuedNotTaken
  <2>4. /\ added' = added
        /\ \A v \in Workers : wpc'[v] = "running" <=> v = w \/ wpc[v] = "running"
        /\ \A v \in Workers : job'[v] = IF v = w THEN Head(queue) ELSE job[v]
    BY <2>1 DEF Take, TypeOK
  <2> QED
    BY <2>1, <2>3, <2>4
<1>15. ASSUME NEW w \in Workers, Recv(w) \/ Serve(w) PROVE ClientInv'
  BY <1>15 DEF Recv, Serve, server, pool
<1>16. ASSUME NEW w \in Workers, Close(w) PROVE ClientInv'
  BY <1>0, <1>16 DEF Close, RunJob, server, TypeOK
<1>17. ASSUME NEW w \in Workers, Pooled(w) PROVE ClientInv'
  <2>1. /\ \A v \in Workers : wpc'[v] = "running" => wpc[v] = "running" /\ job'[v] = job[v]
        /\ UNCHANGED <<added, conn>>
    BY <1>17 DEF Pooled, Sleep, Exit, Finish, TypeOK, history
  <2> QED
    BY <2>1
<1>18. CASE Woken
  <2>1. /\ \A v \in Workers : wpc'[v] = "running" => wpc[v] = "running"
        /\ UNCHANGED <<added, conn, job>>
    BY <1>18 DEF Woken, SpuriousOwner, SpuriousWorker, TypeOK, history
  <2> QED
    BY <2>1
<1>19. ASSUME NEW c \in Jobs, Connect(c) \/ Talk(c) PROVE ClientInv'
  BY <1>0, <1>19 DEF Connect, Talk, server, pool
<1>20. CASE SigintMain
  BY <1>20 DEF SigintMain, pool
<1>21. ASSUME NEW w \in Workers, SigintWorker(w) PROVE ClientInv'
  BY <1>21 DEF SigintWorker, pool
<1>22. CASE UNCHANGED svars
  BY <1>22 DEF svars, pool
<1> QED
  BY <1>1, <1>2, <1>3, <1>4, <1>5, <1>6, <1>7, <1>8, <1>9, <1>10, <1>11, <1>12,
     <1>13, <1>14, <1>15, <1>16, <1>17, <1>18, <1>19, <1>20, <1>21, <1>22
  DEF SNext, Main, Working

\* An accepted socket goes from the queue to one worker and is closed there.
LEMMA NextOwned ==
  ASSUME IndInv, STypeOK, STypeOK', MainInv, ClientInv, SocketOwned, [SNext]_svars
  PROVE  SocketOwned'
<1> SUFFICES ASSUME Alive', ~stop', NEW c \in Jobs
             PROVE  conn'[c] = "open" <=> Held(c)'
  BY DEF SocketOwned, Held, STypeOK
<1>0. Alive /\ ~stop => (conn[c] = "open" <=> Held(c))
  BY DEF SocketOwned, Held, STypeOK
<1> USE DEF Alive
<1>1. CASE UNCHANGED <<pool, conn, spc>>
  BY <1>0, <1>1 DEF pool, Held
<1>2. CASE OpenDb
  BY <1>0, <1>2 DEF OpenDb, pool, Held
<1>3. CASE CreatePool
  <2>1. queue' = queue /\ ~stop
    BY <1>3 DEF CreatePool, CreateThread, CreateFails, Destroy, CheckWait, poolVars
  <2> QED
    BY <1>0, <1>3, <2>1, RunningKept DEF CreatePool, Held, STypeOK
<1>4. CASE CreateSockets \/ TestRunning \/ Poll \/ PollFails \/ destroy_api \/ SigintMain
  BY <1>0, <1>4
  DEF CreateSockets, TestRunning, Poll, PollFails, destroy_api, SigintMain, pool, Held
<1>5. ASSUME NEW s \in Sockets, Accept(s) PROVE conn'[c] = "open" <=> Held(c)'
  <2>1. PICK x \in Waiting(s) : AddWork(x) /\ conn' = [conn EXCEPT ![x] = "open"]
    BY <1>5 DEF Accept
  <2>2. x \in Jobs /\ queue' = Append(queue, x) /\ stop' = stop /\ spc = "accept"
    BY <1>5, <2>1 DEF Waiting, AddWork, Accept, Visited
  <2>3. Range(queue') = Range(queue) \cup {x}
    BY <2>2, RangeAppend DEF STypeOK, TypeOK
  <2>4. conn'[c] = IF c = x THEN "open" ELSE conn[c]
    BY <2>1 DEF STypeOK
  <2>5. /\ \A w \in Workers : wpc'[w] = "running" <=> wpc[w] = "running"
        /\ job' = job
    BY <2>1, <2>2, RunningKept DEF STypeOK
  <2> QED
    BY <1>0, <2>2, <2>3, <2>4, <2>5 DEF Held
<1>6. ASSUME NEW s \in Sockets, AcceptFails(s) PROVE conn'[c] = "open" <=> Held(c)'
  <2>1. conn'[c] = "open" <=> conn[c] = "open"
    BY <1>6 DEF AcceptFails, Waiting, STypeOK
  <2> QED
    BY <1>0, <1>6, <2>1 DEF AcceptFails, Visited, pool, Held
<1>7. ASSUME NEW s \in Sockets, NoNode(s) PROVE FALSE
  BY <1>7 DEF NoNode
<1>8. ASSUME ShutDown PROVE FALSE
  BY <1>8 DEF ShutDown, Destroy
<1>9. ASSUME db_close PROVE FALSE
  BY <1>9 DEF db_close
<1>10. CASE AwaitWorkers
  BY <1>0, <1>10 DEF AwaitWorkers, CheckWait, poolVars, Held
<1>11. ASSUME NEW w \in Workers, TakeClient(w) PROVE conn'[c] = "open" <=> Held(c)'
  <2>1. Take(w) /\ UNCHANGED <<conn, spc>>
    BY <1>11 DEF TakeClient, server
  <2>2. ~stop /\ queue # <<>> /\ queue \in Seq(Jobs) /\ queue' = Tail(queue)
    BY <2>1 DEF Take, STypeOK, TypeOK
  <2>3. Range(queue) = {Head(queue)} \cup Range(queue')
    BY <2>2, RangeTail
  <2>4. /\ \A v \in Workers : wpc'[v] = "running" <=> v = w \/ wpc[v] = "running"
        /\ \A v \in Workers : job'[v] = IF v = w THEN Head(queue) ELSE job[v]
        /\ wpc[w] # "running"
    BY <2>1 DEF Take, STypeOK, TypeOK
  <2> QED
    BY <1>0, <2>1, <2>2, <2>3, <2>4 DEF Held
<1>12. ASSUME NEW w \in Workers, Recv(w) \/ Serve(w) \/ SigintWorker(w)
       PROVE  conn'[c] = "open" <=> Held(c)'
  BY <1>0, <1>12 DEF Recv, Serve, SigintWorker, server, pool, Held
<1>13. ASSUME NEW w \in Workers, Close(w) PROVE conn'[c] = "open" <=> Held(c)'
  <2>1. /\ RunJob(w) /\ conn' = [conn EXCEPT ![job[w]] = "closed"]
        /\ UNCHANGED <<spc, stop, queue, job>>
    BY <1>13 DEF Close, RunJob, server, poolVars
  <2>2. wpc[w] = "running" /\ \A v \in Workers : wpc'[v] = "running" <=> v # w /\ wpc[v] = "running"
    BY <2>1 DEF RunJob, STypeOK, TypeOK
  <2>3. job[w] \notin Range(queue) /\ \A v \in Workers : v # w /\ wpc[v] = "running" => job[v] # job[w]
    BY <2>1, <2>2, QueuedNotTaken DEF ClientInv
  <2>4. conn'[c] = IF c = job[w] THEN "closed" ELSE conn[c]
    BY <2>1 DEF STypeOK
  <2> QED
    BY <1>0, <2>1, <2>2, <2>3, <2>4 DEF Held
<1>14. ASSUME NEW w \in Workers, Pooled(w) PROVE conn'[c] = "open" <=> Held(c)'
  <2>1. /\ UNCHANGED <<conn, spc, queue, stop>>
        /\ \A v \in Workers : wpc'[v] = "running" <=> wpc[v] = "running"
        /\ \A v \in Workers : wpc[v] = "running" => job'[v] = job[v]
    BY <1>14 DEF Pooled, Sleep, Exit, Finish, STypeOK, TypeOK, poolVars, server
  <2> QED
    BY <1>0, <2>1 DEF Held
<1>15. CASE Woken
  <2>1. /\ UNCHANGED <<conn, spc, queue, stop, job>>
        /\ \A v \in Workers : wpc'[v] = "running" <=> wpc[v] = "running"
    BY <1>15 DEF Woken, SpuriousOwner, SpuriousWorker, STypeOK, TypeOK, poolVars, server
  <2> QED
    BY <1>0, <2>1 DEF Held
<1>16. ASSUME NEW x \in Jobs, Connect(x) \/ Talk(x) PROVE conn'[c] = "open" <=> Held(c)'
  <2>1. (conn'[c] = "open" <=> conn[c] = "open") /\ UNCHANGED <<pool, spc>>
    BY <1>16 DEF Connect, Talk, server, STypeOK
  <2> QED
    BY <1>0, <2>1 DEF pool, Held
<1> QED
  BY <1>1, <1>2, <1>3, <1>4, <1>5, <1>6, <1>7, <1>8, <1>9, <1>10, <1>11, <1>12,
     <1>13, <1>14, <1>15, <1>16 DEF SNext, Main, Working, svars

-----------------------------------------------------------------------------
(* Numbers and tokens.                                                     *)

\* One digit more, without and with the limit of a long.
Longer(v, d) == 10 * v + d
Saturated(v, d) == IF 10 * v + d > LONG_MAX THEN LONG_MAX ELSE 10 * v + d

\* The conversion of digits as the loop that it is.
LEMMA ToLongRuns ==
  ASSUME NEW ds \in Seq(0..9)
  PROVE  \E v \in [0..Len(ds) -> Nat] :
           /\ v[0] = 0 /\ v[Len(ds)] = to_long(ds)
           /\ \A k \in 1..Len(ds) : v[k] = Saturated(v[k - 1], ds[k])
<1> DEFINE n == Len(ds)
           Def(it) == it = [S \in SUBSET DOMAIN ds |->
             IF S = {} THEN 0 ELSE Saturated(it[S \ {Max(S)}], ds[Max(S)])]
           it == CHOOSE it : Def(it)
           g == [x \in Nat |-> [k \in 1..n |-> Saturated(x, ds[k])]]
<1>1. n \in Nat /\ DOMAIN ds = 1..n /\ \A k \in 1..n : ds[k] \in Nat
  OBVIOUS
<1>2. to_long(ds) = it[1..n]
  BY <1>1 DEF to_long, FoldLeft, MapThenFoldSet, Saturated
<1>3. g \in [Nat -> [1..n -> Nat]]
  BY <1>1, WidthAssumption DEF Saturated
<1>4. \A x \in Nat, k \in 1..n : g[x][k] = Saturated(x, ds[k])
  OBVIOUS
<1>5. \A S \in SUBSET (1..n) : S # {} => Max(S) \in 1..n
  BY <1>1, LargestIndex
<1> HIDE DEF g
<1>6. Def(it)
  <2>1. PICK h : FoldTable(Nat, 0, g, n, h)
    BY <1>1, <1>3, FoldTableExists
  <2>2. Def(h)
    BY <1>1, <1>4, <1>5, <2>1 DEF FoldTable
  <2> QED
    BY <2>2
<1> HIDE DEF it
<1>7. /\ it[{}] = 0
      /\ \A S \in SUBSET (1..n) : S # {} => it[S] = Saturated(it[S \ {Max(S)}], ds[Max(S)])
  BY <1>1, <1>6
<1> HIDE DEF Def
<1>8. FoldRecursion(Nat, 0, g, n, it)
  BY <1>4, <1>5, <1>7 DEF FoldRecursion
<1>9. n \in Nat /\ 0 \in Nat
  BY <1>1
<1>10. \E v : LoopRun(Nat, 0, g, n, v, it[1..n])
  <2> HIDE DEF n
  <2> QED
    BY <1>3, <1>8, <1>9, FoldTrace, Zenon
<1>11. PICK v : LoopRun(Nat, 0, g, n, v, to_long(ds))
  BY <1>2, <1>10
<1>12. \A k \in 1..n : v[k - 1] \in Nat
  BY <1>1, <1>11 DEF LoopRun
<1> QED
  BY <1>4, <1>11, <1>12 DEF LoopRun

\* The value of a text of digits, read from left to right.
LEMMA ValueRuns ==
  ASSUME NEW ds \in Seq(0..9)
  PROVE  \E v \in [0..Len(ds) -> Nat] :
           /\ v[0] = 0 /\ v[Len(ds)] = Value(ds)
           /\ \A k \in 1..Len(ds) : v[k] = Longer(v[k - 1], ds[k])
<1> DEFINE n == Len(ds)
           Def(it) == it = [S \in SUBSET DOMAIN ds |->
             IF S = {} THEN 0 ELSE Longer(it[S \ {Max(S)}], ds[Max(S)])]
           it == CHOOSE it : Def(it)
           g == [x \in Nat |-> [k \in 1..n |-> Longer(x, ds[k])]]
<1>1. n \in Nat /\ DOMAIN ds = 1..n /\ \A k \in 1..n : ds[k] \in Nat
  OBVIOUS
<1>2. Value(ds) = it[1..n]
  BY <1>1 DEF Value, FoldLeft, MapThenFoldSet, Longer
<1>3. g \in [Nat -> [1..n -> Nat]]
  BY <1>1, WidthAssumption DEF Longer
<1>4. \A x \in Nat, k \in 1..n : g[x][k] = Longer(x, ds[k])
  OBVIOUS
<1>5. \A S \in SUBSET (1..n) : S # {} => Max(S) \in 1..n
  BY <1>1, LargestIndex
<1> HIDE DEF g
<1>6. Def(it)
  <2>1. PICK h : FoldTable(Nat, 0, g, n, h)
    BY <1>1, <1>3, FoldTableExists
  <2>2. Def(h)
    BY <1>1, <1>4, <1>5, <2>1 DEF FoldTable
  <2> QED
    BY <2>2
<1> HIDE DEF it
<1>7. /\ it[{}] = 0
      /\ \A S \in SUBSET (1..n) : S # {} => it[S] = Longer(it[S \ {Max(S)}], ds[Max(S)])
  BY <1>1, <1>6
<1> HIDE DEF Def
<1>8. FoldRecursion(Nat, 0, g, n, it)
  BY <1>4, <1>5, <1>7 DEF FoldRecursion
<1>9. n \in Nat /\ 0 \in Nat
  BY <1>1
<1>10. \E v : LoopRun(Nat, 0, g, n, v, it[1..n])
  <2> HIDE DEF n
  <2> QED
    BY <1>3, <1>8, <1>9, FoldTrace, Zenon
<1>11. PICK v : LoopRun(Nat, 0, g, n, v, Value(ds))
  BY <1>2, <1>10
<1>12. \A k \in 1..n : v[k - 1] \in Nat
  BY <1>1, <1>11 DEF LoopRun
<1> QED
  BY <1>4, <1>11, <1>12 DEF LoopRun

\* It gives the value of the text, or the largest long beyond it.
LEMMA ToLongExact ==
  ASSUME NEW ds \in Seq(0..9)
  PROVE  /\ Value(ds) \in Nat
         /\ to_long(ds) = IF Value(ds) > LONG_MAX THEN LONG_MAX ELSE Value(ds)
<1> DEFINE n == Len(ds)
<1>1. PICK v \in [0..n -> Nat] :
        v[0] = 0 /\ v[n] = to_long(ds) /\ \A k \in 1..n : v[k] = Saturated(v[k - 1], ds[k])
  BY ToLongRuns
<1>2. PICK x \in [0..n -> Nat] :
        x[0] = 0 /\ x[n] = Value(ds) /\ \A k \in 1..n : x[k] = Longer(x[k - 1], ds[k])
  BY ValueRuns
<1> DEFINE T == {k \in Nat : v[k] = IF x[k] > LONG_MAX THEN LONG_MAX ELSE x[k]}
<1>3. 0 \in T
  BY <1>1, <1>2, WidthAssumption
<1>4. ASSUME NEW k \in 1..n, k - 1 \in T PROVE k \in T
  <2>0. k - 1 \in 0..n /\ k \in 1..Len(ds)
    OBVIOUS
  <2>1. v[k - 1] \in Nat /\ x[k - 1] \in Nat /\ ds[k] \in Nat
    <3>1. ds[k] \in 0..9
      BY <2>0
    <3>2. v[k - 1] \in Nat /\ x[k - 1] \in Nat
      <4> HIDE DEF n
      <4> QED
        BY <2>0
    <3> QED
      BY <3>1, <3>2
  <2>2. v[k - 1] = IF x[k - 1] > LONG_MAX THEN LONG_MAX ELSE x[k - 1]
    BY <1>4
  <2>3. v[k] = Saturated(v[k - 1], ds[k]) /\ x[k] = Longer(x[k - 1], ds[k])
    BY <1>1, <1>2
  <2>4. v[k] = IF x[k] > LONG_MAX THEN LONG_MAX ELSE x[k]
    BY <2>1, <2>2, <2>3, WidthAssumption DEF Saturated, Longer
  <2> QED
    BY <2>4
<1>5. 0..n \subseteq T
  <2>1. n \in Nat
    OBVIOUS
  <2> HIDE DEF T, n
  <2> QED
    BY <1>3, <1>4, <2>1, InductUpto
<1>6. n \in 0..n
  OBVIOUS
<1> QED
  BY <1>1, <1>2, <1>5, <1>6

\* The cast keeps what fits an int.
LEMMA CastFits ==
  ASSUME NEW v \in 0..INT_MAX
  PROVE  ToInt(v) = v
<1> DEFINE m == 2 * (INT_MAX + 1)
           y == v + INT_MAX + 1
<1>1. m \in Nat \ {0} /\ y \in 0..(m - 1)
  BY WidthAssumption
<1>2. \A a \in Nat \ {0} : \A b \in 0..(a - 1) : b % a = b
  OBVIOUS
<1>3. y % m = y
  <2> HIDE DEF m, y
  <2> QED
    BY <1>1, <1>2
<1> QED
  BY <1>3, WidthAssumption DEF ToInt

\* The characters of a part of a text.
LEMMA PartOf ==
  ASSUME NEW S, NEW s \in Seq(S), NEW a \in 1..(Len(s) + 1), NEW b \in (a - 1)..Len(s)
  PROVE  /\ SubSeq(s, a, b) \in Seq(S) /\ Len(SubSeq(s, a, b)) = (b - a) + 1
         /\ \A j \in 1..((b - a) + 1) : SubSeq(s, a, b)[j] = s[(a - 1) + j]
<1>1. Len(s) \in Nat /\ a \in Int /\ b \in Int /\ a >= 1 /\ b <= Len(s) /\ b >= a - 1
  OBVIOUS
<1>2. Len(SubSeq(s, a, b)) = (b - a) + 1
  BY <1>1
<1>3. ASSUME NEW j \in 1..((b - a) + 1) PROVE SubSeq(s, a, b)[j] = s[(a - 1) + j]
  BY <1>1
<1>4. SubSeq(s, a, b) \in Seq(S)
  BY <1>1
<1> QED
  BY <1>2, <1>3, <1>4

\* A text whose characters from a to b are digits has digits there.
LEMMA DigitsOf ==
  ASSUME NEW s \in Seq(Nat), NEW a \in 1..(Len(s) + 1), NEW b \in (a - 1)..Len(s),
         \A m \in a..b : s[m] \in Digits
  PROVE  SubSeq(s, a, b) \in Seq(0..9)
<1> DEFINE ds == SubSeq(s, a, b)
           n == (b - a) + 1
<1>1. Len(s) \in Nat /\ a \in Int /\ b \in Int /\ n \in Nat
  OBVIOUS
<1>2. ds \in Seq(Nat) /\ Len(ds) = n /\ \A j \in 1..n : ds[j] = s[(a - 1) + j]
  BY PartOf
<1>3. ASSUME NEW j \in 1..n PROVE ds[j] \in 0..9
  <2>1. (a - 1) + j \in a..b
    BY <1>1
  <2> QED
    BY <1>2, <2>1 DEF Digits
<1> HIDE DEF ds, n
<1>4. ds \in [1..n -> 0..9]
  BY <1>2, <1>3
<1>5. ds \in Seq(0..9)
  BY <1>1, <1>4
<1> QED
  BY <1>5 DEF ds

\* Where First stops.
LEMMA FirstStops ==
  ASSUME NEW s \in Seq(Nat), NEW k \in 1..(Len(s) + 1), NEW S
  PROVE  /\ First(s, k, S) \in k..(Len(s) + 1)
         /\ First(s, k, S) = Len(s) + 1 \/ s[First(s, k, S)] \in S
         /\ \A j \in k..(First(s, k, S) - 1) : s[j] \notin S
<1> DEFINE J == {j \in k..(Len(s) + 1) : j = Len(s) + 1 \/ s[j] \in S}
<1>1. Len(s) \in Nat /\ J \subseteq Nat /\ Len(s) + 1 \in J
  OBVIOUS
<1>2. PICK x \in J : \A y \in J : x <= y
  BY <1>1, LeastNumber
<1>3. Min(J) = x
  <2> HIDE DEF J
  <2> QED
    BY <1>1, <1>2, MinIs
<1>4. First(s, k, S) = x
  BY <1>3 DEF First
<1>5. ASSUME NEW j \in k..(x - 1) PROVE s[j] \notin S
  <2>1. j \in k..(Len(s) + 1) /\ ~(x <= j)
    BY <1>1
  <2> QED
    BY <1>2, <2>1
<1> QED
  BY <1>2, <1>4, <1>5

\* m is the first place from k on where it may stop.
StopsAt(s, k, S, m) ==
  /\ m \in k..(Len(s) + 1) /\ (m = Len(s) + 1 \/ s[m] \in S)
  /\ \A j \in k..(m - 1) : s[j] \notin S

\* That is where it stops.
LEMMA FirstIs ==
  ASSUME NEW s \in Seq(Nat), NEW k \in 1..(Len(s) + 1), NEW S, NEW m, StopsAt(s, k, S, m)
  PROVE  First(s, k, S) = m
<1> USE DEF StopsAt
<1> DEFINE f == First(s, k, S)
<1>1. /\ f \in k..(Len(s) + 1) /\ (f = Len(s) + 1 \/ s[f] \in S)
      /\ \A j \in k..(f - 1) : s[j] \notin S
  BY FirstStops
<1>0. Len(s) \in Nat
  OBVIOUS
<1> HIDE DEF f
<1>2. ~(f < m)
  <2> SUFFICES ASSUME f < m PROVE FALSE
    OBVIOUS
  <2>1. f \in k..(m - 1) /\ f # Len(s) + 1
    BY <1>0, <1>1
  <2> QED
    BY <1>1, <2>1
<1>3. ~(m < f)
  <2> SUFFICES ASSUME m < f PROVE FALSE
    OBVIOUS
  <2>1. m \in k..(f - 1) /\ m # Len(s) + 1
    BY <1>0, <1>1
  <2> QED
    BY <1>1, <2>1
<1>4. f = m
  BY <1>0, <1>1, <1>2, <1>3
<1> QED
  BY <1>4 DEF f

\* The digits of a token that is a number begin at k.
NumberFrom(token, k) ==
  /\ \A m \in k..Len(token) : token[m] \in Digits
  /\ \A m \in 1..(k - 1) : token[m] \in White \/ (m = k - 1 /\ token[m] = PLUS)

\* strtol finds them.
LEMMA NumberFound ==
  ASSUME NEW s \in Seq(Nat), NEW k \in 1..Len(s), NumberFrom(s, k)
  PROVE  LET n == number_at(s) IN
         /\ n.digits = k /\ n.end = Len(s) + 1
         /\ ~(n.sign < n.digits /\ s[n.sign] = MINUS)
<1> DEFINE a == First(s, 1, Nat \ White)
           b == IF a <= Len(s) /\ s[a] \in {PLUS, MINUS} THEN a + 1 ELSE a
<1>0. Len(s) \in Nat /\ s[k] \in Digits /\ s[k] \in Nat
  BY DEF NumberFrom
<1>1. b = k /\ a \in 1..k /\ (a < k => s[a] = PLUS)
  <2>1. CASE k > 1 /\ s[k - 1] = PLUS
    <3>1. a = k - 1
      <4>1. /\ k - 1 \in 1..(Len(s) + 1) /\ s[k - 1] \in Nat \ White
            /\ \A j \in 1..((k - 1) - 1) : s[j] \notin Nat \ White
        BY <1>0, <2>1 DEF NumberFrom, White, PLUS, BLANK, CRLF
      <4>2. StopsAt(s, 1, Nat \ White, k - 1)
        BY <4>1 DEF StopsAt
      <4>3. 1 \in 1..(Len(s) + 1)
        BY <1>0
      <4> QED
        BY <4>2, <4>3, FirstIs
    <3> QED
      BY <1>0, <2>1, <3>1
  <2>2. CASE ~(k > 1 /\ s[k - 1] = PLUS)
    <3>1. a = k
      <4>1. /\ k \in 1..(Len(s) + 1) /\ s[k] \in Nat \ White
        BY <1>0 DEF Digits, White, BLANK, CRLF
      <4>2. ASSUME NEW j \in 1..(k - 1) PROVE s[j] \notin Nat \ White
        BY <1>0, <2>2 DEF NumberFrom
      <4>3. StopsAt(s, 1, Nat \ White, k)
        BY <4>1, <4>2 DEF StopsAt
      <4>4. 1 \in 1..(Len(s) + 1)
        BY <1>0
      <4> QED
        BY <4>3, <4>4, FirstIs
    <3> QED
      BY <1>0, <3>1 DEF Digits, PLUS, MINUS
  <2> QED
    BY <2>1, <2>2
<1>2. First(s, k, Nat \ Digits) = Len(s) + 1
  <2>1. /\ Len(s) + 1 \in k..(Len(s) + 1)
        /\ \A j \in k..((Len(s) + 1) - 1) : s[j] \notin Nat \ Digits
    BY <1>0 DEF NumberFrom
  <2>2. StopsAt(s, k, Nat \ Digits, Len(s) + 1)
    BY <2>1 DEF StopsAt
  <2>3. k \in 1..(Len(s) + 1)
    BY <1>0
  <2> QED
    BY <2>2, <2>3, FirstIs
<1>3. number_at(s) = [sign |-> a, digits |-> k, end |-> Len(s) + 1]
  BY <1>1, <1>2 DEF number_at
<1> QED
  BY <1>0, <1>1, <1>3 DEF PLUS, MINUS

\* And what it finds is such a number, if no minus is before it.
LEMMA FoundNumber ==
  ASSUME NEW s \in Seq(Nat), number_at(s).end = Len(s) + 1,
         number_at(s).digits \in 1..Len(s),
         ~(number_at(s).sign < number_at(s).digits /\ s[number_at(s).sign] = MINUS)
  PROVE  NumberFrom(s, number_at(s).digits)
<1> DEFINE a == First(s, 1, Nat \ White)
           b == IF a <= Len(s) /\ s[a] \in {PLUS, MINUS} THEN a + 1 ELSE a
           e == First(s, b, Nat \ Digits)
<1>0. Len(s) \in Nat /\ 1 \in 1..(Len(s) + 1)
  OBVIOUS
<1>1. number_at(s).sign = a /\ number_at(s).digits = b /\ number_at(s).end = e
  BY DEF number_at
<1>2. /\ a \in 1..(Len(s) + 1)
      /\ \A j \in 1..(a - 1) : s[j] \notin Nat \ White
  BY <1>0, FirstStops
<1>3. b \in 1..(Len(s) + 1) /\ (b = a \/ (b = a + 1 /\ s[a] \in {PLUS, MINUS}))
  BY <1>0, <1>2
<1>4. \A j \in b..(e - 1) : s[j] \notin Nat \ Digits
  <2> HIDE DEF b
  <2> QED
    BY <1>3, FirstStops
<1>5. \A j \in 1..Len(s) : s[j] \in Nat
  OBVIOUS
<1> HIDE DEF a, b, e
<1>6. \A m \in b..Len(s) : s[m] \in Digits
  <2>1. e = Len(s) + 1
    BY <1>1
  <2> QED
    BY <1>0, <1>3, <1>4, <1>5, <2>1
<1>7. ASSUME NEW m \in 1..(b - 1)
      PROVE  s[m] \in White \/ (m = b - 1 /\ s[m] = PLUS)
  <2>1. CASE m < a
    BY <1>0, <1>1, <1>2, <1>3, <1>5, <2>1
  <2>2. CASE m >= a
    <3>1. m = a /\ b = a + 1 /\ s[a] \in {PLUS, MINUS}
      BY <1>0, <1>2, <1>3, <2>2
    <3> QED
      BY <1>1, <1>2, <3>1
  <2> QED
    BY <1>2, <1>3, <2>1, <2>2
<1> QED
  BY <1>1, <1>6, <1>7 DEF NumberFrom

\* auth_parse gives the role and the user that the token names, for tokens and
\* admin tokens of every length.
LEMMA TokenExact ==
  ASSUME NEW token \in Seq(Nat), NEW t
  PROVE  TokenIsUser(token, t)
<1> DEFINE a == auth_parse(token, t)
           n == number_at(token)
           id == strtol(token)
           ds == SubSeq(token, n.digits, n.end - 1)
<1>0. Len(token) \in Nat
  OBVIOUS
<1>1. a.role = "admin" <=> token = t /\ token # <<>>
  BY DEF auth_parse, NoAuth
<1>2. a.role = "user" <=> token # <<>> /\ token # t /\ id.whole /\ id.value > 0
  BY DEF auth_parse, NoAuth
<1>3. a.role = "user" => a.user = ToInt(id.value)
  BY DEF auth_parse, NoAuth
<1>4. /\ id.whole = (n.end = Len(token) + 1)
      /\ id.value = IF n.sign < n.digits /\ token[n.sign] = MINUS THEN -to_long(ds) ELSE to_long(ds)
  BY DEF strtol
<1>5. Named(token) = {Value(SubSeq(token, k, Len(token))) : k \in {j \in 1..Len(token) : NumberFrom(token, j)}}
  BY DEF Named, NumberFrom
<1>6. ASSUME NEW k \in 1..Len(token), NumberFrom(token, k)
      PROVE  /\ id.whole /\ ds = SubSeq(token, k, Len(token)) /\ id.value = to_long(ds)
             /\ Value(ds) \in Nat
             /\ to_long(ds) = IF Value(ds) > LONG_MAX THEN LONG_MAX ELSE Value(ds)
             /\ \A j \in 1..Len(token) : NumberFrom(token, j) => j = k
  <2>1. /\ n.digits = k /\ n.end = Len(token) + 1
        /\ ~(n.sign < n.digits /\ token[n.sign] = MINUS)
    BY <1>6, NumberFound
  <2>2. ds = SubSeq(token, k, Len(token))
    BY <1>0, <2>1
  <2>3. ds \in Seq(0..9)
    <3>1. \A m \in k..Len(token) : token[m] \in Digits
      BY <1>6 DEF NumberFrom
    <3>2. SubSeq(token, k, Len(token)) \in Seq(0..9)
      <4>1. k \in 1..(Len(token) + 1) /\ Len(token) \in (k - 1)..Len(token)
        BY <1>0
      <4> QED
        BY <3>1, <4>1, DigitsOf
    <3> QED
      BY <2>2, <3>2
  <2>4. \A j \in 1..Len(token) : NumberFrom(token, j) => j = k
    BY <2>1, NumberFound
  <2>5. /\ Value(ds) \in Nat
        /\ to_long(ds) = IF Value(ds) > LONG_MAX THEN LONG_MAX ELSE Value(ds)
    <3> HIDE DEF ds
    <3> QED
      BY <2>3, ToLongExact
  <2>6. id.whole /\ id.value = to_long(ds)
    <3> HIDE DEF ds, id, n
    <3> QED
      BY <1>4, <2>1
  <2> QED
    BY <2>2, <2>4, <2>5, <2>6
<1>7. ASSUME id.whole, id.value > 0 PROVE n.digits \in 1..Len(token) /\ NumberFrom(token, n.digits)
  <2>1. n.end = Len(token) + 1
    BY <1>4, <1>7
  <2>2. /\ n.digits \in 1..(Len(token) + 1)
        /\ \A j \in n.digits..(n.end - 1) : token[j] \in Digits
    <3> DEFINE x == First(token, 1, Nat \ White)
               b == IF x <= Len(token) /\ token[x] \in {PLUS, MINUS} THEN x + 1 ELSE x
    <3>1. x \in 1..(Len(token) + 1)
      BY <1>0, FirstStops
    <3>2. b \in 1..(Len(token) + 1)
      BY <1>0, <3>1
    <3>3. n.digits = b /\ n.end = First(token, b, Nat \ Digits)
      BY DEF number_at
    <3>4. \A j \in 1..Len(token) : token[j] \in Nat
      OBVIOUS
    <3> HIDE DEF b, n
    <3>5. \A j \in b..(n.end - 1) : token[j] \notin Nat \ Digits
      BY <3>2, <3>3, FirstStops
    <3> QED
      BY <1>0, <2>1, <3>2, <3>3, <3>4, <3>5
  <2>3. ds \in Seq(0..9)
    <3>1. n.end - 1 \in (n.digits - 1)..Len(token)
      <4> HIDE DEF n
      <4> QED BY <1>0, <2>1, <2>2
    <3> HIDE DEF n
    <3> QED
      BY <2>2, <3>1, DigitsOf
  <2>4. to_long(ds) \in Nat
    <3> HIDE DEF ds
    <3> QED BY <2>3, ToLongExact, WidthAssumption
  <2>5. ~(n.sign < n.digits /\ token[n.sign] = MINUS) /\ to_long(ds) > 0
    <3> HIDE DEF n, ds, id
    <3> QED BY <1>4, <1>7, <2>4
  <2>6. n.digits <= Len(token)
    <3> SUFFICES ASSUME n.digits = Len(token) + 1 PROVE FALSE
      <4> HIDE DEF n
      <4> QED BY <1>0, <2>2
    <3>1. ds = <<>>
      <4> HIDE DEF n
      <4> QED BY <1>0, <2>1
    <3>2. Value(<<>>) = 0
      <4>1. <<>> \in Seq(0..9) /\ Len(<<>>) = 0
        OBVIOUS
      <4> QED
        BY <4>1, ValueRuns
    <3>3. Value(ds) = 0
      BY <3>1, <3>2
    <3>4. to_long(ds) = 0
      <4> HIDE DEF ds
      <4> QED BY <2>3, <3>3, ToLongExact, WidthAssumption
    <3> QED
      BY <2>5, <3>4
  <2>7. n.digits \in 1..Len(token)
    <3> HIDE DEF n
    <3> QED BY <1>0, <2>2, <2>6
  <2> QED
    BY <2>1, <2>5, <2>7, FoundNumber
<1>8. id.whole /\ id.value > 0 <=> \E v \in Named(token) : v > 0
  <2>1. ASSUME id.whole, id.value > 0 PROVE \E v \in Named(token) : v > 0
    <3>1. n.digits \in 1..Len(token) /\ NumberFrom(token, n.digits)
      BY <1>7, <2>1
    <3>2. /\ ds = SubSeq(token, n.digits, Len(token)) /\ id.value = to_long(ds)
          /\ Value(ds) \in Nat
          /\ to_long(ds) = IF Value(ds) > LONG_MAX THEN LONG_MAX ELSE Value(ds)
      BY <1>6, <3>1
    <3>3. Value(ds) \in Named(token)
      <4> HIDE DEF n, ds
      <4> QED BY <1>5, <3>1, <3>2
    <3>4. Value(ds) > 0
      <4> HIDE DEF ds, id
      <4> QED BY <2>1, <3>2, WidthAssumption
    <3> QED
      BY <3>3, <3>4
  <2>2. ASSUME NEW v \in Named(token), v > 0 PROVE id.whole /\ id.value > 0
    <3>1. PICK k \in 1..Len(token) : NumberFrom(token, k) /\ v = Value(SubSeq(token, k, Len(token)))
      BY <1>5
    <3>2. /\ id.whole /\ id.value = to_long(ds) /\ Value(ds) = v /\ v \in Nat
          /\ to_long(ds) = IF Value(ds) > LONG_MAX THEN LONG_MAX ELSE Value(ds)
      <4> HIDE DEF ds, id
      <4> QED BY <1>6, <3>1
    <3> HIDE DEF ds, id
    <3> QED
      BY <2>2, <3>2, WidthAssumption
  <2> QED
    BY <2>1, <2>2
<1>9. token = <<>> => Named(token) = {}
  BY <1>5
<1>10. a.role = "user" => \A v \in Named(token) : a.user = v \/ v > INT_MAX
  <2> SUFFICES ASSUME a.role = "user", NEW v \in Named(token), ~(v > INT_MAX) PROVE a.user = v
    OBVIOUS
  <2>1. PICK k \in 1..Len(token) : NumberFrom(token, k) /\ v = Value(SubSeq(token, k, Len(token)))
    BY <1>5
  <2>2. v \in 0..INT_MAX /\ id.value = v
    <3>1. /\ id.value = to_long(ds) /\ Value(ds) = v /\ v \in Nat
          /\ to_long(ds) = IF Value(ds) > LONG_MAX THEN LONG_MAX ELSE Value(ds)
      <4> HIDE DEF ds, id
      <4> QED BY <1>6, <2>1
    <3> HIDE DEF ds, id
    <3> QED BY <3>1, WidthAssumption
  <2> QED
    BY <1>3, <2>2, CastFits
<1>11. a.role = "user" <=> token # t /\ \E v \in Named(token) : v > 0
  <2> HIDE DEF a, id
  <2> QED BY <1>2, <1>8, <1>9
<1> QED
  BY <1>1, <1>10, <1>11 DEF TokenIsUser

-----------------------------------------------------------------------------
(* The parts of a request's text.                                          *)

\* Where its parts are, when its path, token and number have p, t and d characters.
Laid(x, r, p, t, d) ==
  /\ x \in Seq(Nat) /\ Len(x) = 14 + p + t + d
  /\ x[1] = r.method /\ x[2] = BLANK /\ (\A k \in 1..p : x[2 + k] = r.path[k])
  /\ x[3 + p] = BLANK /\ x[4 + p] = HTTP /\ x[5 + p] = CRLF /\ x[6 + p] = LINE
  /\ x[7 + p] = CRLF /\ x[8 + p] = AUTH /\ (\A k \in 1..t : x[8 + p + k] = r.token[k])
  /\ x[9 + p + t] = CRLF /\ x[10 + p + t] = LINE /\ x[11 + p + t] = CRLF
  /\ x[12 + p + t] = CRLF /\ x[13 + p + t] = KEY
  /\ (\A k \in 1..d : x[13 + p + t + k] = r.number[k])
  /\ x[14 + p + t + d] = BRACE

\* w is s and u behind it, where s has m characters.
IsJoin(s, u, m, w) ==
  /\ w \in Seq(Nat) /\ Len(w) = m + Len(u)
  /\ \A k \in 1..m : w[k] = s[k]
  /\ \A k \in 1..Len(u) : w[m + k] = u[k]

\* What \o gives.
LEMMA TextsJoined ==
  ASSUME NEW s \in Seq(Nat), NEW u \in Seq(Nat)
  PROVE  IsJoin(s, u, Len(s), s \o u)
<1>1. Len(s) \in Nat /\ Len(u) \in Nat
  OBVIOUS
<1>2. ASSUME NEW k \in 1..Len(u) PROVE (s \o u)[Len(s) + k] = u[k]
  BY <1>1
<1> QED
  BY <1>2 DEF IsJoin

\* A text over some characters is one over more of them.
LEMMA WiderText ==
  ASSUME NEW S, NEW T, S \subseteq T, NEW s \in Seq(S)
  PROVE  s \in Seq(T)
<1>1. Len(s) \in Nat /\ s \in [1..Len(s) -> S]
  OBVIOUS
<1>2. s \in [1..Len(s) -> T]
  BY <1>1
<1> QED
  BY <1>1, <1>2

\* Texts with the same characters are the same.
LEMMA SameText ==
  ASSUME NEW s \in Seq(Nat), NEW u \in Seq(Nat), Len(s) = Len(u),
         \A k \in 1..Len(s) : s[k] = u[k]
  PROVE  s = u
  OBVIOUS

\* The text of a request is laid out like this.
LEMMA TextLaid ==
  ASSUME NEW r, IsRequest(r)
  PROVE  Laid(Text(r), r, Len(r.path), Len(r.token), Len(r.number))
<1> USE DEF BLANK, CRLF, HTTP, AUTH, LINE, KEY, BRACE
<1> DEFINE p == Len(r.path)
           t == Len(r.token)
           d == Len(r.number)
           u1 == <<r.method, BLANK>>
           u2 == <<BLANK, HTTP, CRLF, LINE, CRLF, AUTH>>
           u3 == <<CRLF, LINE, CRLF, CRLF, KEY>>
           u4 == <<BRACE>>
           x1 == u1 \o r.path
           x2 == x1 \o u2
           x3 == x2 \o r.token
           x4 == x3 \o u3
           x5 == x4 \o r.number
           x6 == x5 \o u4
<1>0. r.path \in Seq(Nat) /\ r.token \in Seq(Nat) /\ r.number \in Seq(Nat) /\ r.method \in Nat
  <2>1. Nat \ White \subseteq Nat /\ Nat \ {CRLF} \subseteq Nat /\ Digits \subseteq Nat
    BY DEF Digits
  <2>2. /\ r.path \in Seq(Nat \ White) /\ r.token \in Seq(Nat \ {CRLF}) /\ r.number \in Seq(Digits)
        /\ r.method \in Nat
    BY DEF IsRequest, Methods
  <2> QED
    BY <2>1, <2>2, WiderText
<1>1. p \in Nat /\ t \in Nat /\ d \in Nat
  BY <1>0
<1>2. /\ u1 \in Seq(Nat) /\ u2 \in Seq(Nat) /\ u3 \in Seq(Nat) /\ u4 \in Seq(Nat)
      /\ Len(u1) = 2 /\ Len(u2) = 6 /\ Len(u3) = 5 /\ Len(u4) = 1
      /\ u1[1] = r.method /\ u1[2] = BLANK
      /\ u2[1] = BLANK /\ u2[2] = HTTP /\ u2[3] = CRLF /\ u2[4] = LINE /\ u2[5] = CRLF /\ u2[6] = AUTH
      /\ u3[1] = CRLF /\ u3[2] = LINE /\ u3[3] = CRLF /\ u3[4] = CRLF /\ u3[5] = KEY
      /\ u4[1] = BRACE
  BY <1>0
<1> HIDE DEF u1, u2, u3, u4
<1>3. /\ x1 \in Seq(Nat) /\ Len(x1) = 2 + p /\ x1[1] = r.method /\ x1[2] = BLANK
      /\ \A k \in 1..p : x1[2 + k] = r.path[k]
  <2>1. IsJoin(u1, r.path, Len(u1), x1)
    BY <1>0, <1>2, TextsJoined
  <2> HIDE DEF x1
  <2>2. /\ x1 \in Seq(Nat) /\ Len(x1) = 2 + p /\ (\A k \in 1..2 : x1[k] = u1[k])
        /\ \A k \in 1..p : x1[2 + k] = r.path[k]
    BY <1>2, <2>1 DEF IsJoin
  <2>3. 1 \in 1..2 /\ 2 \in 1..2
    OBVIOUS
  <2> QED
    BY <1>2, <2>2, <2>3
<1> HIDE DEF x1
<1>4. /\ x2 \in Seq(Nat) /\ Len(x2) = 8 + p /\ (\A k \in 1..(2 + p) : x2[k] = x1[k])
      /\ \A k \in 1..6 : x2[2 + p + k] = u2[k]
  <2>1. IsJoin(x1, u2, Len(x1), x2)
    BY <1>1, <1>2, <1>3, TextsJoined
  <2> HIDE DEF x2
  <2> QED
    BY <1>1, <1>2, <1>3, <2>1 DEF IsJoin
<1>5. /\ x2[3 + p] = BLANK /\ x2[4 + p] = HTTP /\ x2[5 + p] = CRLF /\ x2[6 + p] = LINE
      /\ x2[7 + p] = CRLF /\ x2[8 + p] = AUTH
  <2> HIDE DEF x2, p
  <2>1. /\ x2[2 + p + 1] = u2[1] /\ x2[2 + p + 2] = u2[2] /\ x2[2 + p + 3] = u2[3]
        /\ x2[2 + p + 4] = u2[4] /\ x2[2 + p + 5] = u2[5] /\ x2[2 + p + 6] = u2[6]
    BY <1>4
  <2> QED
    BY <1>1, <1>2, <2>1
<1> HIDE DEF x2
<1>6. /\ x3 \in Seq(Nat) /\ Len(x3) = 8 + p + t /\ (\A k \in 1..(8 + p) : x3[k] = x2[k])
      /\ \A k \in 1..t : x3[8 + p + k] = r.token[k]
  <2>1. IsJoin(x2, r.token, Len(x2), x3)
    BY <1>0, <1>1, <1>4, TextsJoined
  <2> HIDE DEF x3
  <2> QED
    BY <1>0, <1>1, <1>4, <2>1 DEF IsJoin
<1> HIDE DEF x3
<1>7. /\ x4 \in Seq(Nat) /\ Len(x4) = 13 + p + t /\ (\A k \in 1..(8 + p + t) : x4[k] = x3[k])
      /\ \A k \in 1..5 : x4[8 + p + t + k] = u3[k]
  <2>1. IsJoin(x3, u3, Len(x3), x4)
    BY <1>1, <1>2, <1>6, TextsJoined
  <2> HIDE DEF x4, p, t
  <2> QED
    BY <1>1, <1>2, <1>6, <2>1 DEF IsJoin
<1>8. /\ x4[9 + p + t] = CRLF /\ x4[10 + p + t] = LINE /\ x4[11 + p + t] = CRLF
      /\ x4[12 + p + t] = CRLF /\ x4[13 + p + t] = KEY
  <2> HIDE DEF x4, p, t
  <2>1. /\ x4[8 + p + t + 1] = u3[1] /\ x4[8 + p + t + 2] = u3[2] /\ x4[8 + p + t + 3] = u3[3]
        /\ x4[8 + p + t + 4] = u3[4] /\ x4[8 + p + t + 5] = u3[5]
    BY <1>7
  <2> QED
    BY <1>1, <1>2, <2>1
<1> HIDE DEF x4
<1>9. /\ x5 \in Seq(Nat) /\ Len(x5) = 13 + p + t + d /\ (\A k \in 1..(13 + p + t) : x5[k] = x4[k])
      /\ \A k \in 1..d : x5[13 + p + t + k] = r.number[k]
  <2>1. IsJoin(x4, r.number, Len(x4), x5)
    BY <1>0, <1>1, <1>7, TextsJoined
  <2> HIDE DEF x5
  <2> QED
    BY <1>0, <1>1, <1>7, <2>1 DEF IsJoin
<1> HIDE DEF x5
<1>10. /\ x6 \in Seq(Nat) /\ Len(x6) = 14 + p + t + d /\ (\A k \in 1..(13 + p + t + d) : x6[k] = x5[k])
       /\ x6[14 + p + t + d] = BRACE
  <2>1. /\ x6 \in Seq(Nat) /\ Len(x6) = 13 + p + t + d + 1
        /\ (\A k \in 1..(13 + p + t + d) : x6[k] = x5[k])
        /\ x6[13 + p + t + d + 1] = u4[1]
    <3>1. IsJoin(x5, u4, Len(x5), x6)
      BY <1>2, <1>9, TextsJoined
    <3> HIDE DEF x6, p, t, d
    <3> QED
      BY <1>1, <1>2, <1>9, <3>1 DEF IsJoin
  <2> HIDE DEF x6, p, t, d
  <2> QED
    BY <1>1, <1>2, <2>1
<1>11. Text(r) = x6
  BY DEF Text, u1, u2, u3, u4, x1, x2, x3, x4, x5
<1> HIDE DEF x6
<1>12. ASSUME NEW k \in 1..(13 + p + t) PROVE x6[k] = x4[k]
  <2> HIDE DEF p, t, d
  <2>1. k \in 1..(13 + p + t + d)
    BY <1>1
  <2> QED
    BY <1>1, <1>9, <1>10, <2>1
<1>13. ASSUME NEW k \in 1..(8 + p + t) PROVE x6[k] = x3[k]
  <2> HIDE DEF p, t, d
  <2>1. k \in 1..(13 + p + t)
    BY <1>1
  <2> QED
    BY <1>1, <1>7, <1>12, <2>1
<1>14. \A k \in 1..(8 + p) : x6[k] = x2[k]
  <2> HIDE DEF p, t, d
  <2> QED
    BY <1>1, <1>6, <1>13
<1>15. ASSUME NEW k \in 1..(2 + p) PROVE x6[k] = x1[k]
  <2> HIDE DEF p, t, d
  <2>1. k \in 1..(8 + p)
    BY <1>1
  <2> QED
    BY <1>1, <1>4, <1>14, <2>1
<1>16. x6[1] = r.method /\ x6[2] = BLANK /\ \A k \in 1..p : x6[2 + k] = r.path[k]
  <2> HIDE DEF p, t, d
  <2> QED
    BY <1>1, <1>3, <1>15
<1>17. /\ x6[3 + p] = BLANK /\ x6[4 + p] = HTTP /\ x6[5 + p] = CRLF /\ x6[6 + p] = LINE
       /\ x6[7 + p] = CRLF /\ x6[8 + p] = AUTH
  <2> HIDE DEF p, t, d
  <2> QED
    BY <1>1, <1>5, <1>14
<1>18. ASSUME NEW k \in 1..t PROVE x6[8 + p + k] = r.token[k]
  <2> HIDE DEF p, t, d
  <2>1. 8 + p + k \in 1..(8 + p + t)
    BY <1>1
  <2>2. x6[8 + p + k] = x3[8 + p + k]
    BY <1>13, <2>1
  <2> QED
    BY <1>6, <2>2
<1>19. /\ x6[9 + p + t] = CRLF /\ x6[10 + p + t] = LINE /\ x6[11 + p + t] = CRLF
       /\ x6[12 + p + t] = CRLF /\ x6[13 + p + t] = KEY
  <2> HIDE DEF p, t, d
  <2> QED
    BY <1>1, <1>8, <1>12
<1>20. \A k \in 1..d : x6[13 + p + t + k] = r.number[k]
  <2> HIDE DEF p, t, d
  <2> QED
    BY <1>1, <1>9, <1>10
<1> QED
  BY <1>10, <1>11, <1>16, <1>17, <1>18, <1>19, <1>20 DEF Laid

\* What Cut keeps.
LEMMA CutKeeps ==
  ASSUME NEW s \in Seq(Nat), NEW n \in Nat
  PROVE  /\ Cut(s, n) \in Seq(Nat) /\ Len(Cut(s, n)) = (IF Len(s) <= n THEN Len(s) ELSE n)
         /\ \A k \in 1..Len(Cut(s, n)) : Cut(s, n)[k] = s[k]
<1> DEFINE m == IF Len(s) <= n THEN Len(s) ELSE n
<1>1. Len(s) \in Nat /\ m \in 0..Len(s)
  OBVIOUS
<1>2. Cut(s, n) = SubSeq(s, 1, m)
  BY DEF Cut
<1> HIDE DEF m
<1>3. /\ SubSeq(s, 1, m) \in Seq(Nat) /\ Len(SubSeq(s, 1, m)) = (m - 1) + 1
      /\ \A j \in 1..((m - 1) + 1) : SubSeq(s, 1, m)[j] = s[(1 - 1) + j]
  <2>1. 1 \in 1..(Len(s) + 1) /\ m \in (1 - 1)..Len(s)
    BY <1>1
  <2> QED
    BY <2>1, PartOf
<1>4. /\ SubSeq(s, 1, m) \in Seq(Nat) /\ Len(SubSeq(s, 1, m)) = m
      /\ \A j \in 1..m : SubSeq(s, 1, m)[j] = s[j]
  BY <1>1, <1>3
<1> QED
  BY <1>2, <1>4 DEF m

\* The characters that the parts are made of.
Sound(r, p, t, d) ==
  /\ r.method \in Methods
  /\ \A j \in 1..p : r.path[j] \in Nat \ White
  /\ \A j \in 1..t : r.token[j] \in Nat \ {CRLF}
  /\ \A j \in 1..d : r.number[j] \in Digits

\* The ends of lines in a request are its five.
LEMMA LineEnds ==
  ASSUME NEW p \in Nat, NEW t \in Nat, NEW d \in Nat, NEW r, NEW x,
         Laid(x, r, p, t, d), Sound(r, p, t, d), NEW k \in 1..(14 + p + t + d)
  PROVE  x[k] = CRLF <=> k \in {5 + p, 7 + p, 9 + p + t, 11 + p + t, 12 + p + t}
<1>1. \A j \in 1..p : r.path[j] # CRLF
  BY DEF Sound, White
<1>2. \A j \in 1..t : r.token[j] # CRLF
  BY DEF Sound
<1>3. \A j \in 1..d : r.number[j] # CRLF
  BY DEF Sound, Digits, CRLF
<1>4. r.method # CRLF
  BY DEF Sound, Methods, CRLF
<1>5. CASE k \in 1..2
  <2>1. k \in {1, 2} /\ x[1] = r.method /\ x[2] = BLANK
    BY <1>5 DEF Laid
  <2> QED
    BY <1>4, <2>1 DEF BLANK, CRLF
<1>6. CASE k \in 3..(2 + p)
  <2>1. k - 2 \in 1..p /\ k = 2 + (k - 2)
    BY <1>6
  <2>2. x[k] = r.path[k - 2]
    BY <2>1 DEF Laid
  <2> QED
    BY <1>1, <1>6, <2>1, <2>2
<1>7. CASE k \in (3 + p)..(8 + p)
  <2>1. k \in {3 + p, 4 + p, 5 + p, 6 + p, 7 + p, 8 + p}
    BY <1>7
  <2>2. /\ x[3 + p] = BLANK /\ x[4 + p] = HTTP /\ x[5 + p] = CRLF /\ x[6 + p] = LINE
        /\ x[7 + p] = CRLF /\ x[8 + p] = AUTH
    BY DEF Laid
  <2> QED
    BY <2>1, <2>2 DEF BLANK, HTTP, CRLF, LINE, AUTH
<1>8. CASE k \in (9 + p)..(8 + p + t)
  <2>1. k - (8 + p) \in 1..t /\ k = 8 + p + (k - (8 + p))
    BY <1>8
  <2>2. x[k] = r.token[k - (8 + p)]
    BY <2>1 DEF Laid
  <2> QED
    BY <1>2, <1>8, <2>1, <2>2
<1>9. CASE k \in (9 + p + t)..(13 + p + t)
  <2>1. k \in {9 + p + t, 10 + p + t, 11 + p + t, 12 + p + t, 13 + p + t}
    BY <1>9
  <2>2. /\ x[9 + p + t] = CRLF /\ x[10 + p + t] = LINE /\ x[11 + p + t] = CRLF
        /\ x[12 + p + t] = CRLF /\ x[13 + p + t] = KEY
    BY DEF Laid
  <2> QED
    BY <2>1, <2>2 DEF CRLF, LINE, KEY
<1>10. CASE k \in (14 + p + t)..(13 + p + t + d)
  <2>1. k - (13 + p + t) \in 1..d /\ k = 13 + p + t + (k - (13 + p + t))
    BY <1>10
  <2>2. x[k] = r.number[k - (13 + p + t)]
    BY <2>1 DEF Laid
  <2> QED
    BY <1>3, <1>10, <2>1, <2>2
<1>11. CASE k = 14 + p + t + d
  <2>1. x[k] = BRACE
    BY <1>11 DEF Laid
  <2> QED
    BY <1>11, <2>1 DEF BRACE, CRLF
<1> QED
  BY <1>5, <1>6, <1>7, <1>8, <1>9, <1>10, <1>11

\* %d takes of the rest of a body the digits that are there.
LEMMA DigitsRead ==
  ASSUME NEW s \in Seq(Nat), NEW num \in Seq(Digits), Len(s) <= Len(num) + 1,
         \A k \in 1..Len(s) : s[k] = IF k <= Len(num) THEN num[k] ELSE BRACE,
         NEW m, m = IF Len(s) <= Len(num) THEN Len(s) ELSE Len(num)
  PROVE  percent_d(s) = SubSeq(num, 1, m)
<1>0. Len(s) \in Nat /\ Len(num) \in Nat /\ m \in 0..Len(s) /\ m \in 0..Len(num)
  OBVIOUS
<1>1. \A k \in 1..Len(s) : s[k] \in Digits \cup {BRACE}
  <2>1. \A k \in 1..Len(num) : num[k] \in Digits
    OBVIOUS
  <2> QED
    BY <1>0, <2>1
<1>2. First(s, 1, Nat \ White) = 1
  <2>1. StopsAt(s, 1, Nat \ White, 1)
    BY <1>0, <1>1 DEF StopsAt, Digits, BRACE, White, BLANK, CRLF
  <2>2. 1 \in 1..(Len(s) + 1)
    BY <1>0
  <2> QED
    BY <2>1, <2>2, FirstIs
<1>3. ~(1 <= Len(s) /\ s[1] \in {PLUS, MINUS})
  <2>1. 1 <= Len(s) => s[1] \in Digits \cup {BRACE}
    BY <1>0, <1>1
  <2> QED
    BY <2>1 DEF Digits, BRACE, PLUS, MINUS
<1>4. First(s, 1, Nat \ Digits) = m + 1
  <2>1. \A j \in 1..m : s[j] \in Digits
    <3>1. \A k \in 1..Len(num) : num[k] \in Digits
      OBVIOUS
    <3> QED
      BY <1>0, <3>1
  <2>2. m + 1 = Len(s) + 1 \/ s[m + 1] \in Nat \ Digits
    <3>1. CASE Len(s) <= Len(num)
      BY <1>0, <3>1
    <3>2. CASE ~(Len(s) <= Len(num))
      <4>1. m + 1 \in 1..Len(s) /\ ~(m + 1 <= Len(num))
        BY <1>0, <3>2
      <4>2. s[m + 1] = BRACE
        BY <4>1
      <4> QED
        BY <4>2 DEF BRACE, Digits
    <3> QED
      BY <3>1, <3>2
  <2>3. StopsAt(s, 1, Nat \ Digits, m + 1)
    <3>1. m + 1 \in 1..(Len(s) + 1) /\ (m + 1) - 1 = m
      BY <1>0
    <3> QED
      BY <2>1, <2>2, <3>1 DEF StopsAt
  <2>4. 1 \in 1..(Len(s) + 1)
    BY <1>0
  <2> QED
    BY <2>3, <2>4, FirstIs
<1>5. number_at(s) = [sign |-> 1, digits |-> 1, end |-> m + 1]
  BY <1>2, <1>3, <1>4 DEF number_at
<1>6. percent_d(s) = SubSeq(s, 1, m)
  <2>1. percent_d(s) = IF m + 1 > 1 THEN SubSeq(s, 1, (m + 1) - 1) ELSE <<>>
    BY <1>5 DEF percent_d
  <2>2. (m + 1) - 1 = m
    BY <1>0
  <2>3. m = 0 => SubSeq(s, 1, m) = <<>>
    BY <1>0
  <2> QED
    BY <1>0, <2>1, <2>2, <2>3
<1>7. SubSeq(s, 1, m) = SubSeq(num, 1, m)
  <2>1. num \in Seq(Nat)
    <3>1. Digits \subseteq Nat
      BY DEF Digits
    <3> QED
      BY <3>1, WiderText
  <2>2. 1 \in 1..(Len(s) + 1) /\ 1 \in 1..(Len(num) + 1) /\ m \in (1 - 1)..Len(s) /\ m \in (1 - 1)..Len(num)
    BY <1>0
  <2>3. /\ SubSeq(s, 1, m) \in Seq(Nat) /\ Len(SubSeq(s, 1, m)) = (m - 1) + 1
        /\ \A j \in 1..((m - 1) + 1) : SubSeq(s, 1, m)[j] = s[(1 - 1) + j]
    BY <2>2, PartOf
  <2>4. /\ SubSeq(num, 1, m) \in Seq(Nat) /\ Len(SubSeq(num, 1, m)) = (m - 1) + 1
        /\ \A j \in 1..((m - 1) + 1) : SubSeq(num, 1, m)[j] = num[(1 - 1) + j]
    BY <2>1, <2>2, PartOf
  <2>5. ASSUME NEW j \in 1..((m - 1) + 1) PROVE SubSeq(s, 1, m)[j] = SubSeq(num, 1, m)[j]
    <3>1. (1 - 1) + j = j /\ j \in 1..Len(s) /\ j <= Len(num)
      BY <1>0
    <3>2. s[j] = num[j]
      BY <3>1
    <3> QED
      BY <2>3, <2>4, <3>1, <3>2
  <2> QED
    BY <2>3, <2>4, <2>5, SameText
<1> QED
  BY <1>6, <1>7

\* raw is the first n characters of x.
Begun(raw, x, n) == raw \in Seq(Nat) /\ Len(raw) = n /\ \A k \in 1..n : raw[k] = x[k]

\* The lines that have come to their end, and where the header scan stops then.
EndsAt(raw, p, t, n) ==
  Ends(raw) = {e \in {5 + p, 7 + p, 9 + p + t, 11 + p + t, 12 + p + t} : e <= n}

HeadAt(raw, p, t, n) ==
  /\ n \in (5 + p)..(6 + p) => HeadEnd(raw) = 5 + p
  /\ n \in (7 + p)..(8 + p + t) => HeadEnd(raw) = 7 + p
  /\ n \in (9 + p + t)..(10 + p + t) => HeadEnd(raw) = 9 + p + t
  /\ n = 11 + p + t => HeadEnd(raw) = 11 + p + t
  /\ n >= 12 + p + t => HeadEnd(raw) = 12 + p + t

\* In a part of a request they are those of its five that are there.
LEMMA EndsOf ==
  ASSUME NEW p \in Nat, NEW t \in Nat, NEW d \in Nat, NEW r, NEW x,
         Laid(x, r, p, t, d), Sound(r, p, t, d),
         NEW n \in 0..(14 + p + t + d), NEW raw, Begun(raw, x, n)
  PROVE  EndsAt(raw, p, t, n)
<1>1. ASSUME NEW e \in 1..n
      PROVE  raw[e] = CRLF <=> e \in {5 + p, 7 + p, 9 + p + t, 11 + p + t, 12 + p + t}
  <2>1. e \in 1..(14 + p + t + d) /\ raw[e] = x[e]
    BY DEF Begun
  <2> QED
    BY <2>1, LineEnds
<1>2. Ends(raw) = {e \in 1..n : raw[e] = CRLF}
  BY DEF Ends, Begun
<1>3. n \in Int
  OBVIOUS
<1> QED
  BY <1>1, <1>2, <1>3 DEF EndsAt

\* Where the header scan stops.
LEMMA HeadOf ==
  ASSUME NEW p \in Nat, NEW t \in Nat, NEW n \in Nat, NEW raw, EndsAt(raw, p, t, n)
  PROVE  HeadAt(raw, p, t, n)
<1> DEFINE S == Ends(raw)
           blank == {e \in S : e - 1 \in S}
<1>0. S = {e \in {5 + p, 7 + p, 9 + p + t, 11 + p + t, 12 + p + t} : e <= n}
  BY DEF EndsAt
<1>1. S \in SUBSET Int
  BY <1>0
<1>2. HeadEnd(raw) = IF blank # {} THEN Min(blank) ELSE Max(S)
  BY DEF HeadEnd
<1>3. ASSUME n < 12 + p + t, NEW m \in S, \A y \in S : m >= y
      PROVE  HeadEnd(raw) = m
  <2>1. blank = {}
    <3> SUFFICES ASSUME NEW e \in S, e - 1 \in S PROVE FALSE
      OBVIOUS
    <3>1. /\ e \in {5 + p, 7 + p, 9 + p + t, 11 + p + t}
          /\ e - 1 \in {5 + p, 7 + p, 9 + p + t, 11 + p + t}
      BY <1>0, <1>3
    <3> QED
      BY <3>1
  <2>2. Max(S) = m
    <3> HIDE DEF S
    <3> QED
      BY <1>1, <1>3, MaxIs
  <2> QED
    BY <1>2, <2>1, <2>2
<1>4. CASE n \in (5 + p)..(6 + p)
  <2>1. 5 + p \in S /\ \A y \in S : 5 + p >= y
    BY <1>0, <1>4
  <2>2. HeadEnd(raw) = 5 + p
    <3> HIDE DEF S
    <3> QED BY <1>3, <1>4, <2>1
  <2> QED
    BY <1>4, <2>2 DEF HeadAt
<1>5. CASE n \in (7 + p)..(8 + p + t)
  <2>1. 7 + p \in S /\ \A y \in S : 7 + p >= y
    BY <1>0, <1>5
  <2>2. HeadEnd(raw) = 7 + p
    <3> HIDE DEF S
    <3> QED BY <1>3, <1>5, <2>1
  <2> QED
    BY <1>5, <2>2 DEF HeadAt
<1>6. CASE n \in (9 + p + t)..(10 + p + t)
  <2>1. 9 + p + t \in S /\ \A y \in S : 9 + p + t >= y
    BY <1>0, <1>6
  <2>2. HeadEnd(raw) = 9 + p + t
    <3> HIDE DEF S
    <3> QED BY <1>3, <1>6, <2>1
  <2> QED
    BY <1>6, <2>2 DEF HeadAt
<1>7. CASE n = 11 + p + t
  <2>1. 11 + p + t \in S /\ \A y \in S : 11 + p + t >= y
    BY <1>0, <1>7
  <2>2. HeadEnd(raw) = 11 + p + t
    <3> HIDE DEF S
    <3> QED BY <1>3, <1>7, <2>1
  <2> QED
    BY <1>7, <2>2 DEF HeadAt
<1>8. CASE n >= 12 + p + t
  <2>1. blank = {12 + p + t}
    <3>1. S = {5 + p, 7 + p, 9 + p + t, 11 + p + t, 12 + p + t}
      BY <1>0, <1>8
    <3>2. 12 + p + t \in blank
      BY <3>1
    <3>3. ASSUME NEW e \in S, e - 1 \in S PROVE e = 12 + p + t
      BY <3>1, <3>3
    <3> QED
      BY <3>2, <3>3
  <2>2. Min(blank) = 12 + p + t
    <3>1. blank \in SUBSET Int /\ 12 + p + t \in blank /\ \A y \in blank : 12 + p + t <= y
      BY <2>1
    <3> HIDE DEF blank
    <3> QED BY <3>1, MinIs
  <2>3. HeadEnd(raw) = 12 + p + t
    BY <1>2, <2>1, <2>2
  <2> QED
    BY <1>8, <2>3 DEF HeadAt
<1> QED
  BY <1>4, <1>5, <1>6, <1>7, <1>8 DEF HeadAt

\* Before its line has come to its end there is no token.
LEMMA NoBearer ==
  ASSUME NEW p \in Nat, NEW t \in Nat, NEW d \in Nat, NEW r, NEW x,
         Laid(x, r, p, t, d), Sound(r, p, t, d),
         NEW n \in (5 + p)..(8 + p + t), NEW raw, Begun(raw, x, n)
  PROVE  bearer(raw) = <<>>
<1>0. n \in 0..(14 + p + t + d) /\ n \in Nat
  OBVIOUS
<1>e. EndsAt(raw, p, t, n) /\ HeadAt(raw, p, t, n)
  BY <1>0, EndsOf, HeadOf
<1>1. Ends(raw) = {e \in {5 + p, 7 + p, 9 + p + t, 11 + p + t, 12 + p + t} : e <= n}
  BY <1>e DEF EndsAt
<1>2. AuthLines(raw) = {}
  <2> SUFFICES ASSUME NEW e \in Ends(raw), e < HeadEnd(raw), raw[e + 1] = AUTH PROVE FALSE
    BY DEF AuthLines
  <2>1. e \in {5 + p, 7 + p}
    BY <1>0, <1>1
  <2>2. HeadEnd(raw) = (IF n <= 6 + p THEN 5 + p ELSE 7 + p)
    BY <1>0, <1>e DEF HeadAt
  <2>3. e = 5 + p /\ n >= 7 + p
    BY <1>0, <2>1, <2>2
  <2>4. raw[6 + p] = x[6 + p] /\ e + 1 = 6 + p
    BY <1>0, <2>3 DEF Begun
  <2>5. raw[6 + p] = AUTH
    BY <2>4
  <2>6. x[6 + p] = LINE
    BY DEF Laid
  <2>7. LINE # AUTH
    BY DEF LINE, AUTH
  <2> QED
    BY <2>4, <2>5, <2>6, <2>7
<1> QED
  BY <1>2 DEF bearer

IsText(s, n) == s \in Seq(Nat) /\ Len(s) = n

\* After it there is the whole token, up to the room for it.
LEMMA Bearer ==
  ASSUME NEW p \in Nat, NEW t \in Nat, NEW d \in Nat, NEW r, NEW x,
         Laid(x, r, p, t, d), Sound(r, p, t, d), NEW tok, tok = r.token, IsText(tok, t),
         NEW n \in (9 + p + t)..(14 + p + t + d), NEW raw, Begun(raw, x, n)
  PROVE  bearer(raw) = Cut(tok, BEARER_MAX)
<1>t. tok \in Seq(Nat) /\ t = Len(tok)
  BY DEF IsText
<1>k. \A j \in 1..t : x[8 + p + j] = tok[j]
  BY DEF Laid
<1>0. n \in 0..(14 + p + t + d) /\ n \in Nat
  OBVIOUS
<1>e. EndsAt(raw, p, t, n) /\ HeadAt(raw, p, t, n)
  BY <1>0, EndsOf, HeadOf
<1>1. Ends(raw) = {e \in {5 + p, 7 + p, 9 + p + t, 11 + p + t, 12 + p + t} : e <= n}
  BY <1>e DEF EndsAt
<1>2. HeadEnd(raw) \in {9 + p + t, 11 + p + t, 12 + p + t} /\ HeadEnd(raw) <= n
  <2>1. /\ n \in (9 + p + t)..(10 + p + t) => HeadEnd(raw) = 9 + p + t
        /\ n = 11 + p + t => HeadEnd(raw) = 11 + p + t
        /\ n >= 12 + p + t => HeadEnd(raw) = 12 + p + t
    BY <1>0, <1>e DEF HeadAt
  <2>2. n \in (9 + p + t)..(10 + p + t) \/ n = 11 + p + t \/ n >= 12 + p + t
    BY <1>0
  <2> QED
    BY <1>0, <2>1, <2>2
<1>3. AuthLines(raw) = {7 + p}
  <2>1. 7 + p \in Ends(raw) /\ 7 + p < HeadEnd(raw)
    BY <1>0, <1>1, <1>2
  <2>2. raw[(7 + p) + 1] = AUTH
    <3>1. raw[8 + p] = x[8 + p] /\ (7 + p) + 1 = 8 + p
      BY <1>0 DEF Begun
    <3> QED
      BY <3>1 DEF Laid
  <2>3. ASSUME NEW e \in Ends(raw), e < HeadEnd(raw), raw[e + 1] = AUTH PROVE e = 7 + p
    <3>1. e \in {5 + p, 7 + p, 9 + p + t, 11 + p + t} /\ e + 1 \in 1..n
      BY <1>0, <1>1, <1>2, <2>3
    <3>2. raw[e + 1] = x[e + 1]
      BY <3>1 DEF Begun
    <3>3. /\ (5 + p) + 1 = 6 + p /\ (9 + p + t) + 1 = 10 + p + t /\ (11 + p + t) + 1 = 12 + p + t
          /\ x[6 + p] # AUTH /\ x[10 + p + t] # AUTH /\ x[12 + p + t] # AUTH
      BY DEF Laid, LINE, AUTH, CRLF
    <3> QED
      BY <2>3, <3>1, <3>2, <3>3
  <2> QED
    BY <2>1, <2>2, <2>3 DEF AuthLines
<1>4. Max({7 + p}) = 7 + p
  <2>1. {7 + p} \in SUBSET Int /\ 7 + p \in {7 + p} /\ \A y \in {7 + p} : 7 + p >= y
    OBVIOUS
  <2> QED
    BY <2>1, MaxIs
<1>5. First(raw, (7 + p) + 1, {CRLF}) = 9 + p + t
  <2>0. raw \in Seq(Nat) /\ Len(raw) = n
    BY DEF Begun
  <2>1. 9 + p + t \in 1..n /\ (7 + p) + 1 \in 1..(n + 1) /\ 9 + p + t \in ((7 + p) + 1)..(n + 1)
    BY <1>0
  <2>2. raw[9 + p + t] = CRLF
    BY <2>1 DEF Begun, Laid
  <2>3. ASSUME NEW j \in ((7 + p) + 1)..((9 + p + t) - 1) PROVE raw[j] \notin {CRLF}
    <3>1. j \in 1..n /\ j \notin {5 + p, 7 + p, 9 + p + t, 11 + p + t, 12 + p + t}
      BY <1>0
    <3>2. j \notin Ends(raw)
      BY <1>1, <3>1
    <3> QED
      BY <2>0, <3>1, <3>2 DEF Ends
  <2>4. StopsAt(raw, (7 + p) + 1, {CRLF}, 9 + p + t)
    BY <2>0, <2>1, <2>2, <2>3 DEF StopsAt
  <2>5. (7 + p) + 1 \in 1..(Len(raw) + 1)
    BY <2>0, <2>1
  <2> QED
    BY <2>0, <2>4, <2>5, FirstIs
<1>6. SubSeq(raw, (7 + p) + 2, (9 + p + t) - 1) = tok
  <2> DEFINE a == (7 + p) + 2
             b == (9 + p + t) - 1
             u == SubSeq(raw, a, b)
  <2>0. raw \in Seq(Nat) /\ Len(raw) = n
    BY DEF Begun
  <2>1. a \in 1..(Len(raw) + 1) /\ b \in (a - 1)..Len(raw) /\ (b - a) + 1 = t
    BY <1>0, <2>0
  <2>2. u \in Seq(Nat) /\ Len(u) = t /\ \A j \in 1..t : u[j] = raw[(a - 1) + j]
    <3> HIDE DEF a, b
    <3>1. /\ SubSeq(raw, a, b) \in Seq(Nat) /\ Len(SubSeq(raw, a, b)) = (b - a) + 1
          /\ \A j \in 1..((b - a) + 1) : SubSeq(raw, a, b)[j] = raw[(a - 1) + j]
      BY <2>0, <2>1, PartOf
    <3> QED
      BY <2>1, <3>1
  <2>3. ASSUME NEW j \in 1..t PROVE u[j] = tok[j]
    <3>1. (a - 1) + j = 8 + p + j /\ 8 + p + j \in 1..n
      BY <1>0
    <3>2. raw[8 + p + j] = x[8 + p + j]
      BY <3>1 DEF Begun
    <3> HIDE DEF u, a
    <3> QED
      BY <1>k, <2>2, <3>1, <3>2
  <2> HIDE DEF u
  <2>4. u = tok
    BY <1>t, <2>2, <2>3, SameText
  <2> QED
    BY <2>4 DEF u
<1>7. bearer(raw) = Cut(SubSeq(raw, (7 + p) + 2, First(raw, (7 + p) + 1, {CRLF}) - 1), BEARER_MAX)
  BY <1>3, <1>4 DEF bearer
<1> QED
  BY <1>5, <1>6, <1>7

WordsAt(raw, r, p, path) ==
  /\ First(raw, 1, Nat \ White) = 1 /\ First(raw, 1, White) = 2
  /\ First(raw, 2, Nat \ White) = 3 /\ First(raw, 3, White) = 3 + p
  /\ parse_method(SubSeq(raw, 1, 2 - 1)) = r.method
  /\ SubSeq(raw, 3, (3 + p) - 1) = path

\* The first two words are method and path as soon as the request line is there.
LEMMA WordsOf ==
  ASSUME NEW p \in Nat \ {0}, NEW t \in Nat, NEW d \in Nat, NEW r, NEW x,
         Laid(x, r, p, t, d), Sound(r, p, t, d), NEW path, path = r.path, IsText(path, p),
         NEW n \in (5 + p)..(14 + p + t + d), NEW raw, Begun(raw, x, n)
  PROVE  WordsAt(raw, r, p, path)
<1>0. raw \in Seq(Nat) /\ Len(raw) = n /\ n \in Nat /\ n >= 6
  BY DEF Begun
<1>1. raw[1] = r.method /\ raw[2] = BLANK /\ raw[3 + p] = BLANK
  <2>1. 1 \in 1..n /\ 2 \in 1..n /\ 3 + p \in 1..n
    OBVIOUS
  <2>2. raw[1] = x[1] /\ raw[2] = x[2] /\ raw[3 + p] = x[3 + p]
    BY <2>1 DEF Begun
  <2> QED
    BY <2>2 DEF Laid
<1>2. ASSUME NEW j \in 1..p PROVE raw[2 + j] = path[j] /\ raw[2 + j] \in Nat \ White
  <2>0. 2 + j \in 1..n
    OBVIOUS
  <2>1. raw[2 + j] = x[2 + j]
    BY <2>0 DEF Begun
  <2>2. x[2 + j] = path[j]
    BY DEF Laid
  <2>3. path[j] \in Nat \ White
    BY DEF Sound
  <2> QED
    BY <2>1, <2>2, <2>3
<1>3. r.method \in Nat \ White /\ r.method \in Methods /\ BLANK \in White
  BY DEF Sound, Methods, White, BLANK, CRLF
<1>4. First(raw, 1, Nat \ White) = 1
  <2>1. StopsAt(raw, 1, Nat \ White, 1)
    BY <1>0, <1>1, <1>3 DEF StopsAt
  <2>2. 1 \in 1..(Len(raw) + 1)
    BY <1>0
  <2> QED
    BY <1>0, <2>1, <2>2, FirstIs
<1>5. First(raw, 1, White) = 2
  <2>1. StopsAt(raw, 1, White, 2)
    <3>1. \A j \in 1..(2 - 1) : j = 1
      OBVIOUS
    <3>2. 2 \in 1..(Len(raw) + 1) /\ raw[2] \in White /\ raw[1] \notin White
      BY <1>0, <1>1, <1>3
    <3> QED
      BY <3>1, <3>2 DEF StopsAt
  <2>2. 1 \in 1..(Len(raw) + 1)
    BY <1>0
  <2> QED
    BY <1>0, <2>1, <2>2, FirstIs
<1>6. First(raw, 2, Nat \ White) = 3
  <2>1. StopsAt(raw, 2, Nat \ White, 3)
    <3>1. \A j \in 2..(3 - 1) : j = 2
      OBVIOUS
    <3>2. 3 \in 2..(Len(raw) + 1) /\ raw[2] \notin Nat \ White
      BY <1>0, <1>1, <1>3
    <3>3. raw[3] \in Nat \ White
      <4>1. 1 \in 1..p /\ 2 + 1 = 3
        OBVIOUS
      <4> QED
        BY <1>2, <4>1
    <3> QED
      BY <3>1, <3>2, <3>3 DEF StopsAt
  <2>2. 2 \in 1..(Len(raw) + 1)
    BY <1>0
  <2> QED
    BY <1>0, <2>1, <2>2, FirstIs
<1>7. First(raw, 3, White) = 3 + p
  <2>1. StopsAt(raw, 3, White, 3 + p)
    <3>1. ASSUME NEW j \in 3..((3 + p) - 1) PROVE raw[j] \notin White
      <4>1. j - 2 \in 1..p /\ 2 + (j - 2) = j
        OBVIOUS
      <4> QED
        BY <1>2, <4>1
    <3>2. 3 + p \in 3..(Len(raw) + 1) /\ raw[3 + p] \in White
      BY <1>0, <1>1, <1>3
    <3> QED
      BY <3>1, <3>2 DEF StopsAt
  <2>2. 3 \in 1..(Len(raw) + 1)
    BY <1>0
  <2> QED
    BY <1>0, <2>1, <2>2, FirstIs
<1>8. parse_method(SubSeq(raw, 1, 2 - 1)) = r.method
  <2>1. /\ Len(SubSeq(raw, 1, 1)) = (1 - 1) + 1
        /\ \A j \in 1..((1 - 1) + 1) : SubSeq(raw, 1, 1)[j] = raw[(1 - 1) + j]
    <3>1. 1 \in 1..(Len(raw) + 1) /\ 1 \in (1 - 1)..Len(raw)
      BY <1>0
    <3> QED
      BY <1>0, <3>1, PartOf
  <2>2. Len(SubSeq(raw, 1, 1)) = 1 /\ SubSeq(raw, 1, 1)[1] = raw[1]
    BY <2>1
  <2>3. 2 - 1 = 1
    OBVIOUS
  <2> QED
    BY <1>1, <1>3, <2>2, <2>3 DEF parse_method
<1>9. SubSeq(raw, 3, (3 + p) - 1) = path
  <2> DEFINE b == (3 + p) - 1
             u == SubSeq(raw, 3, b)
  <2>1. 3 \in 1..(Len(raw) + 1) /\ b \in (3 - 1)..Len(raw) /\ (b - 3) + 1 = p
    BY <1>0
  <2>2. u \in Seq(Nat) /\ Len(u) = p /\ \A j \in 1..p : u[j] = raw[(3 - 1) + j]
    <3> HIDE DEF b
    <3>1. /\ SubSeq(raw, 3, b) \in Seq(Nat) /\ Len(SubSeq(raw, 3, b)) = (b - 3) + 1
          /\ \A j \in 1..((b - 3) + 1) : SubSeq(raw, 3, b)[j] = raw[(3 - 1) + j]
      BY <1>0, <2>1, PartOf
    <3> QED
      BY <2>1, <3>1
  <2>3. ASSUME NEW j \in 1..p PROVE u[j] = path[j]
    <3>1. (3 - 1) + j = 2 + j
      OBVIOUS
    <3> HIDE DEF u
    <3> QED
      BY <1>2, <2>2, <3>1
  <2> HIDE DEF u
  <2>4. u = path
    BY <2>2, <2>3, SameText DEF IsText
  <2> QED
    BY <2>4 DEF u
<1> QED
  BY <1>4, <1>5, <1>6, <1>7, <1>8, <1>9 DEF WordsAt

IsNumber(s, n) == s \in Seq(Digits) /\ Len(s) = n

\* The body that is there: nothing or the beginning of a header line, until the
\* blank line has come; then the beginning of the body, of which the digits that
\* are there are read.
LEMMA BodyOf ==
  ASSUME NEW p \in Nat, NEW t \in Nat, NEW d \in Nat, NEW r, NEW x,
         Laid(x, r, p, t, d), Sound(r, p, t, d),
         NEW num, num = r.number, IsNumber(num, d),
         NEW n \in (9 + p + t)..(14 + p + t + d), NEW raw, Begun(raw, x, n),
         NEW body, body = Cut(SubSeq(raw, HeadEnd(raw) + 1, n), BODY_MAX)
  PROVE  /\ \E m \in 0..d : body_number(body) = SubSeq(num, 1, m)
         /\ n = 14 + p + t + d /\ d < BODY_MAX => body_number(body) = SubSeq(num, 1, d)
<1>0. raw \in Seq(Nat) /\ Len(raw) = n /\ n \in Nat /\ n \in 0..(14 + p + t + d)
  BY DEF Begun
<1>b. BODY_MAX \in Nat \ {0}
  BY RoomAssumption
<1>e. EndsAt(raw, p, t, n) /\ HeadAt(raw, p, t, n)
  BY <1>0, EndsOf, HeadOf
<1>1. Ends(raw) = {e \in {5 + p, 7 + p, 9 + p + t, 11 + p + t, 12 + p + t} : e <= n}
  BY <1>e DEF EndsAt
<1>2. /\ n \in (9 + p + t)..(10 + p + t) => HeadEnd(raw) = 9 + p + t
      /\ n = 11 + p + t => HeadEnd(raw) = 11 + p + t
      /\ n >= 12 + p + t => HeadEnd(raw) = 12 + p + t
  BY <1>e DEF HeadAt
<1>3. SubSeq(num, 1, 0) = <<>> /\ 0 \in 0..d
  BY DEF IsNumber
<1> DEFINE h == HeadEnd(raw)
           u == SubSeq(raw, h + 1, n)
<1>4. h \in {9 + p + t, 11 + p + t, 12 + p + t} /\ h <= n
  <2>1. n \in (9 + p + t)..(10 + p + t) \/ n = 11 + p + t \/ n >= 12 + p + t
    BY <1>0
  <2> QED
    BY <1>0, <1>2, <2>1
<1>5. u \in Seq(Nat) /\ Len(u) = n - h /\ \A j \in 1..(n - h) : u[j] = raw[h + j]
  <2> HIDE DEF h
  <2>1. h + 1 \in 1..(Len(raw) + 1) /\ n \in ((h + 1) - 1)..Len(raw)
    BY <1>0, <1>4
  <2>2. /\ u \in Seq(Nat) /\ Len(u) = (n - (h + 1)) + 1
        /\ \A j \in 1..((n - (h + 1)) + 1) : u[j] = raw[((h + 1) - 1) + j]
    BY <1>0, <2>1, PartOf
  <2>3. (n - (h + 1)) + 1 = n - h /\ (h + 1) - 1 = h
    BY <1>0, <1>4
  <2> HIDE DEF u
  <2> QED
    BY <2>2, <2>3
<1>6. /\ body \in Seq(Nat) /\ Len(body) = (IF n - h <= BODY_MAX THEN n - h ELSE BODY_MAX)
      /\ \A k \in 1..Len(body) : body[k] = u[k]
  <2> HIDE DEF u, h
  <2>1. body = Cut(u, BODY_MAX)
    BY DEF u, h
  <2> QED
    BY <1>0, <1>b, <1>5, <2>1, CutKeeps
<1>7. ASSUME NEW k \in 1..Len(body) PROVE body[k] = x[h + k]
  <2> HIDE DEF u, h
  <2>0. h \in Nat /\ h <= n /\ k \in Nat
    BY <1>4, <1>6
  <2>a. Len(body) <= n - h
    BY <1>0, <1>b, <1>6, <2>0
  <2>1. k \in 1..(n - h) /\ h + k \in 1..n
    BY <1>0, <1>6, <2>0, <2>a
  <2> QED
    BY <1>5, <1>6, <2>1 DEF Begun
<1>8. CASE n <= 11 + p + t
  <2>1. body = <<>> \/ body[1] = LINE
    <3>1. CASE n = h
      <4>1. Len(body) = 0
        <5> HIDE DEF h
        <5> QED BY <1>0, <1>b, <1>6, <3>1
      <4> QED
        BY <1>6, <4>1
    <3>2. CASE n # h
      <4>1. n = 10 + p + t /\ h = 9 + p + t /\ h + 1 = 10 + p + t
        <5>1. n \in {9 + p + t, 10 + p + t, 11 + p + t}
          BY <1>0, <1>8
        <5> QED
          BY <1>0, <1>2, <1>8, <3>2, <5>1
      <4>2. 1 \in 1..Len(body)
        <5> HIDE DEF h
        <5> QED BY <1>0, <1>b, <1>6, <4>1
      <4>3. body[1] = x[h + 1]
        BY <1>7, <4>2
      <4> QED
        BY <4>1, <4>3 DEF Laid
    <3> QED
      BY <3>1, <3>2
  <2>2. body_number(body) = <<>>
    BY <2>1 DEF body_number, LINE, KEY
  <2>3. n # 14 + p + t + d
    BY <1>0, <1>8
  <2> QED
    BY <1>3, <2>2, <2>3
<1>9. CASE n >= 12 + p + t
  <2>1. h = 12 + p + t
    BY <1>2, <1>9
  <2>2. CASE body = <<>>
    <3>1. body_number(body) = <<>>
      BY <2>2 DEF body_number
    <3>2. n = h
      <4> HIDE DEF h
      <4> QED BY <1>0, <1>b, <1>4, <1>6, <2>2
    <3>3. n # 14 + p + t + d
      BY <1>0, <2>1, <3>2
    <3> QED
      BY <1>3, <3>1, <3>3
  <2>3. CASE body # <<>>
    <3> DEFINE l == Len(body)
               s == SubSeq(body, 2, l)
               m == IF l - 1 <= d THEN l - 1 ELSE d
    <3>1. l \in Nat \ {0} /\ l <= n - h /\ l <= d + 2
      <4>1. l \in Nat \ {0}
        BY <1>6, <2>3
      <4> HIDE DEF h
      <4> QED BY <1>0, <1>b, <1>6, <2>1, <4>1
    <3>2. body[1] = KEY
      <4>1. 1 \in 1..Len(body) /\ (12 + p + t) + 1 = 13 + p + t
        BY <3>1
      <4>2. body[1] = x[(12 + p + t) + 1]
        BY <1>7, <2>1, <4>1
      <4> QED
        BY <4>1, <4>2 DEF Laid
    <3>3. s \in Seq(Nat) /\ Len(s) = l - 1 /\ \A j \in 1..(l - 1) : s[j] = body[1 + j]
      <4>1. 2 \in 1..(Len(body) + 1) /\ l \in (2 - 1)..Len(body) /\ (l - 2) + 1 = l - 1 /\ 2 - 1 = 1
        BY <3>1
      <4>2. /\ s \in Seq(Nat) /\ Len(s) = (l - 2) + 1
            /\ \A j \in 1..((l - 2) + 1) : s[j] = body[(2 - 1) + j]
        <5> HIDE DEF l
        <5> QED BY <1>6, <4>1, PartOf
      <4> HIDE DEF s, l
      <4> QED
        BY <4>1, <4>2
    <3>4. ASSUME NEW k \in 1..(l - 1) PROVE s[k] = IF k <= d THEN num[k] ELSE BRACE
      <4>1. 1 + k \in 1..Len(body) /\ (12 + p + t) + (1 + k) = 13 + p + t + k
        BY <3>1
      <4>2. s[k] = x[13 + p + t + k]
        <5>1. body[1 + k] = x[(12 + p + t) + (1 + k)]
          BY <1>7, <2>1, <4>1
        <5> HIDE DEF s, l
        <5> QED BY <3>3, <4>1, <5>1
      <4>3. CASE k <= d
        <5>1. k \in 1..d
          BY <3>1, <4>3
        <5> QED
          BY <4>2, <4>3, <5>1 DEF Laid
      <4>4. CASE ~(k <= d)
        <5>1. k = d + 1 /\ 13 + p + t + k = 14 + p + t + d
          BY <3>1, <4>4
        <5> QED
          BY <4>2, <4>4, <5>1 DEF Laid
      <4> QED
        BY <4>3, <4>4
    <3>5. percent_d(s) = SubSeq(num, 1, m)
      <4> HIDE DEF s, l
      <4>1. /\ Len(s) <= Len(num) + 1 /\ m = (IF Len(s) <= Len(num) THEN Len(s) ELSE Len(num))
            /\ \A k \in 1..Len(s) : s[k] = IF k <= Len(num) THEN num[k] ELSE BRACE
        BY <3>1, <3>3, <3>4 DEF IsNumber
      <4> HIDE DEF m
      <4> QED
        BY <3>3, <4>1, DigitsRead DEF IsNumber
    <3>6. body_number(body) = SubSeq(num, 1, m)
      BY <2>3, <3>2, <3>5 DEF body_number
    <3>7. m \in 0..d
      BY <3>1
    <3>8. ASSUME n = 14 + p + t + d, d < BODY_MAX PROVE m = d
      <4>1. l = IF n - h <= BODY_MAX THEN n - h ELSE BODY_MAX
        BY <1>6
      <4>2. n - h = d + 2
        BY <2>1, <3>8
      <4>3. l >= d + 1
        <5> HIDE DEF l, h
        <5> QED BY <1>0, <1>b, <3>8, <4>1, <4>2
      <4> HIDE DEF l
      <4> QED
        BY <3>1, <4>3
    <3> HIDE DEF m
    <3> QED
      BY <3>6, <3>7, <3>8
  <2> QED
    BY <2>2, <2>3
<1> QED
  BY <1>0, <1>8, <1>9

\* No part of a request acts for anybody but its sender or on anything else than
\* was sent, for paths, tokens and numbers of every length.
LEMMA PartSafe ==
  ASSUME NEW r, IsRequest(r), NEW adm
  PROVE  PartIsSafe(r, adm)
<1> DEFINE x == Text(r)
           p == Len(r.path)
           t == Len(r.token)
           d == Len(r.number)
           path == r.path
           tok == r.token
           num == r.number
<1>1. /\ IsText(path, p) /\ IsText(tok, t) /\ IsNumber(num, d)
      /\ p \in Nat \ {0} /\ t \in Nat /\ d \in Nat
  <2>1. Nat \ White \subseteq Nat /\ Nat \ {CRLF} \subseteq Nat
    OBVIOUS
  <2>2. /\ path \in Seq(Nat \ White) /\ path # <<>> /\ tok \in Seq(Nat \ {CRLF}) /\ num \in Seq(Digits)
    BY DEF IsRequest
  <2>3. path \in Seq(Nat) /\ tok \in Seq(Nat)
    BY <2>1, <2>2, WiderText
  <2> QED
    BY <2>2, <2>3 DEF IsText, IsNumber
<1>2. Laid(x, r, p, t, d)
  BY TextLaid
<1>3. Sound(r, p, t, d)
  BY DEF IsRequest, Sound
<1>4. path = r.path /\ tok = r.token /\ num = r.number
  OBVIOUS
<1>5. x \in Seq(Nat) /\ Len(x) = 14 + p + t + d
  BY <1>2 DEF Laid
<1>6. PartIsSafe(r, adm) = \A n \in 0..Len(x) :
        LET q == parse_request(SubSeq(x, 1, n), adm) IN
        /\ q.method # NoMethod /\ q.auth.role # "none" =>
             /\ q.method = r.method /\ q.path = Cut(path, PATH_MAX)
             /\ q.auth = auth_parse(Cut(tok, BEARER_MAX), adm)
             /\ IsPrefix(body_number(q.body), num)
        /\ n = Len(x) =>
             /\ q.method = r.method /\ q.path = Cut(path, PATH_MAX)
             /\ q.auth = auth_parse(Cut(tok, BEARER_MAX), adm)
             /\ d < BODY_MAX => body_number(q.body) = num
  BY DEF PartIsSafe
<1> HIDE DEF x, p, t, d, path, tok, num
<1> SUFFICES ASSUME NEW n \in 0..(14 + p + t + d)
    PROVE  LET q == parse_request(SubSeq(x, 1, n), adm) IN
        /\ q.method # NoMethod /\ q.auth.role # "none" =>
             /\ q.method = r.method /\ q.path = Cut(path, PATH_MAX)
             /\ q.auth = auth_parse(Cut(tok, BEARER_MAX), adm)
             /\ IsPrefix(body_number(q.body), num)
        /\ n = 14 + p + t + d =>
             /\ q.method = r.method /\ q.path = Cut(path, PATH_MAX)
             /\ q.auth = auth_parse(Cut(tok, BEARER_MAX), adm)
             /\ d < BODY_MAX => body_number(q.body) = num
  BY <1>5, <1>6
<1> DEFINE raw == SubSeq(x, 1, n)
           q == parse_request(raw, adm)
           body == Cut(SubSeq(raw, HeadEnd(raw) + 1, Len(raw)), BODY_MAX)
<1>7. Begun(raw, x, n) /\ Len(raw) = n
  <2>1. 1 \in 1..(Len(x) + 1) /\ n \in (1 - 1)..Len(x) /\ n \in Nat
    BY <1>1, <1>5
  <2>2. /\ raw \in Seq(Nat) /\ Len(raw) = (n - 1) + 1
        /\ \A j \in 1..((n - 1) + 1) : raw[j] = x[(1 - 1) + j]
    BY <1>5, <2>1, PartOf
  <2>3. (n - 1) + 1 = n /\ \A j \in 1..n : (1 - 1) + j = j
    BY <2>1
  <2> HIDE DEF raw
  <2> QED
    BY <2>2, <2>3 DEF Begun
<1> HIDE DEF raw
<1>e. EndsAt(raw, p, t, n)
  BY <1>1, <1>2, <1>3, <1>7, EndsOf
<1>8. CASE n < 5 + p
  <2>1. Ends(raw) = {}
    BY <1>1, <1>8, <1>e DEF EndsAt
  <2>2. q.auth = NoAuth
    BY <2>1 DEF parse_request
  <2>3. q.auth.role = "none" /\ n # 14 + p + t + d
    BY <1>1, <1>8, <2>2 DEF NoAuth
  <2> HIDE DEF q
  <2> QED
    BY <2>3 DEF q, raw
<1>9. CASE n >= 5 + p
  <2>0. n \in (5 + p)..(14 + p + t + d)
    BY <1>1, <1>9
  <2>1. /\ First(raw, 1, Nat \ White) = 1 /\ First(raw, 1, White) = 2
        /\ First(raw, 2, Nat \ White) = 3 /\ First(raw, 3, White) = 3 + p
        /\ parse_method(SubSeq(raw, 1, 2 - 1)) = r.method
        /\ SubSeq(raw, 3, (3 + p) - 1) = path
    <3>1. WordsAt(raw, r, p, path)
      BY <1>1, <1>2, <1>3, <1>4, <1>7, <2>0, WordsOf
    <3> QED
      BY <3>1 DEF WordsAt
  <2>2. Ends(raw) # {}
    <3>1. 5 + p \in Ends(raw)
      BY <1>1, <1>9, <1>e DEF EndsAt
    <3> QED
      BY <3>1
  <2>3. Cut(path, PATH_MAX) # <<>>
    <3>1. /\ Cut(path, PATH_MAX) \in Seq(Nat)
          /\ Len(Cut(path, PATH_MAX)) = (IF Len(path) <= PATH_MAX THEN Len(path) ELSE PATH_MAX)
      BY <1>1, RoomAssumption, CutKeeps DEF IsText
    <3>2. Len(Cut(path, PATH_MAX)) # 0
      BY <1>1, <3>1, RoomAssumption DEF IsText
    <3> QED
      BY <3>2
  <2>4. q = [method |-> r.method, path |-> Cut(path, PATH_MAX),
             auth |-> auth_parse(bearer(raw), adm), body |-> body]
    BY <2>1, <2>2, <2>3 DEF parse_request
  <2> HIDE DEF q
  <2>5. CASE n <= 8 + p + t
    <3>1. bearer(raw) = <<>>
      <4>1. n \in (5 + p)..(8 + p + t)
        BY <1>1, <1>9, <2>5
      <4> QED
        BY <1>1, <1>2, <1>3, <1>7, <4>1, NoBearer
    <3>2. q.auth = NoAuth
      BY <2>4, <3>1 DEF auth_parse
    <3>3. q.auth.role = "none" /\ n # 14 + p + t + d
      BY <1>1, <2>5, <3>2 DEF NoAuth
    <3> QED
      BY <3>3 DEF q, raw
  <2>6. CASE n >= 9 + p + t
    <3>0. n \in (9 + p + t)..(14 + p + t + d)
      BY <1>1, <2>6
    <3>1. bearer(raw) = Cut(tok, BEARER_MAX)
      BY <1>1, <1>2, <1>3, <1>4, <1>7, <3>0, Bearer
    <3>2. /\ \E m \in 0..d : body_number(body) = SubSeq(num, 1, m)
          /\ n = 14 + p + t + d /\ d < BODY_MAX => body_number(body) = SubSeq(num, 1, d)
      <4>1. body = Cut(SubSeq(raw, HeadEnd(raw) + 1, n), BODY_MAX)
        BY <1>7
      <4> HIDE DEF body
      <4> QED
        BY <1>1, <1>2, <1>3, <1>4, <1>7, <3>0, <4>1, BodyOf
    <3> HIDE DEF body
    <3>3. num \in Seq(Digits) /\ Len(num) = d
      BY <1>1 DEF IsNumber
    <3>4. IsPrefix(body_number(body), num)
      <4>1. PICK m \in 0..d : body_number(body) = SubSeq(num, 1, m)
        BY <3>2
      <4>2. m \in Nat /\ Len(SubSeq(num, 1, m)) = m /\ m <= d
        BY <1>1, <3>3, <4>1
      <4>3. SubSeq(SubSeq(num, 1, m), 1, m) = SubSeq(num, 1, m)
        BY <1>1, <3>3, <4>2
      <4> QED
        BY <3>3, <4>1, <4>2, <4>3 DEF IsPrefix
    <3>5. SubSeq(num, 1, d) = num
      BY <1>1, <3>3
    <3>6. /\ q.method = r.method /\ q.path = Cut(path, PATH_MAX)
          /\ q.auth = auth_parse(Cut(tok, BEARER_MAX), adm) /\ q.body = body
      BY <2>4, <3>1
    <3> QED
      BY <3>2, <3>4, <3>5, <3>6 DEF q, raw
  <2> QED
    BY <1>1, <2>0, <2>5, <2>6
<1> QED
  BY <1>1, <1>8, <1>9
-----------------------------------------------------------------------------
(* The configuration.                                                      *)

\* One turn of the loop of load_config, and the positions up to k at which a
\* value of f is given.
TakeFlag(cfg, argv, m) ==
  IF argv[m] \in Flags /\ Valid(argv[m], argv[m + 1]) THEN [cfg EXCEPT ![argv[m]] = argv[m + 1]]
                                                      ELSE cfg
GivenUpto(f, argv, k) == {m \in 1..k : argv[m] = f /\ Valid(f, argv[m + 1])}

\* The number of turns: the last argument has no value behind it.
Turns(argv) == IF argv = <<>> THEN 0 ELSE Len(argv) - 1

\* load_config as the loop over the flags that it is, starting from the environment.
LEMMA ConfigRuns ==
  ASSUME NEW W, NEW argv \in Seq(W), NEW env, from_env(env) \in [Flags -> W]
  PROVE  \E v \in [0..Turns(argv) -> [Flags -> W]] :
           /\ v[0] = from_env(env) /\ v[Turns(argv)] = load_config(env, argv)
           /\ \A k \in 1..Turns(argv) : v[k] = TakeFlag(v[k - 1], argv, k)
<1> DEFINE n == Turns(argv)
           A == [Flags -> W]
           b == from_env(env)
           Def(it) == it = [S \in SUBSET (1..n) |->
             IF S = {} THEN b ELSE TakeFlag(it[S \ {Max(S)}], argv, Max(S))]
           it == CHOOSE it : Def(it)
           g == [x \in A |-> [k \in 1..n |-> TakeFlag(x, argv, k)]]
<1>1. n \in Nat /\ 1..(Len(argv) - 1) = 1..n
  BY DEF Turns
<1>2. load_config(env, argv) = it[1..n]
  <2> DEFINE idx == [m \in 1..(Len(argv) - 1) |-> m]
             Fol(h) == h = [S \in SUBSET DOMAIN idx |->
               IF S = {} THEN b ELSE TakeFlag(h[S \ {Max(S)}], argv, idx[Max(S)])]
             fol == CHOOSE h : Fol(h)
  <2>1. load_config(env, argv) = fol[DOMAIN idx]
    BY DEF load_config, FoldLeft, MapThenFoldSet, TakeFlag
  <2>2. DOMAIN idx = 1..n
    BY <1>1
  <2>3. \A S \in SUBSET (1..n) : S # {} => idx[Max(S)] = Max(S)
    BY <1>1, <2>2, LargestIndex
  <2>4. \A h : Fol(h) <=> Def(h)
    <3> HIDE DEF idx
    <3> QED BY <2>2, <2>3
  <2>5. fol = it
    <3> HIDE DEF Fol, Def
    <3> QED BY <2>4
  <2> QED
    BY <2>1, <2>2, <2>5
<1>3. g \in [A -> [1..n -> A]]
  <2>1. \A k \in 1..n : k + 1 \in 1..Len(argv)
    BY <1>1 DEF Turns
  <2>2. \A k \in 1..n : argv[k + 1] \in W
    BY <2>1
  <2> QED
    BY <2>2 DEF TakeFlag
<1>4. \A x \in A, k \in 1..n : g[x][k] = TakeFlag(x, argv, k)
  OBVIOUS
<1>5. \A S \in SUBSET (1..n) : S # {} => Max(S) \in 1..n
  BY <1>1, LargestIndex
<1> HIDE DEF g, A
<1>6. Def(it)
  <2>1. PICK h : FoldTable(A, b, g, n, h)
    BY <1>1, <1>3, FoldTableExists DEF A
  <2>2. Def(h)
    BY <1>1, <1>4, <1>5, <2>1 DEF FoldTable
  <2> QED
    BY <2>2
<1> HIDE DEF it
<1>7. /\ it[{}] = b
      /\ \A S \in SUBSET (1..n) : S # {} => it[S] = TakeFlag(it[S \ {Max(S)}], argv, Max(S))
  BY <1>1, <1>6
<1> HIDE DEF Def
<1>8. FoldRecursion(A, b, g, n, it)
  BY <1>4, <1>5, <1>7 DEF FoldRecursion
<1>9. n \in Nat /\ b \in A
  BY <1>1 DEF A
<1>10. \E v : LoopRun(A, b, g, n, v, it[1..n])
  <2> HIDE DEF n, b
  <2> QED
    BY <1>3, <1>8, <1>9, FoldTrace, Zenon
<1>11. PICK v : LoopRun(A, b, g, n, v, load_config(env, argv))
  BY <1>2, <1>10
<1>12. \A k \in 1..n : v[k - 1] \in A
  BY <1>1, <1>11 DEF LoopRun
<1>13. \A k \in 1..n : v[k] = TakeFlag(v[k - 1], argv, k)
  BY <1>4, <1>11, <1>12 DEF LoopRun
<1> QED
  BY <1>11, <1>13 DEF LoopRun, A

\* The last valid value behind a flag is the one that counts.
LEMMA ConfigExact ==
  ASSUME NEW W, NEW argv \in Seq(W), NEW env, from_env(env) \in [Flags -> W]
  PROVE  Precedence(env, argv)
<1> DEFINE n == Turns(argv)
           b == from_env(env)
           Given(f, k) == GivenUpto(f, argv, k)
           Right(cfg, f, k) ==
             \/ Given(f, k) = {} /\ cfg[f] = b[f]
             \/ \E m \in Given(f, k) : (\A j \in Given(f, k) : m >= j) /\ cfg[f] = argv[m + 1]
<1>1. PICK v \in [0..n -> [Flags -> W]] :
           /\ v[0] = b /\ v[n] = load_config(env, argv)
           /\ \A k \in 1..n : v[k] = TakeFlag(v[k - 1], argv, k)
  BY ConfigRuns
<1>2. n \in Nat /\ 1..(Len(argv) - 1) = 1..n
  BY DEF Turns
<1> DEFINE T == {k \in Nat : \A f \in Flags : Right(v[k], f, k)}
<1>3. 0 \in T
  BY <1>1 DEF GivenUpto
<1>4. ASSUME NEW k \in 1..n, k - 1 \in T PROVE k \in T
  <2> SUFFICES ASSUME NEW f \in Flags PROVE Right(v[k], f, k)
    OBVIOUS
  <2>1. v[k - 1] \in [Flags -> W] /\ v[k] = TakeFlag(v[k - 1], argv, k)
    BY <1>1, <1>2
  <2>2. Right(v[k - 1], f, k - 1)
    BY <1>4
  <2>3. \A j \in Given(f, k - 1) : k >= j
    BY <1>2 DEF GivenUpto
  <2>4. CASE argv[k] = f /\ Valid(f, argv[k + 1])
    <3>1. Given(f, k) = Given(f, k - 1) \cup {k}
      BY <1>2, <2>4 DEF GivenUpto
    <3>2. v[k][f] = argv[k + 1]
      BY <2>1, <2>4 DEF TakeFlag
    <3> HIDE DEF Given
    <3>3. k \in Given(f, k) /\ \A j \in Given(f, k) : k >= j
      BY <1>2, <2>3, <3>1
    <3> QED
      BY <3>2, <3>3
  <2>5. CASE ~(argv[k] = f /\ Valid(f, argv[k + 1]))
    <3>1. Given(f, k) = Given(f, k - 1)
      BY <1>2, <2>5 DEF GivenUpto
    <3>2. v[k][f] = v[k - 1][f]
      BY <2>1, <2>5 DEF TakeFlag
    <3> HIDE DEF Given
    <3> QED
      BY <2>2, <3>1, <3>2
  <2> QED
    BY <2>4, <2>5
<1>5. n \in T
  <2>1. n \in Nat
    BY <1>2
  <2> HIDE DEF T, n
  <2>2. 0..n \subseteq T
    BY <1>3, <1>4, <2>1, InductUpto
  <2> QED
    BY <2>1, <2>2
<1>6. ASSUME NEW f \in Flags
      PROVE LET given == {m \in 1..(Len(argv) - 1) : argv[m] = f /\ Valid(f, argv[m + 1])}
                value == load_config(env, argv)[f]
            IN  /\ given # {} => value = argv[Max(given) + 1]
                /\ given = {} /\ env[f] # Unset /\ Valid(f, env[f]) => value = env[f]
                /\ given = {} /\ (env[f] = Unset \/ ~Valid(f, env[f])) => value = Default[f]
  <2> DEFINE given == {m \in 1..(Len(argv) - 1) : argv[m] = f /\ Valid(f, argv[m + 1])}
             value == load_config(env, argv)[f]
  <2>1. given = Given(f, n) /\ given \in SUBSET Int
    BY <1>2 DEF GivenUpto
  <2>2. Right(load_config(env, argv), f, n)
    BY <1>1, <1>5
  <2> HIDE DEF Given, given
  <2>3. \/ given = {} /\ value = b[f]
        \/ \E m \in given : (\A j \in given : m >= j) /\ value = argv[m + 1]
    BY <2>1, <2>2
  <2>4. given # {} => value = argv[Max(given) + 1]
    BY <2>1, <2>3, MaxIs
  <2>5. given = {} => value = IF env[f] # Unset /\ Valid(f, env[f]) THEN env[f] ELSE Default[f]
    BY <2>3 DEF from_env
  <2> QED
    BY <2>4, <2>5 DEF given
<1> QED
  BY <1>6 DEF Precedence
-----------------------------------------------------------------------------
(* The theorems.                                                           *)

\* The invariant of the server holds together with the pool's.
THEOREM ServerInvariance == SSpec => [](IndInv /\ SIndInv)
<1>1. IndInv /\ SIndInv /\ [SNext]_svars => (IndInv /\ SIndInv)'
  <2> SUFFICES ASSUME IndInv, SIndInv, [SNext]_svars PROVE IndInv' /\ SIndInv'
    OBVIOUS
  <2>1. IndInv'
    BY ServerStepIsPoolStep, NextIndInv
  <2>2. STypeOK'
    BY <2>1, NextSType DEF IndInv, SIndInv
  <2>3. MainInv' /\ ClientInv' /\ SocketOwned'
    BY <2>2, NextMain, NextClient, NextOwned DEF SIndInv
  <2> QED
    BY <2>1, <2>2, <2>3 DEF SIndInv
<1>2. SInit => IndInv
  BY InitIndInv DEF SInit
<1> QED
  BY <1>1, <1>2, InitSIndInv, PTL DEF SSpec

\* The variables of the server keep their types, and a worker is inside
\* handle_client exactly while the pool has it run a job.
THEOREM ServerTypeCorrect == SSpec => []STypeOK
<1>1. SIndInv => STypeOK
  BY DEF SIndInv
<1> QED
  BY <1>1, ServerInvariance, PTL

\* While a worker serves a client, the routes and the database are there: the
\* order of the calls at the end of main is right for any number of workers,
\* also when tpool_create or poll fails.
THEOREM RoutesAndDbInUse == SSpec => []InUse
<1>1. IndInv /\ SIndInv => InUse
  <2> SUFFICES ASSUME IndInv, SIndInv, Alive, NEW w \in Workers, hpc[w] = "serve"
               PROVE  db = "open" /\ tree = "open"
    BY DEF InUse
  <2>1. wpc[w] = "running"
    BY DEF SIndInv, STypeOK
  <2>2. spc \notin {"db", "api"}
    BY <2>1, FreedIsJoined DEF SIndInv, MainInv, JoinBeforeFree
  <2> QED
    BY <2>2 DEF SIndInv, MainInv, STypeOK, Alive
<1> QED
  BY <1>1, ServerInvariance, PTL

\* Until the pool stops, a socket that was accepted and not yet closed is in
\* the queue or with a worker, and what is there is open: no descriptor leaks
\* and none is used after its close.
THEOREM NoSocketLost == SSpec => []SocketOwned
<1>1. SIndInv => SocketOwned
  BY DEF SIndInv
<1> QED
  BY <1>1, ServerInvariance, PTL

\* A bearer token gives the role and the user that it names, whatever its
\* length: blanks and a plus are skipped, strtol stops at the largest long, the
\* cast to int keeps a number that fits, and no empty token is an admin's
\* (auth_parse).
THEOREM TokensExact == SSpec => []AuthExact
<1>1. AuthExact
  BY TokenExact, ServerAssumption DEF AuthExact
<1> QED
  BY <1>1, PTL

\* Whatever part of a request one recv brings, if it is let through with a role
\* then method, path, token and number are those that were sent, up to the room
\* for them and to where the text was cut, for paths, tokens and numbers of any
\* length (handle_client, parse_request).
THEOREM PartialRecvSafe == SSpec => []PrefixSafe
<1>1. PrefixSafe
  BY PartSafe, ServerAssumption DEF PrefixSafe
<1> QED
  BY <1>1, PTL

\* The command line beats the environment and the environment the default, for
\* every setting and a command line of any length (load_config).
THEOREM ConfigInOrder == SSpec => []ConfigPrecedence
<1>1. ASSUME NEW env \in Envs, NEW argv \in Argvs PROVE Precedence(env, argv)
  <2> DEFINE W == Words \cup {from_env(env)[f] : f \in Flags}
  <2>1. from_env(env) \in [Flags -> W]
    BY DEF from_env
  <2>2. argv \in Seq(W)
    <3>1. argv \in Seq(Words)
      BY ServerAssumption
    <3> QED
      BY <3>1
  <2> HIDE DEF W
  <2> QED
    BY <2>1, <2>2, ConfigExact
<1>2. ConfigPrecedence
  BY <1>1 DEF ConfigPrecedence
<1> QED
  BY <1>2, PTL
=============================================================================
