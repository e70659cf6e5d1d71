----------------------------- MODULE ThreadPool -----------------------------
(***************************************************************************)
(* The worker pool of the server (server/src/threadpool/threadpool.c): one *)
(* owner thread (the accept loop of main) that creates the pool, adds jobs *)
(* and destroys it, and a fixed set of detached workers.                   *)
(*                                                                         *)
(* Every access to the pool's fields happens under work_mutex, so one      *)
(* action is one critical section: from pthread_mutex_lock, or from the    *)
(* return of pthread_cond_wait, to the next unlock or wait.  The linked    *)
(* list work_first .. work_last is the sequence `queue'; work_first = NULL *)
(* is queue = <<>>.                                                        *)
(***************************************************************************)
EXTENDS Integers, Sequences, FiniteSets, Functions

CONSTANTS Workers,  \* the threads that tpool_create(num) starts
          Jobs,     \* the (func, arg) pairs the owner may add, each at most once
          NoJob     \* what `work' holds when a worker has no job

ASSUME PoolAssumption ==
  /\ IsFiniteSet(Workers) /\ Workers # {}   \* tpool_create turns num = 0 into 2
  /\ NoJob \notin Jobs

VARIABLES
  queue,        \* jobs linked from work_first to work_last
  working_cnt,  \* workers between taking a job and reporting it finished
  thread_cnt,   \* workers that have not left tpool_worker, as the pool counts them
  stop,         \* set once, by tpool_destroy
  i,            \* loop counter of tpool_create: threads started so far
  wpc,          \* where each worker is in tpool_worker
  job,          \* the job a worker has taken off the queue
  mpc,          \* where the owner is
  added,        \* history: every job added, in order
  started,      \* history: every job taken by a worker, in order
  done          \* history: jobs whose function has returned

poolVars == <<queue, working_cnt, thread_cnt, stop, i>>
history  == <<added, started, done>>
vars     == <<queue, working_cnt, thread_cnt, stop, i, wpc, job, mpc,
              added, started, done>>

\* "lock": at the top of the loop, or woken and about to test its condition;
\* "asleep": blocked on work_cond;  "ran": the job returned, not yet reported.
WorkerState == {"unborn", "lock", "asleep", "running", "ran", "exited"}

\* "check": in tpool_wait, about to test its condition;  "blocked": on working_cond.
OwnerState == {"creating", "failed", "open", "check", "blocked", "freed"}

TypeOK ==
  /\ queue \in Seq(Jobs)
  /\ working_cnt \in Nat
  /\ thread_cnt \in Nat
  /\ stop \in BOOLEAN
  /\ i \in Nat
  /\ wpc \in [Workers -> WorkerState]
  /\ job \in [Workers -> Jobs \cup {NoJob}]
  /\ mpc \in OwnerState
  /\ added \in Seq(Jobs)
  /\ started \in Seq(Jobs)
  /\ done \subseteq Jobs

Init ==
  /\ queue = <<>>
  /\ working_cnt = 0
  /\ thread_cnt = Cardinality(Workers)
  /\ stop = FALSE
  /\ i = 0
  /\ wpc = [w \in Workers |-> "unborn"]
  /\ job = [w \in Workers |-> NoJob]
  /\ mpc = "creating"
  /\ added = <<>>
  /\ started = <<>>
  /\ done = {}

-----------------------------------------------------------------------------
(* Condition variables.                                                    *)

\* pthread_cond_broadcast(&work_cond), in state f of the workers.
WakeWorkers(f) ==
  [w \in Workers |-> IF f[w] = "asleep" THEN "lock" ELSE f[w]]

\* pthread_cond_signal(&working_cond): only the owner ever waits on it.
SignalOwner == mpc' = IF mpc = "blocked" THEN "check" ELSE mpc

-----------------------------------------------------------------------------
(* tpool_create.                                                           *)

\* pthread_create succeeds; the loop ends with the last worker.
CreateThread(w) ==
  /\ mpc = "creating" /\ wpc[w] = "unborn"
  /\ i' = i + 1
  /\ wpc' = [wpc EXCEPT ![w] = "lock"]
  /\ mpc' = IF i + 1 = Cardinality(Workers) THEN "open" ELSE "creating"
  /\ UNCHANGED <<queue, working_cnt, thread_cnt, stop, job, history>>

\* Mutant: the count is not corrected to the threads actually started.
CreateFailsUncorrected ==
  /\ mpc = "creating"
  /\ mpc' = "failed"
  /\ UNCHANGED <<poolVars, wpc, job, history>>

\* pthread_create fails: the count is corrected, without the mutex, and the
\* pool is destroyed again.
CreateFails ==
  /\ mpc = "creating"
  /\ thread_cnt' = i
  /\ mpc' = "failed"
  /\ UNCHANGED <<queue, working_cnt, stop, i, wpc, job, history>>

-----------------------------------------------------------------------------
(* The owner's other calls.                                                *)

\* Mutant: the node is linked in at work_first.
AddWorkFront(j) ==
  /\ mpc = "open" /\ j \notin Range(added)
  /\ queue' = <<j>> \o queue
  /\ added' = Append(added, j)
  /\ wpc' = WakeWorkers(wpc)
  /\ UNCHANGED <<working_cnt, thread_cnt, stop, i, job, mpc, started, done>>

AddWork(j) ==
  /\ mpc = "open" /\ j \notin Range(added)
  /\ queue' = Append(queue, j)
  /\ added' = Append(added, j)
  /\ wpc' = WakeWorkers(wpc)
  /\ UNCHANGED <<working_cnt, thread_cnt, stop, i, job, mpc, started, done>>

\* tpool_wait called by the owner of a running pool.
CallWait ==
  /\ mpc = "open"
  /\ mpc' = "check"
  /\ UNCHANGED <<poolVars, wpc, job, history>>

\* Mutant: stop is set without the broadcast.
DestroySilent ==
  /\ mpc \in {"open", "failed"}
  /\ queue' = <<>>
  /\ stop' = TRUE
  /\ mpc' = "check"
  /\ UNCHANGED <<working_cnt, thread_cnt, i, wpc, job, history>>

\* First critical section of tpool_destroy; it then calls tpool_wait.
Destroy ==
  /\ mpc \in {"open", "failed"}
  /\ queue' = <<>>
  /\ stop' = TRUE
  /\ wpc' = WakeWorkers(wpc)
  /\ mpc' = "check"
  /\ UNCHANGED <<working_cnt, thread_cnt, i, job, history>>

\* Mutant: tpool_wait as readme.md words it, until "the queue is empty and no
\* worker is still busy", also when the pool is being destroyed.
MustWaitBusy == queue # <<>> \/ working_cnt # 0

\* The loop condition of tpool_wait.
MustWait ==
  \/ queue # <<>>
  \/ ~stop /\ working_cnt # 0
  \/ stop /\ thread_cnt # 0

\* One evaluation of tpool_wait's loop.  When it returns to tpool_destroy
\* (stop is set) the mutex, the conditions and the pool itself are freed.
CheckWait ==
  /\ mpc = "check"
  /\ mpc' = IF MustWait THEN "blocked" ELSE IF stop THEN "freed" ELSE "open"
  /\ UNCHANGED <<poolVars, wpc, job, history>>

-----------------------------------------------------------------------------
(* tpool_worker.                                                           *)

Sleep(w) ==
  /\ wpc[w] = "lock" /\ queue = <<>> /\ ~stop
  /\ wpc' = [wpc EXCEPT ![w] = "asleep"]
  /\ UNCHANGED <<poolVars, job, mpc, history>>

\* stop is tested before the queue: a stopping worker takes no further job.
Exit(w) ==
  /\ wpc[w] = "lock" /\ stop
  /\ thread_cnt' = thread_cnt - 1
  /\ SignalOwner
  /\ wpc' = [wpc EXCEPT ![w] = "exited"]
  /\ UNCHANGED <<queue, working_cnt, stop, i, job, history>>

\* Mutant: working_cnt is not incremented.
TakeUncounted(w) ==
  /\ wpc[w] = "lock" /\ queue # <<>> /\ ~stop
  /\ job' = [job EXCEPT ![w] = Head(queue)]
  /\ queue' = Tail(queue)
  /\ started' = Append(started, Head(queue))
  /\ wpc' = [wpc EXCEPT ![w] = "running"]
  /\ UNCHANGED <<working_cnt, thread_cnt, stop, i, mpc, added, done>>

Take(w) ==
  /\ wpc[w] = "lock" /\ queue # <<>> /\ ~stop
  /\ job' = [job EXCEPT ![w] = Head(queue)]
  /\ queue' = Tail(queue)
  /\ started' = Append(started, Head(queue))
  /\ working_cnt' = working_cnt + 1
  /\ wpc' = [wpc EXCEPT ![w] = "running"]
  /\ UNCHANGED <<thread_cnt, stop, i, mpc, added, done>>

\* work->func(work->arg) returns, outside the mutex.
RunJob(w) ==
  /\ wpc[w] = "running"
  /\ done' = done \cup {job[w]}
  /\ wpc' = [wpc EXCEPT ![w] = "ran"]
  /\ UNCHANGED <<poolVars, job, mpc, added, started>>

\* Mutant: the count is tested before it is decremented.
FinishEarlyTest(w) ==
  /\ wpc[w] = "ran"
  /\ working_cnt' = working_cnt - 1
  /\ IF ~stop /\ working_cnt = 0 /\ queue = <<>>
       THEN SignalOwner
       ELSE mpc' = mpc
  /\ job' = [job EXCEPT ![w] = NoJob]
  /\ wpc' = [wpc EXCEPT ![w] = "lock"]
  /\ UNCHANGED <<queue, thread_cnt, stop, i, history>>

Finish(w) ==
  /\ wpc[w] = "ran"
  /\ working_cnt' = working_cnt - 1
  /\ IF ~stop /\ working_cnt - 1 = 0 /\ queue = <<>>
       THEN SignalOwner
       ELSE mpc' = mpc
  /\ job' = [job EXCEPT ![w] = NoJob]
  /\ wpc' = [wpc EXCEPT ![w] = "lock"]
  /\ UNCHANGED <<queue, thread_cnt, stop, i, history>>

\* POSIX lets pthread_cond_wait return without a signal.
SpuriousWorker(w) ==
  /\ wpc[w] = "asleep"
  /\ wpc' = [wpc EXCEPT ![w] = "lock"]
  /\ UNCHANGED <<poolVars, job, mpc, history>>

SpuriousOwner ==
  /\ mpc = "blocked"
  /\ mpc' = "check"
  /\ UNCHANGED <<poolVars, wpc, job, history>>

-----------------------------------------------------------------------------
Worker(w) == Sleep(w) \/ Exit(w) \/ Take(w) \/ RunJob(w) \/ Finish(w)

Next ==
  \/ \E w \in Workers : CreateThread(w) \/ Worker(w) \/ SpuriousWorker(w)
  \/ \E j \in Jobs : AddWork(j)
  \/ CreateFails \/ CallWait \/ Destroy \/ CheckWait \/ SpuriousOwner

Spec == Init /\ [][Next]_vars

\* The owner finishes a call it has begun, and every worker keeps running: no
\* fairness on AddWork, CallWait or Destroy, which nobody is obliged to call,
\* nor on spurious wake-ups.  WF of RunJob says that jobs return.
Fairness ==
  /\ \A w \in Workers : WF_vars(Worker(w))
  /\ WF_vars(\E w \in Workers : CreateThread(w))
  /\ WF_vars(CheckWait)
  /\ WF_vars(mpc = "failed" /\ Destroy)

FairSpec == Spec /\ Fairness

-----------------------------------------------------------------------------
(* Properties.                                                             *)

\* No thread still runs tpool_worker, and so dereferences tm, once
\* tpool_destroy has freed the pool; this covers the pool that tpool_create
\* gives up half built.
JoinBeforeFree ==
  mpc = "freed" => \A w \in Workers : wpc[w] \in {"unborn", "exited"}

\* No lost wake-up: a worker sleeps on work_cond only while there is nothing
\* to do and the pool is not stopping.
NoLostWakeup ==
  (\E w \in Workers : wpc[w] = "asleep") => queue = <<>> /\ ~stop

\* The owner sleeps on working_cond only while what tpool_wait waits for has
\* not happened, so the signal that ends the wait is still to come.
OwnerNotStranded == mpc = "blocked" => MustWait

\* Until the pool stops, workers take the jobs in the order they were added
\* and none is skipped or taken twice: what was added is what was started
\* followed by what is queued.
FifoOnce == ~stop => added = started \o queue

\* A running tpool_wait returns only when the queue is empty and no job that
\* was taken is unfinished.
WaitContract ==
  [][mpc = "check" /\ mpc' = "open"
       => /\ queue = <<>>
          /\ \A w \in Workers : wpc[w] \notin {"running", "ran"}
          /\ Range(added) = done]_vars

\* tpool_destroy, once it has set stop, returns.
DestroyReturns == stop ~> (mpc = "freed")

\* What readme.md says of shutdown: the loop "exits to drain the pool", so a
\* pool that is gone has run every job that was added.
DrainedAtShutdown == mpc = "freed" => Range(added) = done
=============================================================================
