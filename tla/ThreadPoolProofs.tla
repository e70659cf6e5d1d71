-------------------------- MODULE ThreadPoolProofs --------------------------
(***************************************************************************)
(* Proofs that the pool of ThreadPool.tla keeps its invariants for every   *)
(* finite set of workers and every set of jobs.                            *)
(***************************************************************************)
EXTENDS ThreadPool, FiniteSetTheorems, TLAPS

\* The workers inside tpool_worker, and those among them that hold a job.
LiveIn(f) == {w \in Workers : f[w] \notin {"unborn", "exited"}}
BusyIn(f) == {w \in Workers : f[w] \in {"running", "ran"}}

\* What the two counters count.  While the pool is being created thread_cnt
\* already holds the final number; a worker leaves only after stop.
CountInv ==
  /\ thread_cnt = IF mpc = "creating" THEN Cardinality(Workers)
                                      ELSE Cardinality(LiveIn(wpc))
  /\ mpc = "creating" => i = Cardinality(LiveIn(wpc))
  /\ working_cnt = Cardinality(BusyIn(wpc))

\* How the owner's position, stop and the queue go together.
OwnerInv ==
  /\ mpc \in {"creating", "failed", "open"} => ~stop
  /\ mpc = "freed" => stop /\ thread_cnt = 0
  /\ stop => queue = <<>>

\* Every job that was taken is running on a worker or is done.
JobInv ==
  /\ \A w \in Workers : wpc[w] = "running" => job[w] \in Range(started)
  /\ done \subseteq Range(started)
  /\ \A j \in Range(started) :
       j \in done \/ \E w \in Workers : wpc[w] = "running" /\ job[w] = j

IndInv ==
  /\ TypeOK /\ CountInv /\ OwnerInv
  /\ NoLostWakeup /\ OwnerNotStranded /\ FifoOnce /\ JobInv
-----------------------------------------------------------------------------
(* Finite sets of workers.                                                 *)

\* The workers that satisfy a condition on their state are finitely many, and
\* the counters that count them are natural numbers.
LEMMA WorkerSetsFinite ==
  ASSUME NEW f
  PROVE  /\ IsFiniteSet(Workers) /\ Cardinality(Workers) \in Nat
         /\ IsFiniteSet(LiveIn(f)) /\ Cardinality(LiveIn(f)) \in Nat
         /\ IsFiniteSet(BusyIn(f)) /\ Cardinality(BusyIn(f)) \in Nat
<1>1. LiveIn(f) \in SUBSET Workers /\ BusyIn(f) \in SUBSET Workers
  BY DEF LiveIn, BusyIn
<1>2. IsFiniteSet(Workers)
  BY PoolAssumption
<1>3. IsFiniteSet(LiveIn(f)) /\ IsFiniteSet(BusyIn(f))
  BY <1>1, <1>2, FS_Subset
<1> QED
  BY <1>2, <1>3, FS_CardinalityType

\* What a change of one worker's state does to the number of live workers.
LEMMA LiveExcept ==
  ASSUME NEW f \in [Workers -> WorkerState], NEW w \in Workers,
         NEW s \in WorkerState
  PROVE  LET g == [f EXCEPT ![w] = s] IN
         /\ (f[w] \in {"unborn", "exited"} <=> s \in {"unborn", "exited"})
              => LiveIn(g) = LiveIn(f)
         /\ f[w] \in {"unborn", "exited"} /\ s \notin {"unborn", "exited"}
              => Cardinality(LiveIn(g)) = Cardinality(LiveIn(f)) + 1
         /\ f[w] \notin {"unborn", "exited"} /\ s \in {"unborn", "exited"}
              => Cardinality(LiveIn(g)) = Cardinality(LiveIn(f)) - 1
<1> DEFINE g == [f EXCEPT ![w] = s]
<1>1. (f[w] \in {"unborn", "exited"} <=> s \in {"unborn", "exited"})
        => LiveIn(g) = LiveIn(f)
  BY DEF LiveIn
<1>2. ASSUME f[w] \in {"unborn", "exited"}, s \notin {"unborn", "exited"}
      PROVE  Cardinality(LiveIn(g)) = Cardinality(LiveIn(f)) + 1
  <2>1. LiveIn(g) = LiveIn(f) \cup {w} /\ w \notin LiveIn(f)
    BY <1>2 DEF LiveIn
  <2> QED
    BY <2>1, WorkerSetsFinite, FS_AddElement
<1>3. ASSUME f[w] \notin {"unborn", "exited"}, s \in {"unborn", "exited"}
      PROVE  Cardinality(LiveIn(g)) = Cardinality(LiveIn(f)) - 1
  <2>1. LiveIn(g) = LiveIn(f) \ {w} /\ w \in LiveIn(f)
    BY <1>3 DEF LiveIn
  <2> QED
    BY <2>1, WorkerSetsFinite, FS_RemoveElement
<1> QED
  BY <1>1, <1>2, <1>3

\* The same for the number of workers that hold a job.
LEMMA BusyExcept ==
  ASSUME NEW f \in [Workers -> WorkerState], NEW w \in Workers,
         NEW s \in WorkerState
  PROVE  LET g == [f EXCEPT ![w] = s] IN
         /\ (f[w] \in {"running", "ran"} <=> s \in {"running", "ran"})
              => BusyIn(g) = BusyIn(f)
         /\ f[w] \notin {"running", "ran"} /\ s \in {"running", "ran"}
              => Cardinality(BusyIn(g)) = Cardinality(BusyIn(f)) + 1
         /\ f[w] \in {"running", "ran"} /\ s \notin {"running", "ran"}
              => Cardinality(BusyIn(g)) = Cardinality(BusyIn(f)) - 1
<1> DEFINE g == [f EXCEPT ![w] = s]
<1>1. (f[w] \in {"running", "ran"} <=> s \in {"running", "ran"})
        => BusyIn(g) = BusyIn(f)
  BY DEF BusyIn
<1>2. ASSUME f[w] \notin {"running", "ran"}, s \in {"running", "ran"}
      PROVE  Cardinality(BusyIn(g)) = Cardinality(BusyIn(f)) + 1
  <2>1. BusyIn(g) = BusyIn(f) \cup {w} /\ w \notin BusyIn(f)
    BY <1>2 DEF BusyIn
  <2> QED
    BY <2>1, WorkerSetsFinite, FS_AddElement
<1>3. ASSUME f[w] \in {"running", "ran"}, s \notin {"running", "ran"}
      PROVE  Cardinality(BusyIn(g)) = Cardinality(BusyIn(f)) - 1
  <2>1. BusyIn(g) = BusyIn(f) \ {w} /\ w \in BusyIn(f)
    BY <1>3 DEF BusyIn
  <2> QED
    BY <2>1, WorkerSetsFinite, FS_RemoveElement
<1> QED
  BY <1>1, <1>2, <1>3

\* A worker in one of these sets makes its cardinality positive.
LEMMA Counted ==
  ASSUME NEW f \in [Workers -> WorkerState], NEW w \in Workers
  PROVE  /\ f[w] \notin {"unborn", "exited"} => Cardinality(LiveIn(f)) > 0
         /\ f[w] \in {"running", "ran"} => Cardinality(BusyIn(f)) > 0
<1>1. f[w] \notin {"unborn", "exited"} => LiveIn(f) # {}
  BY DEF LiveIn
<1>2. f[w] \in {"running", "ran"} => BusyIn(f) # {}
  BY DEF BusyIn
<1> QED
  BY <1>1, <1>2, WorkerSetsFinite, FS_EmptySet

\* A broadcast wakes the sleepers and changes neither set.
LEMMA WakeKeeps ==
  ASSUME NEW f \in [Workers -> WorkerState]
  PROVE  /\ WakeWorkers(f) \in [Workers -> WorkerState]
         /\ LiveIn(WakeWorkers(f)) = LiveIn(f)
         /\ BusyIn(WakeWorkers(f)) = BusyIn(f)
         /\ \A w \in Workers : /\ WakeWorkers(f)[w] # "asleep"
                               /\ WakeWorkers(f)[w] = "running" <=> f[w] = "running"
<1> QED
  BY DEF WakeWorkers, LiveIn, BusyIn, WorkerState

\* Appending to a sequence adds one element to its range.
LEMMA RangeAppend ==
  ASSUME NEW s \in Seq(Jobs), NEW x \in Jobs
  PROVE  Range(Append(s, x)) = Range(s) \cup {x}
<1>1. DOMAIN Append(s, x) = 1..(Len(s) + 1) /\ DOMAIN s = 1..Len(s) /\ Len(s) \in Nat
  OBVIOUS
<1>2. \A k \in 1..Len(s) : Append(s, x)[k] = s[k]
  OBVIOUS
<1>3. Append(s, x)[Len(s) + 1] = x
  OBVIOUS
<1> QED
  BY <1>1, <1>2, <1>3 DEF Range

\* Moving the head of one sequence to the end of another.
LEMMA MoveHead ==
  ASSUME NEW s \in Seq(Jobs), NEW q \in Seq(Jobs), q # <<>>
  PROVE  Append(s, Head(q)) \o Tail(q) = s \o q
OBVIOUS
\* Appending to a concatenation appends to its right part.
LEMMA AppendRight ==
  ASSUME NEW s \in Seq(Jobs), NEW q \in Seq(Jobs), NEW x \in Jobs
  PROVE  Append(s \o q, x) = s \o Append(q, x)
OBVIOUS

-----------------------------------------------------------------------------
(* The invariant is inductive: one lemma per part, one step per action.    *)

\* The initial state: no worker, an empty queue.
LEMMA InitIndInv == Init => IndInv
<1> SUFFICES ASSUME Init PROVE IndInv
  OBVIOUS
<1>1. LiveIn(wpc) = {} /\ BusyIn(wpc) = {}
  BY DEF Init, LiveIn, BusyIn
<1>2. Cardinality(Workers) \in Nat
  BY PoolAssumption, FS_CardinalityType
<1>3. TypeOK
  <2>1. <<>> \in Seq(Jobs)
    OBVIOUS
  <2>2. wpc \in [Workers -> WorkerState] /\ job \in [Workers -> Jobs \cup {NoJob}]
    BY DEF Init, WorkerState
  <2> QED
    BY <1>2, <2>1, <2>2 DEF Init, TypeOK, OwnerState
<1>4. CountInv
  BY <1>1, FS_EmptySet DEF Init, CountInv
<1>5. OwnerInv /\ NoLostWakeup /\ OwnerNotStranded /\ FifoOnce
  BY DEF Init, OwnerInv, NoLostWakeup, OwnerNotStranded, FifoOnce
<1>6. JobInv
  BY DEF Init, JobInv, Range
<1> QED
  BY <1>3, <1>4, <1>5, <1>6 DEF IndInv

\* Each action keeps the counters equal to what they count.
LEMMA NextCount ==
  TypeOK /\ CountInv /\ OwnerInv /\ [Next]_vars => CountInv'
<1> SUFFICES ASSUME TypeOK, CountInv, OwnerInv, [Next]_vars
             PROVE  CountInv'
  OBVIOUS
<1>1. ASSUME NEW w \in Workers, CreateThread(w) PROVE CountInv'
  <2>1. Cardinality(LiveIn(wpc')) = Cardinality(LiveIn(wpc)) + 1
    BY <1>1, LiveExcept DEF CreateThread, TypeOK, WorkerState
  <2>2. BusyIn(wpc') = BusyIn(wpc)
    BY <1>1, BusyExcept DEF CreateThread, TypeOK, WorkerState
  <2>3. Cardinality(LiveIn(wpc)) \in Nat /\ Cardinality(Workers) \in Nat
    BY WorkerSetsFinite
  <2> QED
    BY <1>1, <2>1, <2>2, <2>3
    DEF CreateThread, history, TypeOK, CountInv, OwnerInv
<1>2. ASSUME CreateFails PROVE CountInv'
  BY <1>2 DEF CreateFails, history, CountInv
<1>3. ASSUME NEW j \in Jobs, AddWork(j) PROVE CountInv'
  BY <1>3, WakeKeeps DEF AddWork, TypeOK, CountInv
<1>4. ASSUME CallWait PROVE CountInv'
  BY <1>4 DEF CallWait, poolVars, history, CountInv
<1>5. ASSUME Destroy PROVE CountInv'
  BY <1>5, WakeKeeps DEF Destroy, history, TypeOK, CountInv
<1>6. ASSUME CheckWait PROVE CountInv'
  BY <1>6 DEF CheckWait, poolVars, history, CountInv
<1>7. ASSUME NEW w \in Workers, Sleep(w) PROVE CountInv'
  <2>1. LiveIn(wpc') = LiveIn(wpc)
    BY <1>7, LiveExcept DEF Sleep, TypeOK, WorkerState
  <2>2. BusyIn(wpc') = BusyIn(wpc)
    BY <1>7, BusyExcept DEF Sleep, TypeOK, WorkerState
  <2> QED
    BY <1>7, <2>1, <2>2
    DEF Sleep, poolVars, history, TypeOK, CountInv, OwnerInv
<1>8. ASSUME NEW w \in Workers, Exit(w) PROVE CountInv'
  <2>1. Cardinality(LiveIn(wpc')) = Cardinality(LiveIn(wpc)) - 1
    BY <1>8, LiveExcept DEF Exit, TypeOK, WorkerState
  <2>2. BusyIn(wpc') = BusyIn(wpc)
    BY <1>8, BusyExcept DEF Exit, TypeOK, WorkerState
  <2> QED
    BY <1>8, <2>1, <2>2
    DEF Exit, SignalOwner, history, TypeOK, CountInv, OwnerInv
<1>9. ASSUME NEW w \in Workers, Take(w) PROVE CountInv'
  <2>1. LiveIn(wpc') = LiveIn(wpc)
    BY <1>9, LiveExcept DEF Take, TypeOK, WorkerState
  <2>2. Cardinality(BusyIn(wpc')) = Cardinality(BusyIn(wpc)) + 1
    BY <1>9, BusyExcept DEF Take, TypeOK, WorkerState
  <2> QED
    BY <1>9, <2>1, <2>2 DEF Take, TypeOK, CountInv, OwnerInv
<1>10. ASSUME NEW w \in Workers, RunJob(w) PROVE CountInv'
  <2>1. LiveIn(wpc') = LiveIn(wpc)
    BY <1>10, LiveExcept DEF RunJob, TypeOK, WorkerState
  <2>2. BusyIn(wpc') = BusyIn(wpc)
    BY <1>10, BusyExcept DEF RunJob, TypeOK, WorkerState
  <2> QED
    BY <1>10, <2>1, <2>2 DEF RunJob, poolVars, TypeOK, CountInv, OwnerInv
<1>11. ASSUME NEW w \in Workers, Finish(w) PROVE CountInv'
  <2>1. LiveIn(wpc') = LiveIn(wpc)
    BY <1>11, LiveExcept DEF Finish, TypeOK, WorkerState
  <2>2. Cardinality(BusyIn(wpc')) = Cardinality(BusyIn(wpc)) - 1
    BY <1>11, BusyExcept DEF Finish, TypeOK, WorkerState
  <2> QED
    BY <1>11, <2>1, <2>2
    DEF Finish, SignalOwner, history, TypeOK, CountInv, OwnerInv
<1>12. ASSUME NEW w \in Workers, SpuriousWorker(w) PROVE CountInv'
  <2>1. LiveIn(wpc') = LiveIn(wpc)
    BY <1>12, LiveExcept DEF SpuriousWorker, TypeOK, WorkerState
  <2>2. BusyIn(wpc') = BusyIn(wpc)
    BY <1>12, BusyExcept DEF SpuriousWorker, TypeOK, WorkerState
  <2> QED
    BY <1>12, <2>1, <2>2
    DEF SpuriousWorker, poolVars, history, TypeOK, CountInv, OwnerInv
<1>13. ASSUME SpuriousOwner PROVE CountInv'
  BY <1>13 DEF SpuriousOwner, poolVars, history, CountInv
<1>14. CASE UNCHANGED vars
  BY <1>14 DEF vars, CountInv
<1> QED
  BY <1>1, <1>2, <1>3, <1>4, <1>5, <1>6, <1>7,
     <1>8, <1>9, <1>10, <1>11, <1>12, <1>13, <1>14 DEF Next, Worker

\* Each action keeps the types; the counters stay natural numbers because
\* whoever decrements one is counted in it.
LEMMA NextType ==
  TypeOK /\ CountInv /\ OwnerInv /\ JobInv /\ [Next]_vars => TypeOK'
<1> SUFFICES ASSUME TypeOK, CountInv, OwnerInv, JobInv, [Next]_vars
             PROVE  TypeOK'
  OBVIOUS
<1>1. ASSUME NEW w \in Workers, CreateThread(w) PROVE TypeOK'
  BY <1>1 DEF CreateThread, history, TypeOK, WorkerState, OwnerState
<1>2. ASSUME CreateFails PROVE TypeOK'
  BY <1>2 DEF CreateFails, history, TypeOK, WorkerState, OwnerState
<1>3. ASSUME NEW j \in Jobs, AddWork(j) PROVE TypeOK'
  BY <1>3, WakeKeeps DEF AddWork, TypeOK, WorkerState, OwnerState
<1>4. ASSUME CallWait PROVE TypeOK'
  BY <1>4 DEF CallWait, poolVars, history, TypeOK, WorkerState, OwnerState
<1>5. ASSUME Destroy PROVE TypeOK'
  BY <1>5, WakeKeeps DEF Destroy, history, TypeOK, WorkerState, OwnerState
<1>6. ASSUME CheckWait PROVE TypeOK'
  BY <1>6 DEF CheckWait, poolVars, history, TypeOK, WorkerState, OwnerState
<1>7. ASSUME NEW w \in Workers, Sleep(w) PROVE TypeOK'
  BY <1>7 DEF Sleep, poolVars, history, TypeOK, WorkerState, OwnerState
<1>8. ASSUME NEW w \in Workers, Exit(w) PROVE TypeOK'
  <2>1. Cardinality(LiveIn(wpc)) > 0 /\ Cardinality(LiveIn(wpc)) \in Nat
    BY <1>8, Counted, WorkerSetsFinite DEF Exit, TypeOK
  <2>2. thread_cnt = Cardinality(LiveIn(wpc))
    BY <1>8 DEF Exit, CountInv, OwnerInv
  <2> QED
    BY <1>8, <2>1, <2>2
    DEF Exit, SignalOwner, history, TypeOK, WorkerState, OwnerState
<1>9. ASSUME NEW w \in Workers, Take(w) PROVE TypeOK'
  BY <1>9 DEF Take, TypeOK, WorkerState, OwnerState
<1>10. ASSUME NEW w \in Workers, RunJob(w) PROVE TypeOK'
  <2>1. job[w] \in Jobs
    BY <1>10 DEF RunJob, TypeOK, JobInv, Range
  <2> QED
    BY <1>10, <2>1 DEF RunJob, poolVars, TypeOK, WorkerState, OwnerState
<1>11. ASSUME NEW w \in Workers, Finish(w) PROVE TypeOK'
  <2>1. Cardinality(BusyIn(wpc)) > 0 /\ Cardinality(BusyIn(wpc)) \in Nat
    BY <1>11, Counted, WorkerSetsFinite DEF Finish, TypeOK
  <2> QED
    BY <1>11, <2>1
    DEF Finish, SignalOwner, history, TypeOK, WorkerState, OwnerState,
        CountInv
<1>12. ASSUME NEW w \in Workers, SpuriousWorker(w) PROVE TypeOK'
  BY <1>12
  DEF SpuriousWorker, poolVars, history, TypeOK, WorkerState, OwnerState
<1>13. ASSUME SpuriousOwner PROVE TypeOK'
  BY <1>13
  DEF SpuriousOwner, poolVars, history, TypeOK, WorkerState, OwnerState
<1>14. CASE UNCHANGED vars
  BY <1>14 DEF vars, TypeOK, poolVars, history
<1> QED
  BY <1>1, <1>2, <1>3, <1>4, <1>5, <1>6, <1>7,
     <1>8, <1>9, <1>10, <1>11, <1>12, <1>13, <1>14 DEF Next, Worker

\* Each action keeps the owner's part; the pool is freed only when no worker
\* is counted, and then none can leave any more.
LEMMA NextOwner ==
  TypeOK /\ CountInv /\ OwnerInv /\ [Next]_vars => OwnerInv'
<1> SUFFICES ASSUME TypeOK, CountInv, OwnerInv, [Next]_vars
             PROVE  OwnerInv'
  OBVIOUS
<1>1. ASSUME NEW w \in Workers, CreateThread(w) PROVE OwnerInv'
  BY <1>1 DEF CreateThread, history, TypeOK, OwnerInv, OwnerState
<1>2. ASSUME CreateFails PROVE OwnerInv'
  BY <1>2 DEF CreateFails, history, TypeOK, OwnerInv, OwnerState
<1>3. ASSUME NEW j \in Jobs, AddWork(j) PROVE OwnerInv'
  BY <1>3 DEF AddWork, TypeOK, OwnerInv, OwnerState
<1>4. ASSUME CallWait PROVE OwnerInv'
  BY <1>4 DEF CallWait, poolVars, history, TypeOK, OwnerInv, OwnerState
<1>5. ASSUME Destroy PROVE OwnerInv'
  BY <1>5 DEF Destroy, history, TypeOK, OwnerInv, OwnerState
<1>6. ASSUME CheckWait PROVE OwnerInv'
  BY <1>6
  DEF CheckWait, poolVars, history, TypeOK, OwnerInv, OwnerState, MustWait
<1>7. ASSUME NEW w \in Workers, Sleep(w) PROVE OwnerInv'
  BY <1>7 DEF Sleep, poolVars, history, TypeOK, OwnerInv, OwnerState
<1>8. ASSUME NEW w \in Workers, Exit(w) PROVE OwnerInv'
  <2>1. Cardinality(LiveIn(wpc)) > 0
    BY <1>8, Counted DEF Exit, TypeOK
  <2>2. mpc # "freed"
    BY <1>8, <2>1 DEF Exit, CountInv, OwnerInv
  <2> QED
    BY <1>8, <2>2 DEF Exit, SignalOwner, history, TypeOK, OwnerInv, OwnerState
<1>9. ASSUME NEW w \in Workers, Take(w) PROVE OwnerInv'
  BY <1>9 DEF Take, TypeOK, OwnerInv, OwnerState
<1>10. ASSUME NEW w \in Workers, RunJob(w) PROVE OwnerInv'
  BY <1>10 DEF RunJob, poolVars, TypeOK, OwnerInv, OwnerState
<1>11. ASSUME NEW w \in Workers, Finish(w) PROVE OwnerInv'
  BY <1>11 DEF Finish, SignalOwner, history, TypeOK, OwnerInv, OwnerState
<1>12. ASSUME NEW w \in Workers, SpuriousWorker(w) PROVE OwnerInv'
  BY <1>12 DEF SpuriousWorker, poolVars, history, TypeOK, OwnerInv, OwnerState
<1>13. ASSUME SpuriousOwner PROVE OwnerInv'
  BY <1>13 DEF SpuriousOwner, poolVars, history, TypeOK, OwnerInv, OwnerState
<1>14. CASE UNCHANGED vars
  BY <1>14 DEF vars, OwnerInv, poolVars, history
<1> QED
  BY <1>1, <1>2, <1>3, <1>4, <1>5, <1>6, <1>7,
     <1>8, <1>9, <1>10, <1>11, <1>12, <1>13, <1>14 DEF Next, Worker

\* No action leaves a worker asleep beside a job or a stop.
LEMMA NextWakeup ==
  TypeOK /\ OwnerInv /\ NoLostWakeup /\ [Next]_vars => NoLostWakeup'
<1> SUFFICES ASSUME TypeOK, OwnerInv, NoLostWakeup, [Next]_vars
             PROVE  NoLostWakeup'
  OBVIOUS
<1>1. ASSUME NEW w \in Workers, CreateThread(w) PROVE NoLostWakeup'
  BY <1>1 DEF CreateThread, history, TypeOK, OwnerInv, NoLostWakeup
<1>2. ASSUME CreateFails PROVE NoLostWakeup'
  BY <1>2 DEF CreateFails, history, TypeOK, OwnerInv, NoLostWakeup
<1>3. ASSUME NEW j \in Jobs, AddWork(j) PROVE NoLostWakeup'
  BY <1>3, WakeKeeps DEF AddWork, TypeOK, OwnerInv, NoLostWakeup
<1>4. ASSUME CallWait PROVE NoLostWakeup'
  BY <1>4 DEF CallWait, poolVars, history, TypeOK, OwnerInv, NoLostWakeup
<1>5. ASSUME Destroy PROVE NoLostWakeup'
  BY <1>5, WakeKeeps DEF Destroy, history, TypeOK, OwnerInv, NoLostWakeup
<1>6. ASSUME CheckWait PROVE NoLostWakeup'
  BY <1>6 DEF CheckWait, poolVars, history, TypeOK, OwnerInv, NoLostWakeup
<1>7. ASSUME NEW w \in Workers, Sleep(w) PROVE NoLostWakeup'
  BY <1>7 DEF Sleep, poolVars, history, TypeOK, OwnerInv, NoLostWakeup
<1>8. ASSUME NEW w \in Workers, Exit(w) PROVE NoLostWakeup'
  BY <1>8 DEF Exit, SignalOwner, history, TypeOK, OwnerInv, NoLostWakeup
<1>9. ASSUME NEW w \in Workers, Take(w) PROVE NoLostWakeup'
  BY <1>9 DEF Take, TypeOK, OwnerInv, NoLostWakeup
<1>10. ASSUME NEW w \in Workers, RunJob(w) PROVE NoLostWakeup'
  BY <1>10 DEF RunJob, poolVars, TypeOK, OwnerInv, NoLostWakeup
<1>11. ASSUME NEW w \in Workers, Finish(w) PROVE NoLostWakeup'
  BY <1>11 DEF Finish, SignalOwner, history, TypeOK, OwnerInv, NoLostWakeup
<1>12. ASSUME NEW w \in Workers, SpuriousWorker(w) PROVE NoLostWakeup'
  BY <1>12
  DEF SpuriousWorker, poolVars, history, TypeOK, OwnerInv, NoLostWakeup
<1>13. ASSUME SpuriousOwner PROVE NoLostWakeup'
  BY <1>13 DEF SpuriousOwner, poolVars, history, TypeOK, OwnerInv, NoLostWakeup
<1>14. CASE UNCHANGED vars
  BY <1>14 DEF vars, NoLostWakeup, poolVars, history
<1> QED
  BY <1>1, <1>2, <1>3, <1>4, <1>5, <1>6, <1>7,
     <1>8, <1>9, <1>10, <1>11, <1>12, <1>13, <1>14 DEF Next, Worker

\* No action makes the owner's condition false without waking it.
LEMMA NextStranded ==
  TypeOK /\ CountInv /\ OwnerInv /\ OwnerNotStranded /\ [Next]_vars => OwnerNotStranded'
<1> SUFFICES ASSUME TypeOK, CountInv, OwnerInv, OwnerNotStranded, [Next]_vars
             PROVE  OwnerNotStranded'
  OBVIOUS
<1>1. ASSUME NEW w \in Workers, CreateThread(w) PROVE OwnerNotStranded'
  BY <1>1
  DEF CreateThread, history, TypeOK, OwnerInv, OwnerNotStranded, MustWait
<1>2. ASSUME CreateFails PROVE OwnerNotStranded'
  BY <1>2
  DEF CreateFails, history, TypeOK, OwnerInv, OwnerNotStranded, MustWait
<1>3. ASSUME NEW j \in Jobs, AddWork(j) PROVE OwnerNotStranded'
  BY <1>3 DEF AddWork, TypeOK, OwnerInv, OwnerNotStranded, MustWait
<1>4. ASSUME CallWait PROVE OwnerNotStranded'
  BY <1>4
  DEF CallWait, poolVars, history, TypeOK, OwnerInv, OwnerNotStranded,
      MustWait
<1>5. ASSUME Destroy PROVE OwnerNotStranded'
  BY <1>5 DEF Destroy, history, TypeOK, OwnerInv, OwnerNotStranded, MustWait
<1>6. ASSUME CheckWait PROVE OwnerNotStranded'
  BY <1>6
  DEF CheckWait, poolVars, history, TypeOK, OwnerInv, OwnerNotStranded,
      MustWait
<1>7. ASSUME NEW w \in Workers, Sleep(w) PROVE OwnerNotStranded'
  BY <1>7
  DEF Sleep, poolVars, history, TypeOK, OwnerInv, OwnerNotStranded, MustWait
<1>8. ASSUME NEW w \in Workers, Exit(w) PROVE OwnerNotStranded'
  BY <1>8
  DEF Exit, SignalOwner, history, TypeOK, OwnerInv, OwnerNotStranded,
      MustWait
<1>9. ASSUME NEW w \in Workers, Take(w) PROVE OwnerNotStranded'
  BY <1>9 DEF Take, TypeOK, OwnerInv, OwnerNotStranded, MustWait
<1>10. ASSUME NEW w \in Workers, RunJob(w) PROVE OwnerNotStranded'
  BY <1>10 DEF RunJob, poolVars, TypeOK, OwnerInv, OwnerNotStranded, MustWait
<1>11. ASSUME NEW w \in Workers, Finish(w) PROVE OwnerNotStranded'
  <2>1. Cardinality(LiveIn(wpc)) > 0 /\ Cardinality(LiveIn(wpc)) \in Nat
    BY <1>11, Counted, WorkerSetsFinite DEF Finish, TypeOK
  <2>2. mpc # "creating" => thread_cnt > 0
    BY <2>1 DEF CountInv
  <2> QED
    BY <1>11, <2>2
    DEF Finish, SignalOwner, history, TypeOK, OwnerInv, OwnerNotStranded,
        MustWait
<1>12. ASSUME NEW w \in Workers, SpuriousWorker(w) PROVE OwnerNotStranded'
  BY <1>12
  DEF SpuriousWorker, poolVars, history, TypeOK, OwnerInv, OwnerNotStranded,
      MustWait
<1>13. ASSUME SpuriousOwner PROVE OwnerNotStranded'
  BY <1>13
  DEF SpuriousOwner, poolVars, history, TypeOK, OwnerInv, OwnerNotStranded,
      MustWait
<1>14. CASE UNCHANGED vars
  BY <1>14 DEF vars, OwnerNotStranded, MustWait
<1> QED
  BY <1>1, <1>2, <1>3, <1>4, <1>5, <1>6, <1>7,
     <1>8, <1>9, <1>10, <1>11, <1>12, <1>13, <1>14 DEF Next, Worker

\* Only AddWork and Take move jobs, and they keep the order.
LEMMA NextFifo ==
  TypeOK /\ OwnerInv /\ FifoOnce /\ [Next]_vars => FifoOnce'
<1> SUFFICES ASSUME TypeOK, OwnerInv, FifoOnce, [Next]_vars
             PROVE  FifoOnce'
  OBVIOUS
<1>1. ASSUME NEW w \in Workers, CreateThread(w) PROVE FifoOnce'
  BY <1>1 DEF CreateThread, history, TypeOK, OwnerInv, FifoOnce
<1>2. ASSUME CreateFails PROVE FifoOnce'
  BY <1>2 DEF CreateFails, history, TypeOK, OwnerInv, FifoOnce
<1>3. ASSUME NEW j \in Jobs, AddWork(j) PROVE FifoOnce'
  <2>1. Append(started \o queue, j) = started \o Append(queue, j)
    BY AppendRight DEF TypeOK
  <2> QED
    BY <1>3, <2>1 DEF AddWork, TypeOK, OwnerInv, FifoOnce
<1>4. ASSUME CallWait PROVE FifoOnce'
  BY <1>4 DEF CallWait, poolVars, history, TypeOK, OwnerInv, FifoOnce
<1>5. ASSUME Destroy PROVE FifoOnce'
  BY <1>5 DEF Destroy, history, TypeOK, OwnerInv, FifoOnce
<1>6. ASSUME CheckWait PROVE FifoOnce'
  BY <1>6 DEF CheckWait, poolVars, history, TypeOK, OwnerInv, FifoOnce
<1>7. ASSUME NEW w \in Workers, Sleep(w) PROVE FifoOnce'
  BY <1>7 DEF Sleep, poolVars, history, TypeOK, OwnerInv, FifoOnce
<1>8. ASSUME NEW w \in Workers, Exit(w) PROVE FifoOnce'
  BY <1>8 DEF Exit, SignalOwner, history, TypeOK, OwnerInv, FifoOnce
<1>9. ASSUME NEW w \in Workers, Take(w) PROVE FifoOnce'
  BY <1>9, MoveHead DEF Take, TypeOK, OwnerInv, FifoOnce
<1>10. ASSUME NEW w \in Workers, RunJob(w) PROVE FifoOnce'
  BY <1>10 DEF RunJob, poolVars, TypeOK, OwnerInv, FifoOnce
<1>11. ASSUME NEW w \in Workers, Finish(w) PROVE FifoOnce'
  BY <1>11 DEF Finish, SignalOwner, history, TypeOK, OwnerInv, FifoOnce
<1>12. ASSUME NEW w \in Workers, SpuriousWorker(w) PROVE FifoOnce'
  BY <1>12 DEF SpuriousWorker, poolVars, history, TypeOK, OwnerInv, FifoOnce
<1>13. ASSUME SpuriousOwner PROVE FifoOnce'
  BY <1>13 DEF SpuriousOwner, poolVars, history, TypeOK, OwnerInv, FifoOnce
<1>14. CASE UNCHANGED vars
  BY <1>14 DEF vars, FifoOnce
<1> QED
  BY <1>1, <1>2, <1>3, <1>4, <1>5, <1>6, <1>7,
     <1>8, <1>9, <1>10, <1>11, <1>12, <1>13, <1>14 DEF Next, Worker

\* A job that was taken is running or done after every action.
LEMMA NextJob ==
  TypeOK /\ JobInv /\ [Next]_vars => JobInv'
<1> SUFFICES ASSUME TypeOK, JobInv, [Next]_vars
             PROVE  JobInv'
  OBVIOUS
<1>1. ASSUME NEW w \in Workers, CreateThread(w) PROVE JobInv'
  BY <1>1 DEF CreateThread, history, TypeOK, JobInv, WorkerState
<1>2. ASSUME CreateFails PROVE JobInv'
  BY <1>2 DEF CreateFails, history, TypeOK, JobInv, WorkerState
<1>3. ASSUME NEW j \in Jobs, AddWork(j) PROVE JobInv'
  BY <1>3, WakeKeeps DEF AddWork, TypeOK, JobInv, WorkerState
<1>4. ASSUME CallWait PROVE JobInv'
  BY <1>4 DEF CallWait, poolVars, history, TypeOK, JobInv, WorkerState
<1>5. ASSUME Destroy PROVE JobInv'
  BY <1>5, WakeKeeps DEF Destroy, history, TypeOK, JobInv, WorkerState
<1>6. ASSUME CheckWait PROVE JobInv'
  BY <1>6 DEF CheckWait, poolVars, history, TypeOK, JobInv, WorkerState
<1>7. ASSUME NEW w \in Workers, Sleep(w) PROVE JobInv'
  BY <1>7 DEF Sleep, poolVars, history, TypeOK, JobInv, WorkerState
<1>8. ASSUME NEW w \in Workers, Exit(w) PROVE JobInv'
  BY <1>8 DEF Exit, SignalOwner, history, TypeOK, JobInv, WorkerState
<1>9. ASSUME NEW w \in Workers, Take(w) PROVE JobInv'
  <2>1. Head(queue) \in Jobs
    BY <1>9 DEF Take, TypeOK
  <2>2. Range(started') = Range(started) \cup {Head(queue)}
    BY <1>9, <2>1, RangeAppend DEF Take, TypeOK
  <2> QED
    BY <1>9, <2>2 DEF Take, TypeOK, JobInv, WorkerState
<1>10. ASSUME NEW w \in Workers, RunJob(w) PROVE JobInv'
  BY <1>10 DEF RunJob, poolVars, TypeOK, JobInv, WorkerState
<1>11. ASSUME NEW w \in Workers, Finish(w) PROVE JobInv'
  BY <1>11 DEF Finish, SignalOwner, history, TypeOK, JobInv, WorkerState
<1>12. ASSUME NEW w \in Workers, SpuriousWorker(w) PROVE JobInv'
  BY <1>12 DEF SpuriousWorker, poolVars, history, TypeOK, JobInv, WorkerState
<1>13. ASSUME SpuriousOwner PROVE JobInv'
  BY <1>13 DEF SpuriousOwner, poolVars, history, TypeOK, JobInv, WorkerState
<1>14. CASE UNCHANGED vars
  BY <1>14 DEF vars, JobInv
<1> QED
  BY <1>1, <1>2, <1>3, <1>4, <1>5, <1>6, <1>7,
     <1>8, <1>9, <1>10, <1>11, <1>12, <1>13, <1>14 DEF Next, Worker

-----------------------------------------------------------------------------
(* The theorems.                                                           *)

\* IndInv is inductive.
LEMMA NextIndInv == IndInv /\ [Next]_vars => IndInv'
  BY NextCount, NextType, NextOwner, NextWakeup, NextStranded, NextFifo, NextJob
  DEF IndInv

\* IndInv holds in every reachable state.
THEOREM Invariance == Spec => []IndInv
  BY InitIndInv, NextIndInv, PTL DEF Spec

\* The fields of the pool keep their types; in particular the size_t counters
\* working_cnt and thread_cnt never go below zero.
THEOREM TypeCorrect == Spec => []TypeOK
<1>1. IndInv => TypeOK
  BY DEF IndInv
<1> QED
  BY Invariance, <1>1, PTL

\* A freed pool counts no threads, and so has none.
LEMMA FreedIsJoined ==
  ASSUME IndInv
  PROVE  JoinBeforeFree
<1> SUFFICES ASSUME mpc = "freed", NEW w \in Workers
             PROVE  wpc[w] \in {"unborn", "exited"}
  BY DEF JoinBeforeFree
<1>1. Cardinality(LiveIn(wpc)) = 0
  BY DEF IndInv, CountInv, OwnerInv
<1>2. LiveIn(wpc) = {}
  BY <1>1, WorkerSetsFinite, FS_EmptySet
<1> QED
  BY <1>2 DEF LiveIn

\* tpool_destroy frees the pool only after the last worker has left
\* tpool_worker, also when tpool_create failed half way.
THEOREM Joined == Spec => []JoinBeforeFree
  BY Invariance, FreedIsJoined, PTL

\* No wake-up of a worker is lost: none sleeps beside a job or a stop.
THEOREM NoSleepForever == Spec => []NoLostWakeup
<1>1. IndInv => NoLostWakeup
  BY DEF IndInv
<1> QED
  BY Invariance, <1>1, PTL

\* The owner does not sleep in tpool_wait beside a fulfilled condition with no
\* signal to come.
THEOREM OwnerIsWoken == Spec => []OwnerNotStranded
<1>1. IndInv => OwnerNotStranded
  BY DEF IndInv
<1> QED
  BY Invariance, <1>1, PTL

\* Jobs are taken once each, in the order in which they were added.
THEOREM TakenInOrder == Spec => []FifoOnce
<1>1. IndInv => FifoOnce
  BY DEF IndInv
<1> QED
  BY Invariance, <1>1, PTL

\* When tpool_wait returns from a pool that is not stopping, every job that
\* was added has been run to its end and no worker holds one.
THEOREM WaitIsComplete == Spec => WaitContract
<1>1. ASSUME IndInv, [Next]_vars
      PROVE  [mpc = "check" /\ mpc' = "open"
                => /\ queue = <<>>
                   /\ \A w \in Workers : wpc[w] \notin {"running", "ran"}
                   /\ Range(added) = done]_vars
  <2> SUFFICES ASSUME mpc = "check", mpc' = "open"
               PROVE  /\ queue = <<>>
                      /\ \A w \in Workers : wpc[w] \notin {"running", "ran"}
                      /\ Range(added) = done
    OBVIOUS
  <2>1. CheckWait
    BY <1>1 DEF Next, Worker, CreateThread, CreateFails, AddWork, CallWait,
      Destroy, Sleep, Exit, Take, RunJob, Finish, SpuriousWorker,
      SpuriousOwner, SignalOwner, vars
  <2>2. queue = <<>> /\ working_cnt = 0 /\ ~stop
    BY <2>1, <1>1 DEF CheckWait, MustWait
  <2>3. BusyIn(wpc) = {}
    BY <2>2, <1>1, WorkerSetsFinite, FS_EmptySet DEF IndInv, CountInv
  <2>4. \A w \in Workers : wpc[w] \notin {"running", "ran"}
    BY <2>3 DEF BusyIn
  <2>5. added = started
    BY <2>2, <1>1 DEF IndInv, FifoOnce, TypeOK
  <2>6. Range(started) = done
    BY <2>4, <1>1 DEF IndInv, JobInv
  <2> QED
    BY <2>2, <2>4, <2>5, <2>6
<1> QED
  BY Invariance, <1>1, PTL DEF Spec, WaitContract
=============================================================================
