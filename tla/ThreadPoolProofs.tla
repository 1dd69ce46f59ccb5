-------------------------- MODULE ThreadPoolProofs --------------------------
(***************************************************************************)
(* No job of the pool is forgotten and no caller waits for a signal that   *)
(* was already sent, for any number of workers, jobs and any queue limit.  *)
(***************************************************************************)
EXTENDS ThreadPool, FiniteSetTheorems, TLAPS

Places == {"starting", "loop", "ready", "asleep", "took", "counted", "running",
           "finished", "leaving", "gone"}

Callings == {"init", "free", "sleeps for room", "wants room",
             "sleeps for quiet", "wants quiet", "ending", "ended"}

PoolTypeOK ==
    /\ jobqueue \in Seq(Nat)
    /\ has_jobs \in {0, 1}
    /\ pc \in [Workers -> Places]
    /\ num_threads_working \in Int
    /\ threads_keepalive \in BOOLEAN
    /\ caller \in Callings
    /\ submitted \in Nat

\* A post is heard: while the semaphore is up somebody is awake to take it,
\* or nobody sleeps on it.
PostIsHeard == has_jobs = 1 => Asleep = {} \/ \E t \in Workers : pc[t] = "ready"

PoolInv == PoolTypeOK /\ PostIsHeard /\ WorkIsNoticed /\ CountAgrees /\ WaiterIsWoken

-----------------------------------------------------------------------------
\* What bsem_post does to the workers: one sleeper at most becomes ready, and
\* if any slept one does.
LEMMA PostedWakes ==
    ASSUME NEW p \in [Workers -> Places], NEW q \in Posted(p)
    PROVE  /\ q \in [Workers -> Places]
           /\ \A t \in Workers : q[t] = p[t] \/ (p[t] = "asleep" /\ q[t] = "ready")
           /\ \/ {t \in Workers : q[t] = "asleep"} = {}
              \/ \E t \in Workers : q[t] = "ready"
<1>1. CASE {t \in Workers : p[t] = "asleep"} = {}
  BY <1>1 DEF Posted
<1>2. CASE {t \in Workers : p[t] = "asleep"} # {}
  <2>1. PICK u \in {t \in Workers : p[t] = "asleep"} : q = [p EXCEPT ![u] = "ready"]
    BY <1>2 DEF Posted
  <2>2. q[u] = "ready" /\ u \in Workers
    BY <2>1
  <2> QED
    BY <2>1, <2>2 DEF Places
<1> QED
  BY <1>1, <1>2

\* Moving a worker between places outside Working, or waking sleepers, leaves
\* the set of those that work as it was.
LEMMA SameWorking ==
    ASSUME pc \in [Workers -> Places], pc' \in [Workers -> Places],
           \A t \in Workers :
               pc'[t] \in {"counted", "running", "finished"}
                 <=> pc[t] \in {"counted", "running", "finished"}
    PROVE  Cardinality(Working)' = Cardinality(Working)
<1>1. Working' = Working
  BY DEF Working
<1> QED
  BY <1>1

\* Working is finite.
LEMMA WorkingFinite == IsFiniteSet(Working) /\ Cardinality(Working) \in Nat
<1>1. Working \subseteq Workers
  BY DEF Working
<1> QED
  BY <1>1, PoolAssumption, FS_Subset, FS_CardinalityType DEF PoolAssumption

-----------------------------------------------------------------------------
\* The invariant holds in a new pool.
LEMMA PoolInitInv == PoolInit => PoolInv
<1> SUFFICES ASSUME PoolInit PROVE PoolInv
  OBVIOUS
<1>1. PoolTypeOK
  BY DEF PoolInit, PoolTypeOK, Places, Callings
<1>2. Working = {}
  BY DEF PoolInit, Working
<1>3. CountAgrees
  BY <1>2, FS_EmptySet DEF PoolInit, CountAgrees
<1> QED
  BY <1>1, <1>3 DEF PoolInit, PoolInv, PostIsHeard, WorkIsNoticed, WaiterIsWoken

\* Steps that move one worker between places that none of the parts names,
\* and change nothing else.
LEMMA QuietMove ==
    ASSUME PoolInv, NEW t \in Workers, NEW to \in Places,
           pc' = [pc EXCEPT ![t] = to],
           pc[t] \in {"starting", "loop", "asleep", "running", "leaving"},
           to \notin {"asleep", "counted"},
           to = "running" => FALSE,
           pc[t] = "running" <=> to = "finished",
           UNCHANGED <<jobqueue, has_jobs, num_threads_working,
                       threads_keepalive, caller, submitted>>
    PROVE  PoolInv'
<1>1. PoolTypeOK'
  BY DEF PoolInv, PoolTypeOK
<1>2. Cardinality(Working)' = Cardinality(Working)
  <2>1. \A s \in Workers :
           pc'[s] \in {"counted", "running", "finished"}
             <=> pc[s] \in {"counted", "running", "finished"}
    BY DEF PoolInv, PoolTypeOK
  <2> QED
    BY <1>1, <2>1, SameWorking DEF PoolInv, PoolTypeOK
<1>3. PostIsHeard'
  BY DEF PoolInv, PoolTypeOK, PostIsHeard, Asleep
<1>4. WorkIsNoticed'
  BY DEF PoolInv, PoolTypeOK, WorkIsNoticed, Asleep
<1> QED
  BY <1>1, <1>2, <1>3, <1>4 DEF PoolInv, CountAgrees, WaiterIsWoken

LEMMA BsemWaitInv ==
    ASSUME PoolInv, NEW t \in Workers, BsemWait(t) PROVE PoolInv'
<1> USE DEF BsemWait
<1>1. PoolTypeOK'
  BY DEF PoolInv, PoolTypeOK, Places
<1>2. Cardinality(Working)' = Cardinality(Working)
  <2>1. \A s \in Workers :
           pc'[s] \in {"counted", "running", "finished"}
             <=> pc[s] \in {"counted", "running", "finished"}
    BY DEF PoolInv, PoolTypeOK
  <2> QED
    BY <1>1, <2>1, SameWorking DEF PoolInv, PoolTypeOK
<1>3. PostIsHeard'
  BY DEF PostIsHeard
<1>4. WorkIsNoticed'
  BY DEF PoolInv, PoolTypeOK, WorkIsNoticed, Asleep
<1> QED
  BY <1>1, <1>2, <1>3, <1>4 DEF PoolInv, CountAgrees, WaiterIsWoken

LEMMA CountWorkingInv ==
    ASSUME PoolInv, NEW t \in Workers, CountWorking(t) PROVE PoolInv'
<1> USE DEF CountWorking, WorkerMoves
<1>1. PoolTypeOK'
  BY DEF PoolInv, PoolTypeOK, Places
<1>2. CountAgrees'
  <2>1. CASE threads_keepalive
    <3>1. Working' = Working \cup {t} /\ t \notin Working
      BY <2>1 DEF PoolInv, PoolTypeOK, Working
    <3> QED
      BY <2>1, <3>1, WorkingFinite, FS_AddElement DEF PoolInv, CountAgrees
  <2>2. CASE ~threads_keepalive
    <3>1. \A s \in Workers :
             pc'[s] \in {"counted", "running", "finished"}
               <=> pc[s] \in {"counted", "running", "finished"}
      BY <2>2 DEF PoolInv, PoolTypeOK
    <3>2. num_threads_working' = num_threads_working
      BY <2>2 DEF PoolInv, PoolTypeOK
    <3> QED
      BY <1>1, <3>1, <3>2, SameWorking DEF PoolInv, PoolTypeOK, CountAgrees
  <2> QED
    BY <2>1, <2>2
<1>3. PostIsHeard'
  BY DEF PoolInv, PoolTypeOK, PostIsHeard, Asleep
<1>4. WorkIsNoticed'
  BY DEF PoolInv, PoolTypeOK, WorkIsNoticed, Asleep
<1>5. WaiterIsWoken'
  <2>1. num_threads_working > 0 => num_threads_working' > 0
    <3>1. CASE threads_keepalive
      BY <3>1 DEF PoolInv, PoolTypeOK
    <3>2. CASE ~threads_keepalive
      BY <3>2 DEF PoolInv, PoolTypeOK
    <3> QED
      BY <3>1, <3>2
  <2> QED
    BY <2>1 DEF PoolInv, WaiterIsWoken
<1> QED
  BY <1>1, <1>2, <1>3, <1>4, <1>5 DEF PoolInv

LEMMA PullJobInv ==
    ASSUME PoolInv, NEW t \in Workers, PullJob(t) PROVE PoolInv'
<1> USE DEF PullJob
<1>1. CASE jobqueue = <<>>
  <2>1. pc' = [pc EXCEPT ![t] = "finished"] /\ UNCHANGED <<jobqueue, has_jobs>>
    BY <1>1
  <2>2. PoolTypeOK'
    BY <2>1 DEF PoolInv, PoolTypeOK, Places
  <2>3. \A s \in Workers :
           pc'[s] \in {"counted", "running", "finished"}
             <=> pc[s] \in {"counted", "running", "finished"}
    BY <2>1 DEF PoolInv, PoolTypeOK
  <2>4. Cardinality(Working)' = Cardinality(Working)
    BY <2>2, <2>3, SameWorking DEF PoolInv, PoolTypeOK
  <2>5. PostIsHeard'
    BY <2>1 DEF PoolInv, PoolTypeOK, PostIsHeard, Asleep
  <2>6. WorkIsNoticed'
    BY <1>1, <2>1 DEF WorkIsNoticed
  <2> QED
    BY <2>1, <2>2, <2>4, <2>5, <2>6 DEF PoolInv, CountAgrees, WaiterIsWoken
<1>2. CASE jobqueue # <<>>
  <2> DEFINE q == [pc EXCEPT ![t] = "running"]
  <2>1. q \in [Workers -> Places]
    BY DEF PoolInv, PoolTypeOK, Places
  <2>2. /\ jobqueue' = Tail(jobqueue)
        /\ \/ Len(jobqueue) > 1 /\ has_jobs' = 1 /\ pc' \in Posted(q)
           \/ ~(Len(jobqueue) > 1) /\ has_jobs' = has_jobs /\ pc' = q
    BY <1>2
  <2>3. /\ pc' \in [Workers -> Places]
        /\ \A s \in Workers : pc'[s] = q[s] \/ (q[s] = "asleep" /\ pc'[s] = "ready")
    BY ZenonT(40), <2>1, <2>2, PostedWakes
  <2>4. jobqueue' \in Seq(Nat) /\ (jobqueue' # <<>> => Len(jobqueue) > 1)
    BY <1>2, <2>2 DEF PoolInv, PoolTypeOK
  <2>5. PoolTypeOK'
    BY <2>2, <2>3, <2>4 DEF PoolInv, PoolTypeOK
  <2>6. \A s \in Workers :
           pc'[s] \in {"counted", "running", "finished"}
             <=> pc[s] \in {"counted", "running", "finished"}
    BY <2>3 DEF PoolInv, PoolTypeOK
  <2>7. Cardinality(Working)' = Cardinality(Working)
    BY <2>5, <2>6, SameWorking DEF PoolInv, PoolTypeOK
  <2>8. PostIsHeard' /\ WorkIsNoticed'
    <3>1. CASE Len(jobqueue) > 1
      <4>1. \/ {s \in Workers : pc'[s] = "asleep"} = {}
            \/ \E s \in Workers : pc'[s] = "ready"
        BY <2>1, <2>2, <3>1, PostedWakes
      <4>2. Asleep' = {s \in Workers : pc'[s] = "asleep"}
        BY DEF Asleep
      <4>3. PostIsHeard'
        BY <4>1, <4>2 DEF PostIsHeard
      <4>4. has_jobs' = 1
        BY <2>2, <3>1
      <4> QED
        BY <4>1, <4>2, <4>3, <4>4 DEF WorkIsNoticed
    <3>2. CASE ~(Len(jobqueue) > 1)
      <4>1. jobqueue' = <<>> /\ has_jobs' = has_jobs /\ pc' = q
        BY <2>2, <2>4, <3>2
      <4>2. PostIsHeard'
        BY <4>1 DEF PoolInv, PoolTypeOK, PostIsHeard, Asleep
      <4> QED
        BY <4>1, <4>2 DEF WorkIsNoticed
    <3> QED
      BY <3>1, <3>2
  <2>9. WaiterIsWoken'
    <3>1. t \in Working
      BY DEF Working
    <3>2. Cardinality(Working) # 0
      BY <3>1, WorkingFinite, FS_EmptySet
    <3>3. num_threads_working' > 0
      BY <3>2, WorkingFinite DEF PoolInv, CountAgrees
    <3> QED
      BY <3>3 DEF WaiterIsWoken
  <2> QED
    BY <2>5, <2>7, <2>8, <2>9 DEF PoolInv, CountAgrees
<1> QED
  BY <1>1, <1>2

LEMMA CountIdleInv ==
    ASSUME PoolInv, NEW t \in Workers, CountIdle(t) PROVE PoolInv'
<1> USE DEF CountIdle, WorkerMoves
<1>0. /\ caller' \in Callings
      /\ num_threads_working = 1 =>
             caller' \notin {"sleeps for room", "sleeps for quiet"}
      /\ num_threads_working # 1 => caller' = caller
  <2>1. CASE num_threads_working # 1
    BY <2>1 DEF PoolInv, PoolTypeOK
  <2>2. CASE num_threads_working = 1 /\ caller = "sleeps for room"
    BY <2>2 DEF Callings
  <2>3. CASE num_threads_working = 1 /\ caller = "sleeps for quiet"
    BY <2>3 DEF Callings
  <2>4. CASE /\ num_threads_working = 1
             /\ caller # "sleeps for room" /\ caller # "sleeps for quiet"
    BY <2>4 DEF PoolInv, PoolTypeOK
  <2> QED
    BY <2>1, <2>2, <2>3, <2>4
<1>m. /\ pc[t] = "finished" /\ pc' = [pc EXCEPT ![t] = "loop"]
      /\ num_threads_working' = num_threads_working - 1
      /\ jobqueue' = jobqueue /\ has_jobs' = has_jobs
      /\ threads_keepalive' = threads_keepalive /\ submitted' = submitted
  OBVIOUS
<1> HIDE DEF CountIdle, WorkerMoves
<1> USE <1>m
<1>1. PoolTypeOK'
  <2>1. num_threads_working' \in Int
    BY DEF PoolInv, PoolTypeOK
  <2>2. pc' \in [Workers -> Places]
    BY DEF PoolInv, PoolTypeOK, Places
  <2> QED
    BY <1>0, <2>1, <2>2 DEF PoolInv, PoolTypeOK
<1>2. CountAgrees' /\ num_threads_working > 0
  <2>1. Working' = Working \ {t} /\ t \in Working
    BY DEF PoolInv, PoolTypeOK, Working
  <2>2. Cardinality(Working') = Cardinality(Working) - 1
    BY <2>1, WorkingFinite, FS_RemoveElement
  <2>3. Cardinality(Working) # 0
    BY <2>1, WorkingFinite, FS_EmptySet
  <2>4. Cardinality(Working) \in Nat /\ num_threads_working = Cardinality(Working)
    BY WorkingFinite DEF PoolInv, CountAgrees
  <2>6. CountAgrees'
    BY <2>2, <2>4 DEF CountAgrees
  <2> QED
    BY <2>3, <2>4, <2>6
<1>3. PostIsHeard'
  BY DEF PoolInv, PoolTypeOK, PostIsHeard, Asleep
<1>4. WorkIsNoticed'
  BY DEF PoolInv, PoolTypeOK, WorkIsNoticed, Asleep
<1>5. WaiterIsWoken'
  <2>1. CASE num_threads_working = 1
    BY <1>0, <2>1 DEF WaiterIsWoken
  <2>2. CASE num_threads_working # 1
    <3>1. num_threads_working' > 0
      BY <1>2, <2>2 DEF PoolInv, PoolTypeOK
    <3> QED
      BY <3>1 DEF WaiterIsWoken
  <2> QED
    BY <2>1, <2>2
<1> QED
  BY <1>1, <1>2, <1>3, <1>4, <1>5 DEF PoolInv

LEMMA AddWorkInv == ASSUME PoolInv, AddWork PROVE PoolInv'
<1> USE DEF AddWork
<1>1. /\ pc' \in [Workers -> Places]
      /\ \A s \in Workers : pc'[s] = pc[s] \/ (pc[s] = "asleep" /\ pc'[s] = "ready")
      /\ \/ {s \in Workers : pc'[s] = "asleep"} = {}
         \/ \E s \in Workers : pc'[s] = "ready"
  BY SMTT(40), PostedWakes DEF PoolInv, PoolTypeOK
<1>2. PoolTypeOK'
  BY <1>1 DEF PoolInv, PoolTypeOK
<1>3. \A s \in Workers :
         pc'[s] \in {"counted", "running", "finished"}
           <=> pc[s] \in {"counted", "running", "finished"}
  BY <1>1
<1>4. Cardinality(Working)' = Cardinality(Working)
  BY <1>1, <1>3, SameWorking DEF PoolInv, PoolTypeOK
<1>5. PostIsHeard' /\ WorkIsNoticed'
  BY <1>1 DEF PostIsHeard, WorkIsNoticed, Asleep
<1> QED
  BY <1>2, <1>4, <1>5 DEF PoolInv, CountAgrees, WaiterIsWoken

\* The steps of the caller that leave the workers alone.
LEMMA CallerInv ==
    ASSUME PoolInv, PoolReady \/ WaitMax \/ WaitAll \/ EndPool PROVE PoolInv'
<1>1. /\ UNCHANGED <<jobqueue, has_jobs, pc, num_threads_working, submitted>>
      /\ caller' \in Callings
      /\ threads_keepalive' \in BOOLEAN
      /\ threads_keepalive' => threads_keepalive
  <2>1. CASE PoolReady
    BY <2>1 DEF PoolInv, PoolTypeOK, PoolReady, Callings
  <2>2. CASE WaitMax
    BY <2>2 DEF PoolInv, PoolTypeOK, WaitMax, Callings
  <2>3. CASE WaitAll
    BY <2>3 DEF PoolInv, PoolTypeOK, WaitAll, Callings
  <2>4. CASE EndPool
    BY <2>4 DEF PoolInv, PoolTypeOK, EndPool, Callings
  <2> QED
    BY <2>1, <2>2, <2>3, <2>4
<1>2. PoolTypeOK'
  BY <1>1 DEF PoolInv, PoolTypeOK
<1>3. PostIsHeard' /\ CountAgrees'
  BY <1>1 DEF PoolInv, PostIsHeard, CountAgrees, Asleep, Working
<1>4. WorkIsNoticed'
  BY <1>1 DEF PoolInv, WorkIsNoticed, Asleep
<1>5. WaiterIsWoken'
  <2>1. CASE WaitMax
    <3>1. Len(jobqueue) > MaxWaiting => jobqueue # <<>>
      BY PoolAssumption DEF PoolAssumption, PoolInv, PoolTypeOK
    <3> QED
      BY <1>1, <2>1, <3>1 DEF WaiterIsWoken, WaitMax
  <2>2. CASE WaitAll
    <3>1. num_threads_working \in Nat
      BY WorkingFinite DEF PoolInv, CountAgrees
    <3>2. num_threads_working # 0 => num_threads_working > 0
      BY <3>1
    <3> QED
      BY <1>1, <2>2, <3>2 DEF WaiterIsWoken, WaitAll
  <2>3. CASE PoolReady \/ EndPool
    BY <2>3 DEF WaiterIsWoken, PoolReady, EndPool
  <2> QED
    BY <2>1, <2>2, <2>3
<1> QED
  BY <1>2, <1>3, <1>4, <1>5 DEF PoolInv

LEMMA PostAllInv == ASSUME PoolInv, PostAll PROVE PoolInv'
<1> USE DEF PostAll
<1>1. PoolTypeOK'
  BY DEF PoolInv, PoolTypeOK, Places
<1>2. \A s \in Workers :
         pc'[s] \in {"counted", "running", "finished"}
           <=> pc[s] \in {"counted", "running", "finished"}
  BY DEF PoolInv, PoolTypeOK
<1>3. Cardinality(Working)' = Cardinality(Working)
  BY <1>1, <1>2, SameWorking DEF PoolInv, PoolTypeOK
<1>4. Asleep' = {}
  BY DEF Asleep
<1> QED
  BY <1>1, <1>3, <1>4
  DEF PoolInv, CountAgrees, PostIsHeard, WorkIsNoticed, WaiterIsWoken

LEMMA ClearPoolInv == ASSUME PoolInv, ClearPool PROVE PoolInv'
<1> USE DEF ClearPool
<1>1. PoolTypeOK'
  BY DEF PoolInv, PoolTypeOK, Callings
<1> QED
  BY <1>1
  DEF PoolInv, CountAgrees, Working, PostIsHeard, WorkIsNoticed, WaiterIsWoken

\* Every step keeps the invariant.
LEMMA PoolStepInv == PoolInv /\ [PoolNext]_poolVars => PoolInv'
<1> SUFFICES ASSUME PoolInv, [PoolNext]_poolVars PROVE PoolInv'
  OBVIOUS
<1>1. ASSUME NEW t \in Workers, WorkerStep(t) \/ WakeUnasked(t) PROVE PoolInv'
  <2>1. CASE StartWorker(t)
    BY <2>1, QuietMove DEF StartWorker, WorkerMoves, Places
  <2>2. CASE TestKeepalive(t)
    BY <2>2, QuietMove DEF TestKeepalive, WorkerMoves, Places
  <2>3. CASE BsemWait(t)
    BY <2>3, BsemWaitInv
  <2>4. CASE CountWorking(t)
    BY <2>4, CountWorkingInv
  <2>5. CASE PullJob(t)
    BY <2>5, PullJobInv
  <2>6. CASE FinishJob(t)
    BY <2>6, QuietMove DEF FinishJob, WorkerMoves, Places
  <2>7. CASE CountIdle(t)
    BY <2>7, CountIdleInv
  <2>8. CASE LeaveWorker(t)
    BY <2>8, QuietMove DEF LeaveWorker, WorkerMoves, Places
  <2>9. CASE WakeUnasked(t)
    BY <2>9, QuietMove DEF WakeUnasked, Places
  <2> QED
    BY <1>1, <2>1, <2>2, <2>3, <2>4, <2>5, <2>6, <2>7, <2>8, <2>9 DEF WorkerStep
<1>2. CASE CallerStep
  BY <1>2, CallerInv, AddWorkInv, PostAllInv, ClearPoolInv DEF CallerStep
<1>3. CASE UNCHANGED poolVars
  BY <1>3 DEF poolVars, PoolInv, PoolTypeOK, PostIsHeard, WorkIsNoticed,
              CountAgrees, WaiterIsWoken, Asleep, Working
<1> QED
  BY <1>1, <1>2, <1>3 DEF PoolNext

-----------------------------------------------------------------------------
\* The inductive invariant of the pool.
THEOREM PoolCorrect == PoolSpec => []PoolInv
<1>1. PoolInit => PoolInv
  BY PoolInitInv
<1>2. PoolInv /\ [PoolNext]_poolVars => PoolInv'
  BY PoolStepInv
<1> QED
  BY <1>1, <1>2, PTL DEF PoolSpec

\* No queued job is forgotten by the semaphore (bsem_post, jobqueue_pull).
THEOREM JobsAreNoticed == PoolSpec => []WorkIsNoticed
<1>1. PoolInv => WorkIsNoticed
  BY DEF PoolInv
<1> QED
  BY <1>1, PoolCorrect, PTL

\* A caller in thpool_wait or thpool_wait_max does not miss its signal.
THEOREM NoSignalMissed == PoolSpec => []WaiterIsWoken
<1>1. PoolInv => WaiterIsWoken
  BY DEF PoolInv
<1> QED
  BY <1>1, PoolCorrect, PTL
=============================================================================
