----------------------------- MODULE ThreadPool -----------------------------
(***************************************************************************)
(* The thread pool of the tunnels (thpool.c): a queue of jobs, a binary    *)
(* semaphore that says there are jobs, worker threads, and the one thread  *)
(* that submits jobs, waits for room or for quiet, and ends the pool.      *)
(* A critical section is one action; everything between two of them, and   *)
(* every test of a volatile flag, is a step of its own.                    *)
(***************************************************************************)
EXTENDS Integers, Sequences, FiniteSets

CONSTANTS
    Workers,      \* the threads of the pool (num_threads)
    MaxWaiting,   \* num_max_queue: thpool_wait_max waits while more are queued
    MaxJobs       \* bound: jobs submitted

ASSUME PoolAssumption ==
    /\ IsFiniteSet(Workers)
    /\ MaxWaiting \in Nat
    /\ MaxJobs \in Nat

VARIABLES
    jobqueue,               \* jobs queued, the front first
    has_jobs,               \* v of the binary semaphore: 0 or 1
    pc,                     \* where each worker is in thread_do
    num_threads_working,
    threads_keepalive,
    caller,                 \* what the submitting thread is doing
    submitted               \* jobs submitted so far: job n is the nth

poolVars == <<jobqueue, has_jobs, pc, num_threads_working, threads_keepalive,
              caller, submitted>>

PoolInit ==
    /\ jobqueue = <<>> /\ has_jobs = 0
    /\ pc = [t \in Workers |-> "starting"]
    /\ num_threads_working = 0
    /\ threads_keepalive = TRUE
    /\ caller = "init"
    /\ submitted = 0

-----------------------------------------------------------------------------
\* The binary semaphore.

Asleep == {t \in Workers : pc[t] = "asleep"}

\* What bsem_post makes of the workers: it wakes one of those that sleep in it.
Posted(p) ==
    LET sleeping == {t \in Workers : p[t] = "asleep"} IN
    IF sleeping = {} THEN {p} ELSE {[p EXCEPT ![t] = "ready"] : t \in sleeping}

\* bsem_wait, under the semaphore's mutex: take it or sleep.
BsemWait(t) ==
    /\ pc[t] = "ready"
    /\ has_jobs' = 0
    /\ pc' = [pc EXCEPT ![t] = IF has_jobs = 1 THEN "took" ELSE "asleep"]
    /\ UNCHANGED <<jobqueue, num_threads_working, threads_keepalive, caller,
                   submitted>>

\* pthread_cond_wait may return without a signal.
WakeUnasked(t) ==
    /\ pc[t] = "asleep"
    /\ pc' = [pc EXCEPT ![t] = "ready"]
    /\ UNCHANGED <<jobqueue, has_jobs, num_threads_working, threads_keepalive,
                   caller, submitted>>

-----------------------------------------------------------------------------
\* The workers: thread_do.

WorkerMoves(t, from, to) == pc[t] = from /\ pc' = [pc EXCEPT ![t] = to]

\* The thread counts itself alive and enters its loop.
StartWorker(t) ==
    /\ WorkerMoves(t, "starting", "loop")
    /\ UNCHANGED <<jobqueue, has_jobs, num_threads_working, threads_keepalive,
                   caller, submitted>>

\* The head of the loop: while (threads_keepalive).
TestKeepalive(t) ==
    /\ WorkerMoves(t, "loop", IF threads_keepalive THEN "ready" ELSE "leaving")
    /\ UNCHANGED <<jobqueue, has_jobs, num_threads_working, threads_keepalive,
                   caller, submitted>>

\* After bsem_wait: a pool that is being ended runs no more jobs.
CountWorking(t) ==
    /\ WorkerMoves(t, "took", IF threads_keepalive THEN "counted" ELSE "loop")
    /\ num_threads_working' = num_threads_working + (IF threads_keepalive THEN 1 ELSE 0)
    /\ UNCHANGED <<jobqueue, has_jobs, threads_keepalive, caller, submitted>>

\* Mutant of PullJob: one job left is not worth a post.
PullJobQuiet(t) ==
    /\ pc[t] = "counted"
    /\ IF jobqueue = <<>>
       THEN pc' = [pc EXCEPT ![t] = "finished"] /\ UNCHANGED <<jobqueue, has_jobs>>
       ELSE /\ jobqueue' = Tail(jobqueue)
            /\ IF Len(jobqueue) > 2
               THEN has_jobs' = 1 /\ pc' \in Posted([pc EXCEPT ![t] = "running"])
               ELSE UNCHANGED has_jobs /\ pc' = [pc EXCEPT ![t] = "running"]
    /\ UNCHANGED <<num_threads_working, threads_keepalive, caller, submitted>>

\* jobqueue_pull: the front of the queue, if any; the semaphore is posted
\* again when more are left.
PullJob(t) ==
    /\ pc[t] = "counted"
    /\ \/ /\ jobqueue = <<>>
          /\ pc' = [pc EXCEPT ![t] = "finished"]
          /\ UNCHANGED <<jobqueue, has_jobs>>
       \/ /\ jobqueue # <<>>
          /\ jobqueue' = Tail(jobqueue)
          /\ IF Len(jobqueue) > 1
             THEN has_jobs' = 1 /\ pc' \in Posted([pc EXCEPT ![t] = "running"])
             ELSE UNCHANGED has_jobs /\ pc' = [pc EXCEPT ![t] = "running"]
    /\ UNCHANGED <<num_threads_working, threads_keepalive, caller, submitted>>

\* The job's function returns.
FinishJob(t) ==
    /\ WorkerMoves(t, "running", "finished")
    /\ UNCHANGED <<jobqueue, has_jobs, num_threads_working, threads_keepalive,
                   caller, submitted>>

\* Mutant of CountIdle: the count is looked at before it is decremented.
CountIdleEarly(t) ==
    /\ WorkerMoves(t, "finished", "loop")
    /\ num_threads_working' = num_threads_working - 1
    /\ UNCHANGED <<jobqueue, has_jobs, threads_keepalive, caller, submitted>>

\* The last one working signals threads_all_idle.
CountIdle(t) ==
    /\ WorkerMoves(t, "finished", "loop")
    /\ num_threads_working' = num_threads_working - 1
    /\ caller' = IF num_threads_working = 1
                 THEN CASE caller = "sleeps for room" -> "wants room"
                        [] caller = "sleeps for quiet" -> "wants quiet"
                        [] OTHER -> caller
                 ELSE caller
    /\ UNCHANGED <<jobqueue, has_jobs, threads_keepalive, submitted>>

\* Out of the loop: the thread is no longer alive.
LeaveWorker(t) ==
    /\ WorkerMoves(t, "leaving", "gone")
    /\ UNCHANGED <<jobqueue, has_jobs, num_threads_working, threads_keepalive,
                   caller, submitted>>

-----------------------------------------------------------------------------
\* The submitting thread.

\* thpool_init returns when every thread is alive.
PoolReady ==
    /\ caller = "init" /\ \A t \in Workers : pc[t] # "starting"
    /\ caller' = "free"
    /\ UNCHANGED <<jobqueue, has_jobs, pc, num_threads_working,
                   threads_keepalive, submitted>>

\* thpool_add_work and jobqueue_push.
AddWork ==
    /\ caller = "free" /\ submitted < MaxJobs
    /\ submitted' = submitted + 1
    /\ jobqueue' = Append(jobqueue, submitted + 1)
    /\ has_jobs' = 1
    /\ pc' \in Posted(pc)
    /\ UNCHANGED <<num_threads_working, threads_keepalive, caller>>

\* thpool_wait_max: wait until no more than MaxWaiting jobs are queued.
WaitMax ==
    /\ caller \in {"free", "wants room"}
    /\ caller' = IF Len(jobqueue) > MaxWaiting THEN "sleeps for room" ELSE "free"
    /\ UNCHANGED <<jobqueue, has_jobs, pc, num_threads_working,
                   threads_keepalive, submitted>>

\* thpool_wait: wait until nothing is queued and nobody works.
WaitAll ==
    /\ caller \in {"free", "wants quiet"}
    /\ caller' = IF jobqueue # <<>> \/ num_threads_working # 0
                 THEN "sleeps for quiet" ELSE "free"
    /\ UNCHANGED <<jobqueue, has_jobs, pc, num_threads_working,
                   threads_keepalive, submitted>>

\* thpool_destroy: end the loops, post to all until nobody is alive, then
\* clear the queue (jobqueue_destroy).
EndPool ==
    /\ caller = "free"
    /\ threads_keepalive' = FALSE
    /\ caller' = "ending"
    /\ UNCHANGED <<jobqueue, has_jobs, pc, num_threads_working, submitted>>

Alive == {t \in Workers : pc[t] \notin {"starting", "gone"}}

PostAll ==
    /\ caller = "ending" /\ Alive # {}
    /\ has_jobs' = 1
    /\ pc' = [t \in Workers |-> IF pc[t] = "asleep" THEN "ready" ELSE pc[t]]
    /\ UNCHANGED <<jobqueue, num_threads_working, threads_keepalive, caller,
                   submitted>>

ClearPool ==
    /\ caller = "ending" /\ Alive = {}
    /\ caller' = "ended"
    /\ jobqueue' = <<>> /\ has_jobs' = 0
    /\ UNCHANGED <<pc, num_threads_working, threads_keepalive, submitted>>

-----------------------------------------------------------------------------
WorkerStep(t) ==
    \/ StartWorker(t) \/ TestKeepalive(t) \/ BsemWait(t) \/ CountWorking(t)
    \/ PullJob(t) \/ FinishJob(t) \/ CountIdle(t) \/ LeaveWorker(t)

CallerStep ==
    \/ PoolReady \/ AddWork \/ WaitMax \/ WaitAll \/ EndPool \/ PostAll \/ ClearPool

PoolNext == CallerStep \/ \E t \in Workers : WorkerStep(t) \/ WakeUnasked(t)

PoolSpec == PoolInit /\ [][PoolNext]_poolVars

-----------------------------------------------------------------------------
\* Properties.

Working == {t \in Workers : pc[t] \in {"counted", "running", "finished"}}

\* A queued job is never forgotten: while the pool is kept alive, either a
\* worker is on its way to the queue, or the semaphore is up and somebody who
\* is awake will come to it. bsem_post wakes one sleeper and sets one flag
\* however many jobs there are; jobqueue_pull must pass the news on.
WorkIsNoticed ==
    jobqueue # <<>> /\ threads_keepalive /\ Workers # {} =>
        \/ \E t \in Workers : pc[t] \in {"took", "counted"}
        \/ /\ has_jobs = 1
           /\ Asleep = {} \/ \E t \in Workers : pc[t] = "ready"

\* A caller that sleeps in thpool_wait or thpool_wait_max still has a signal
\* coming: some worker is counted as working, or a job is left that one will
\* be counted for. The signal is sent only when the count returns to zero.
WaiterIsWoken ==
    caller \in {"sleeps for room", "sleeps for quiet"} =>
        jobqueue # <<>> \/ num_threads_working > 0

\* The count behind the signal is the number of workers that are working.
CountAgrees == num_threads_working = Cardinality(Working)
=============================================================================
