------------------------------ MODULE GTMutex ------------------------------
(***************************************************************************)
(* src/gtthreads/gtthread_mutex.c on top of the scheduler of GTSched: one  *)
(* mutex that the threads lock and unlock.  gtthread_mutex_lock does not   *)
(* use schedule_next: it takes the caller off the run queue and switches   *)
(* to the new front with swapcur, without a look at cancel requests.       *)
(*                                                                         *)
(* The application keeps the rules pthreads states: a thread locks a mutex *)
(* it is not inside of, unlocks one it is inside of, and destroys one that *)
(* nobody is inside of or waits for.                                       *)
(***************************************************************************)
EXTENDS GTSched

VARIABLES
  locked,      \* mutex->locked
  wait_queue,  \* mutex->wait_queue
  destroyed,   \* between gtthread_mutex_destroy and the next _init
  inside       \* threads that returned from lock and did not call unlock; one
               \* that ends inside, or is cancelled there, stays in the set

mvars == <<locked, wait_queue, destroyed, inside>>
allvars == <<vars, mvars>>

MInit ==
  /\ Init
  /\ locked = FALSE
  /\ wait_queue = <<>>
  /\ destroyed = FALSE
  /\ inside = {}

InLib(t) == InUser(t) /\ pc[t] = "user"

(* Everything of a thread and the scheduler but the run queue and the CPU. *)
Others == UNCHANGED <<next_id, join_queue, cancelreq, completed, retval>>

-----------------------------------------------------------------------------

(* gtthread_mutex_lock finds the mutex free. *)
LockFree(t) ==
  /\ InLib(t) /\ ~destroyed /\ t \notin inside
  /\ ~locked
  /\ locked' = TRUE
  /\ inside' = inside \cup {t}
  /\ UNCHANGED <<wait_queue, destroyed, vars>>

(* swapcur: the front of rest gets the CPU, whatever was asked of it; the  *)
(* process ends when nobody is left to run.                                *)
mutant_swapcur_stays(rest) ==
  IF rest = <<>>
    THEN cpu' = "underflow" /\ running' = running
    ELSE cpu' = cpu /\ running' = running

swapcur(rest) ==
  IF rest = <<>>
    THEN cpu' = "underflow" /\ running' = running
    ELSE cpu' = cpu /\ running' = front(rest)

(* gtthread_mutex_lock finds it locked: unschedule_cur, enqueue, swapcur.  *)
LockBlock(t) ==
  /\ InLib(t) /\ ~destroyed /\ t \notin inside
  /\ locked
  /\ wait_queue' = enqueue(wait_queue, front(run_queue))
  /\ run_queue' = pop(run_queue)
  /\ swapcur(run_queue')
  /\ pc' = [pc EXCEPT ![t] = "lock"]
  /\ UNCHANGED <<locked, destroyed, inside, target>> /\ Others

(* A thread that waited comes back from swapcur and returns from lock: it  *)
(* looks at mutex->locked no more, nor sets it.                            *)
LockReturn(t) ==
  /\ InUser(t) /\ pc[t] = "lock"
  /\ inside' = inside \cup {t}
  /\ ReturnToUser(t)
  /\ UNCHANGED <<locked, wait_queue, destroyed, run_queue, running, cpu>>
  /\ Others

(* gtthread_mutex_unlock: nothing happens when the mutex is not locked,    *)
(* else it is freed and the oldest waiter becomes runnable.                *)
mutant_unlock_forgets_waiter(t) ==
  /\ InLib(t) /\ ~destroyed /\ t \in inside
  /\ inside' = inside \ {t}
  /\ locked' = FALSE
  /\ IF locked /\ wait_queue # <<>>
       THEN /\ wait_queue' = pop(wait_queue)
            /\ run_queue' = enqueue(run_queue, front(run_queue))
       ELSE UNCHANGED <<wait_queue, run_queue>>
  /\ UNCHANGED <<destroyed, running, cpu, pc, target>> /\ Others

mutant_unlock_wakes_first(t) ==
  /\ InLib(t) /\ ~destroyed /\ t \in inside
  /\ inside' = inside \ {t}
  /\ locked' = FALSE
  /\ IF locked /\ wait_queue # <<>>
       THEN /\ wait_queue' = pop(wait_queue)
            /\ run_queue' = <<front(run_queue), front(wait_queue)>> \o pop(run_queue)
       ELSE UNCHANGED <<wait_queue, run_queue>>
  /\ UNCHANGED <<destroyed, running, cpu, pc, target>> /\ Others

Unlock(t) ==
  /\ InLib(t) /\ ~destroyed /\ t \in inside
  /\ inside' = inside \ {t}
  /\ locked' = FALSE
  /\ IF locked /\ wait_queue # <<>>
       THEN /\ wait_queue' = pop(wait_queue)
            /\ run_queue' = enqueue(run_queue, front(wait_queue))
       ELSE UNCHANGED <<wait_queue, run_queue>>
  /\ UNCHANGED <<destroyed, running, cpu, pc, target>> /\ Others

(* gtthread_mutex_destroy, and gtthread_mutex_init on the same mutex. *)
Destroy(t) ==
  /\ InLib(t) /\ ~destroyed
  /\ inside = {} /\ \A u \in Thread : pc[u] # "lock"
  /\ destroyed' = TRUE
  /\ locked' = FALSE
  /\ wait_queue' = <<>>
  /\ UNCHANGED <<inside, vars>>

MutexInit(t) ==
  /\ InLib(t) /\ destroyed
  /\ destroyed' = FALSE
  /\ locked' = FALSE
  /\ wait_queue' = <<>>
  /\ UNCHANGED <<inside, vars>>

MutexStep(t) ==
  \/ LockFree(t) \/ LockBlock(t) \/ LockReturn(t) \/ Unlock(t)
  \/ Destroy(t) \/ MutexInit(t)

MNext == (Next /\ UNCHANGED mvars) \/ \E t \in Thread : MutexStep(t)

MSpec == MInit /\ [][MNext]_allvars

(* schedule_next is plain sequential code.  The timer is periodic, and     *)
(* SIGVTALRM stays pending while it is blocked: as long as application     *)
(* code gets to run it is delivered again and again.                       *)
MFairSpec ==
  /\ MSpec
  /\ WF_allvars(Schedule /\ UNCHANGED mvars)
  /\ WF_allvars(\E t \in Thread : alrm_handler(t) /\ UNCHANGED mvars)

-----------------------------------------------------------------------------
(* Properties; RunningIsFront, JoinAfterCompletion, RunnableRuns and       *)
(* CancelTakesEffect of GTSched are checked here again, for a library      *)
(* whose mutex works on the run queue behind the scheduler's back.         *)

(* Types of the mutex's variables and the scheduler's. *)
MTypeOK ==
  /\ TypeOK
  /\ locked \in BOOLEAN
  /\ wait_queue \in Seq(Thread)
  /\ destroyed \in BOOLEAN
  /\ inside \subseteq Thread

(* No thread is lost or queued twice: a live thread is in exactly one of   *)
(* the run queue, the join queues and the mutex's wait queue.              *)
MOnePlace ==
  LET queues == <<run_queue, wait_queue>> \o join_queue IN
  /\ \A i \in DOMAIN queues : NoRepeats(queues[i])
  /\ \A i, j \in DOMAIN queues : i # j => Range(queues[i]) \cap Range(queues[j]) = {}
  /\ UNION {Range(queues[i]) : i \in DOMAIN queues} = (1 .. next_id - 1) \ completed

(* The queues implement the life of a thread as Threads states it: every   *)
(* thread that joined a completed one is ready again at the same time, none*)
(* completes while it waits or joins, none comes back, and only the mutex  *)
(* wakes those that wait for it.  The mapping forgets the order of the     *)
(* queues.                                                                 *)
WhereIs(t) ==
  IF t \in completed THEN [is |-> "over", by |-> 0]
  ELSE IF t \in Range(run_queue) THEN [is |-> "ready", by |-> 0]
  ELSE IF t \in Range(wait_queue) THEN [is |-> "waiting", by |-> 0]
  ELSE IF \E u \in Thread : t \in Range(join_queue[u])
    THEN [is |-> "joining", by |-> CHOOSE u \in Thread : t \in Range(join_queue[u])]
  ELSE [is |-> "none", by |-> 0]

T == INSTANCE Threads WITH state <- [t \in Thread |-> WhereIs(t)]
ImplementsThreads == T!TSpec

(* gtthread_mutex_lock is analogous to pthread_mutex_lock (line 35): one   *)
(* thread at a time is inside.                                             *)
MutualExclusion == \A t, u \in inside : t = u

=============================================================================
