------------------------------ MODULE GTSched ------------------------------
(***************************************************************************)
(* The round-robin scheduler of src/gtthreads/gtthread_sched.c: user-level *)
(* threads on one CPU, a queue of runnable threads whose front is the one  *)
(* that runs, join queues, cancellation, and pre-emption by SIGVTALRM.     *)
(*                                                                         *)
(* Every library call blocks SIGVTALRM while it works on the queues, so a  *)
(* call is one step up to the point where it gives up the CPU or unblocks  *)
(* the signal.  The loop of schedule_next runs with the signal blocked; it *)
(* is one step per iteration (Schedule).                                   *)
(***************************************************************************)
EXTENDS Integers, Sequences, Functions

CONSTANTS
  MaxThreads,     \* bound: threads the application ever has, main included
  Quantum,        \* gtthread_init's period; 0 turns pre-emption off
  CancelTargets   \* the threads the application may cancel

ASSUME MaxThreadsAssumption == MaxThreads \in Nat \ {0}
ASSUME QuantumAssumption == Quantum \in Nat
ASSUME CancelTargetsAssumption == CancelTargets \subseteq 1 .. MaxThreads

VARIABLES
  next_id,     \* the id the next thread gets; 1 .. next_id - 1 is "threads"
  run_queue,   \* runnable threads, the running one in front
  join_queue,  \* join_queue[u]: threads waiting for u to complete
  cancelreq,   \* threads somebody asked to cancel
  completed,   \* threads that exited or were cancelled
  retval,      \* what each thread left behind
  running,     \* the thread whose context is on the CPU
  cpu,         \* what the process is doing, see TypeOK
  pc,          \* the library call each thread is in, "user" when in none
  target       \* the thread that call is about, 0 when about none

vars == <<next_id, run_queue, join_queue, cancelreq, completed, retval,
          running, cpu, pc, target>>

Thread == 1 .. MaxThreads

(* The library calls a thread can be inside of; "user" is none of them. *)
Calls == {"user", "join", "cancel", "exit", "lock"}
Main == 1

(* steque_front, steque_pop, steque_enqueue of steque.c on a sequence. *)
front(q) == Head(q)
pop(q) == Tail(q)
enqueue(q, x) == Append(q, x)

mutant_find_none_missing(id) == id \in Thread
find_thread(id) == id \in 1 .. next_id - 1

(* The process goes on in the context of t, whose next step is its own. *)
InUser(t) == cpu = "user" /\ running = t

(* malloc leaves retval unset until gtthread_exit stores it. *)
Unset == "unset"
Result == "result"

-----------------------------------------------------------------------------

(* The state gtthread_init leaves: main is the only thread and it runs. *)
Init ==
  /\ next_id = Main + 1
  /\ run_queue = <<Main>>
  /\ join_queue = [u \in Thread |-> <<>>]
  /\ cancelreq = {}
  /\ completed = {}
  /\ retval = [u \in Thread |-> Unset]
  /\ running = Main
  /\ cpu = "user"
  /\ pc = [u \in Thread |-> "user"]
  /\ target = [u \in Thread |-> 0]

(***************************************************************************)
(* schedule_next.  One iteration looks at the front thread: it complies    *)
(* with a pending cancel, or switches to the thread.  steque_front of an   *)
(* empty queue prints "underflow" and ends the process.  A front thread    *)
(* that is completed without a cancel request would make the loop spin     *)
(* for ever: no step is possible then.                                     *)
(***************************************************************************)
mutant_wakes_one_joiner(rest, u) ==
  /\ run_queue' = rest \o (IF join_queue[u] = <<>> THEN <<>> ELSE <<Head(join_queue[u])>>)
  /\ join_queue' = [join_queue EXCEPT ![u] = IF @ = <<>> THEN @ ELSE Tail(@)]

reschedule_joined(rest, u) ==
  /\ run_queue' = rest \o join_queue[u]
  /\ join_queue' = [join_queue EXCEPT ![u] = <<>>]

ComplyWithCancel ==
  /\ cpu = "sched" /\ run_queue # <<>>
  /\ front(run_queue) \in cancelreq
  /\ completed' = completed \cup {front(run_queue)}
  /\ reschedule_joined(pop(run_queue), front(run_queue))
  /\ UNCHANGED <<next_id, cancelreq, retval, running, cpu, pc, target>>

mutant_ignores_cancel ==
  /\ cpu = "sched" /\ run_queue # <<>>
  /\ front(run_queue) \notin completed
  /\ running' = front(run_queue)
  /\ cpu' = "user"
  /\ UNCHANGED <<next_id, run_queue, join_queue, cancelreq, completed, retval,
                 pc, target>>

SwitchTo ==
  /\ cpu = "sched" /\ run_queue # <<>>
  /\ front(run_queue) \notin cancelreq \cup completed
  /\ running' = front(run_queue)
  /\ cpu' = "user"
  /\ UNCHANGED <<next_id, run_queue, join_queue, cancelreq, completed, retval,
                 pc, target>>

Underflow ==
  /\ cpu = "sched" /\ run_queue = <<>>
  /\ cpu' = "underflow"
  /\ UNCHANGED <<next_id, run_queue, join_queue, cancelreq, completed, retval,
                 running, pc, target>>

Schedule == ComplyWithCancel \/ SwitchTo \/ Underflow

-----------------------------------------------------------------------------
(* gtthread_create: the new thread goes to the back of the run queue.      *)

Create(t) ==
  /\ InUser(t) /\ pc[t] = "user"
  /\ next_id <= MaxThreads
  /\ next_id' = next_id + 1
  /\ run_queue' = enqueue(run_queue, next_id)
  /\ UNCHANGED <<join_queue, cancelreq, completed, retval, running, cpu, pc,
                 target>>

(* Pop the caller, put it at the back, run schedule_next: the body shared  *)
(* by gtthread_yield and alrm_handler.                                     *)
mutant_rotate_pushes_back ==
  /\ run_queue' = <<front(run_queue)>> \o pop(run_queue)
  /\ cpu' = "sched"
  /\ UNCHANGED <<next_id, join_queue, cancelreq, completed, retval, running,
                 pc, target>>

Rotate ==
  /\ run_queue' = enqueue(pop(run_queue), front(run_queue))
  /\ cpu' = "sched"
  /\ UNCHANGED <<next_id, join_queue, cancelreq, completed, retval, running,
                 pc, target>>

Yield(t) == InUser(t) /\ pc[t] = "user" /\ Rotate

(* SIGVTALRM arrives while the running thread has it unblocked, whatever   *)
(* the thread is doing: its own code, or the tail of a library call.       *)
alrm_handler(t) == Quantum # 0 /\ InUser(t) /\ Rotate

(***************************************************************************)
(* gtthread_join.  An unknown id returns 1 and changes nothing, so only a  *)
(* thread that find_thread finds gives a step.  If the target is not       *)
(* complete the caller leaves the run queue for the target's join queue.   *)
(* The status is read after SIGVTALRM is unblocked, in a step of its own.  *)
(***************************************************************************)
JoinBlock(t, u) ==
  /\ InUser(t) /\ pc[t] = "user"
  /\ find_thread(u) /\ u \notin completed
  /\ run_queue' = pop(run_queue)
  /\ join_queue' = [join_queue EXCEPT ![u] = enqueue(@, front(run_queue))]
  /\ cpu' = "sched"
  /\ pc' = [pc EXCEPT ![t] = "join"]
  /\ target' = [target EXCEPT ![t] = u]
  /\ UNCHANGED <<next_id, cancelreq, completed, retval, running>>

JoinCompleted(t, u) ==
  /\ InUser(t) /\ pc[t] = "user"
  /\ find_thread(u) /\ u \in completed
  /\ pc' = [pc EXCEPT ![t] = "join"]
  /\ target' = [target EXCEPT ![t] = u]
  /\ UNCHANGED <<next_id, run_queue, join_queue, cancelreq, completed, retval,
                 running, cpu>>

(* The call in progress returns to the application. *)
ReturnToUser(t) ==
  /\ pc' = [pc EXCEPT ![t] = "user"]
  /\ target' = [target EXCEPT ![t] = 0]

JoinReturn(t) ==
  /\ InUser(t) /\ pc[t] = "join"
  /\ ReturnToUser(t)
  /\ UNCHANGED <<next_id, run_queue, join_queue, cancelreq, completed, retval,
                 running, cpu>>

(* gtthread_exit; start_wrapper calls it when a start routine returns. *)
mutant_exit_not_completed(t) ==
  /\ InUser(t) /\ pc[t] = "user"
  /\ retval' = [retval EXCEPT ![front(run_queue)] = Result]
  /\ reschedule_joined(pop(run_queue), front(run_queue))
  /\ cpu' = "sched"
  /\ pc' = [pc EXCEPT ![t] = "exit"]
  /\ UNCHANGED <<next_id, cancelreq, completed, running, target>>

Exit(t) ==
  /\ InUser(t) /\ pc[t] = "user"
  /\ retval' = [retval EXCEPT ![front(run_queue)] = Result]
  /\ completed' = completed \cup {front(run_queue)}
  /\ reschedule_joined(pop(run_queue), front(run_queue))
  /\ cpu' = "sched"
  /\ pc' = [pc EXCEPT ![t] = "exit"]
  /\ UNCHANGED <<next_id, cancelreq, running, target>>

(* gtthread_cancel looks the target up with SIGVTALRM blocked and stores   *)
(* the request after unblocking it: the target may complete in between.    *)
CancelFind(t, u) ==
  /\ InUser(t) /\ pc[t] = "user"
  /\ u \in CancelTargets /\ find_thread(u)
  /\ pc' = [pc EXCEPT ![t] = "cancel"]
  /\ target' = [target EXCEPT ![t] = u]
  /\ UNCHANGED <<next_id, run_queue, join_queue, cancelreq, completed, retval,
                 running, cpu>>

CancelStore(t) ==
  /\ InUser(t) /\ pc[t] = "cancel"
  /\ cancelreq' = cancelreq \cup {target[t]}
  /\ ReturnToUser(t)
  /\ UNCHANGED <<next_id, run_queue, join_queue, completed, retval, running,
                 cpu>>

(* main returns: the process ends with every thread in it. *)
MainReturn ==
  /\ InUser(Main) /\ pc[Main] = "user"
  /\ cpu' = "exited"
  /\ UNCHANGED <<next_id, run_queue, join_queue, cancelreq, completed, retval,
                 running, pc, target>>

Halted == cpu \in {"underflow", "exited"} /\ UNCHANGED vars

ThreadStep(t) ==
  \/ Create(t) \/ Yield(t) \/ alrm_handler(t) \/ Exit(t)
  \/ JoinReturn(t) \/ CancelStore(t)
  \/ \E u \in Thread : JoinBlock(t, u) \/ JoinCompleted(t, u) \/ CancelFind(t, u)

Next == Schedule \/ MainReturn \/ Halted \/ \E t \in Thread : ThreadStep(t)

Spec == Init /\ [][Next]_vars

-----------------------------------------------------------------------------
(* Properties. *)

(* Types; a call is about a thread that find_thread found, so that no NULL *)
(* target is ever dereferenced.                                            *)
TypeOK ==
  /\ next_id \in 2 .. MaxThreads + 1
  /\ run_queue \in Seq(Thread)
  /\ join_queue \in [Thread -> Seq(Thread)]
  /\ cancelreq \subseteq Thread
  /\ completed \subseteq Thread
  /\ retval \in [Thread -> {Unset, Result}]
  /\ running \in 1 .. next_id - 1
  /\ cpu \in {"user", "sched", "underflow", "exited"}
  /\ pc \in [Thread -> Calls]
  /\ target \in [Thread -> 0 .. next_id - 1]

(* "self" is read off the front of the run queue by create, join, exit,    *)
(* yield and self: whenever application code runs, its thread is there.    *)
RunningIsFront ==
  cpu \in {"user", "exited"} => run_queue # <<>> /\ running = front(run_queue)

NoRepeats(q) == \A i, j \in DOMAIN q : q[i] = q[j] => i = j

(* gtthread_join returns only once its target is over, and then finds the  *)
(* value the target passed to gtthread_exit, unless it was cancelled.      *)
JoinAfterCompletion ==
  \A t \in Thread : InUser(t) /\ pc[t] = "join" =>
    /\ target[t] \in completed
    /\ target[t] \in cancelreq \/ retval[target[t]] = Result

(* Round robin: a thread waiting for the CPU never moves back in the run   *)
(* queue; nobody created, rescheduled or rotated gets ahead of it.         *)
NeverMovesBack ==
  [][\A i \in 2 .. Len(run_queue), m \in 1 .. Len(run_queue') :
       run_queue'[m] = run_queue[i] => m <= i]_vars

Over == cpu \in {"underflow", "exited"}

(* With pre-emption on, every runnable thread gets the CPU again, whatever *)
(* the others do, or is cancelled, or the process ends.                    *)
RunnableRuns ==
  \A t \in Thread : t \in Range(run_queue) ~> InUser(t) \/ t \in completed \/ Over

(* A cancel request to a runnable thread takes effect: it completes, or    *)
(* puts itself in a join queue or the mutex's wait queue first.            *)
CancelTakesEffect ==
  \A t \in Thread : t \in cancelreq /\ t \in Range(run_queue)
                      ~> t \in completed \/ t \notin Range(run_queue) \/ Over

=============================================================================
