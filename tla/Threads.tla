------------------------------ MODULE Threads ------------------------------
(***************************************************************************)
(* What src/gtthreads/gtthread.h promises of the threads of a process,     *)
(* without queues: each one is not created yet, ready to run, joining      *)
(* another one, waiting for a mutex, or over, and goes from one of these   *)
(* to the next as below.                                                   *)
(***************************************************************************)
EXTENDS Integers

CONSTANT MaxThreads

VARIABLE state   \* state[t]: what t is doing

Thread == 1 .. MaxThreads

(* by is the thread that a joining thread joins, 0 for the others. *)
Is(what) == [is |-> what, by |-> 0]
Joining(u) == [is |-> "joining", by |-> u]

(* The process starts with its main thread. *)
TInit == state = [t \in Thread |-> IF t = 1 THEN Is("ready") ELSE Is("none")]

(* gtthread_create: ids are given out in order, and never again. *)
Create(t) ==
  /\ state[t] = Is("none") /\ \A u \in 1 .. t - 1 : state[u] # Is("none")
  /\ state' = [state EXCEPT ![t] = Is("ready")]

(* gtthread_join of a thread that exists and is not over. *)
Join(t, u) ==
  /\ state[t] = Is("ready") /\ state[u] \notin {Is("none"), Is("over")}
  /\ state' = [state EXCEPT ![t] = Joining(u)]

(* A thread exits, or complies with a cancel: that takes the CPU, and it   *)
(* makes every thread that joins it ready at the same time.                *)
Complete(t) ==
  /\ state[t] = Is("ready")
  /\ state' = [u \in Thread |-> IF u = t THEN Is("over")
                                ELSE IF state[u] = Joining(t) THEN Is("ready")
                                ELSE state[u]]

(* gtthread_mutex_lock of a locked mutex. *)
Wait(t) ==
  /\ state[t] = Is("ready")
  /\ state' = [state EXCEPT ![t] = Is("waiting")]

(* gtthread_mutex_unlock wakes a waiting thread. *)
Wake(t) ==
  /\ state[t] = Is("waiting")
  /\ state' = [state EXCEPT ![t] = Is("ready")]

TNext ==
  \E t \in Thread :
    \/ Create(t) \/ Complete(t) \/ Wait(t) \/ Wake(t)
    \/ \E u \in Thread : Join(t, u)

TSpec == TInit /\ [][TNext]_state

=============================================================================
