--------------------------- MODULE GTMutex_proof ---------------------------
(***************************************************************************)
(* Proofs about GTMutex, and with it about GTSched: type correctness, that *)
(* the front of the run queue is the running thread, that every live       *)
(* thread is in exactly one queue, that scheduling is round robin, that a  *)
(* join returns only after its target is over, and that the queues         *)
(* implement Threads, for any number of threads.                           *)
(***************************************************************************)
EXTENDS GTMutex, TLAPS

-----------------------------------------------------------------------------
(* Queues. *)

(* A thread of a smaller set is one of a larger set; used when a thread is *)
(* created.                                                                *)
LEMMA SeqMonotonic ==
  ASSUME NEW Few, NEW Many, Few \subseteq Many, NEW q \in Seq(Few)
  PROVE  q \in Seq(Many)
OBVIOUS

(* What steque_enqueue does to a queue. *)
LEMMA EnqueueFacts ==
  ASSUME NEW S, NEW q \in Seq(S), NEW x \in S
  PROVE  /\ enqueue(q, x) \in Seq(S)
         /\ enqueue(q, x) # <<>>
         /\ q # <<>> => front(enqueue(q, x)) = front(q)
<1>1. Append(q, x) \in Seq(S) /\ Append(q, x) # <<>>
  <2>1. Append(q, x) \in Seq(S) /\ Len(Append(q, x)) = Len(q) + 1 /\ Len(q) \in Nat
    OBVIOUS
  <2>2. Len(<<>>) = 0
    OBVIOUS
  <2> QED BY <2>1, <2>2
<1>2. /\ DOMAIN Append(q, x) = 1 .. Len(q) + 1
      /\ DOMAIN q = 1 .. Len(q)
      /\ \A i \in 1 .. Len(q) : Append(q, x)[i] = q[i]
      /\ Append(q, x)[Len(q) + 1] = x
      /\ Len(q) \in Nat
  OBVIOUS
<1>3. ASSUME q # <<>>
      PROVE  Head(Append(q, x)) = Head(q)
  <2>1. Len(q) >= 1 /\ Head(q) = q[1] /\ Head(Append(q, x)) = Append(q, x)[1]
    BY <1>1, <1>3
  <2> QED BY <2>1, <1>2
<1> QED BY <1>1, <1>3 DEF enqueue, front

(* The queue with a thread put at the back that was not in it. *)
LEMMA EnqueueNew ==
  ASSUME NEW S, NEW q \in Seq(S), NEW x \in S, NoRepeats(q), x \notin Range(q)
  PROVE  /\ Range(enqueue(q, x)) = Range(q) \cup {x}
         /\ NoRepeats(enqueue(q, x))
<1>1. enqueue(q, x) = Append(q, x)
  BY DEF enqueue
<1>2. /\ DOMAIN Append(q, x) = 1 .. Len(q) + 1
      /\ DOMAIN q = 1 .. Len(q)
      /\ \A i \in 1 .. Len(q) : Append(q, x)[i] = q[i]
      /\ Append(q, x)[Len(q) + 1] = x
      /\ Len(q) \in Nat
  OBVIOUS
<1>3. Range(Append(q, x)) = Range(q) \cup {x}
  BY <1>2 DEF Range
<1>4. NoRepeats(Append(q, x))
  BY <1>2 DEF Range, NoRepeats
<1> QED BY <1>1, <1>3, <1>4

(* What steque_front and steque_pop do to a queue that is not empty. *)
LEMMA PopFacts ==
  ASSUME NEW S, NEW q \in Seq(S), q # <<>>
  PROVE  /\ front(q) \in S
         /\ pop(q) \in Seq(S)
         /\ front(q) \in Range(q)
         /\ NoRepeats(q) => /\ Range(pop(q)) = Range(q) \ {front(q)}
                            /\ NoRepeats(pop(q))
<1>1. /\ Head(q) \in S
      /\ Tail(q) \in Seq(S)
      /\ Len(q) \in Nat \ {0}
      /\ Head(q) = q[1]
      /\ DOMAIN q = 1 .. Len(q)
      /\ Len(Tail(q)) = Len(q) - 1
      /\ DOMAIN Tail(q) = 1 .. Len(q) - 1
      /\ \A i \in 1 .. Len(q) - 1 : Tail(q)[i] = q[i + 1]
  OBVIOUS
<1>2. Head(q) \in Range(q)
  BY <1>1 DEF Range
<1>3. ASSUME NoRepeats(q)
      PROVE  NoRepeats(Tail(q)) /\ Range(Tail(q)) = Range(q) \ {Head(q)}
  <2>1. NoRepeats(Tail(q))
    BY <1>1, <1>3 DEF NoRepeats
  <2>2. ASSUME NEW y \in Range(Tail(q))
        PROVE  y \in Range(q) /\ y # Head(q)
    <3>1. PICK i \in 1 .. Len(q) - 1 : y = q[i + 1]
      BY <1>1 DEF Range
    <3> QED BY <3>1, <1>1, <1>3 DEF Range, NoRepeats
  <2>3. ASSUME NEW y \in Range(q), y # Head(q)
        PROVE  y \in Range(Tail(q))
    <3>1. PICK i \in 1 .. Len(q) : y = q[i]
      BY <1>1 DEF Range
    <3>2. i - 1 \in 1 .. Len(q) - 1 /\ Tail(q)[i - 1] = q[i]
      BY <3>1, <2>3, <1>1
    <3> QED BY <3>1, <3>2, <1>1 DEF Range
  <2> QED BY <2>1, <2>2, <2>3
<1> QED BY <1>1, <1>2, <1>3 DEF front, pop

(* What reschedule_joined does to the run queue. *)
LEMMA ConcatFacts ==
  ASSUME NEW S, NEW q \in Seq(S), NEW r \in Seq(S)
  PROVE  /\ q \o r \in Seq(S)
         /\ Range(q \o r) = Range(q) \cup Range(r)
         /\ NoRepeats(q) /\ NoRepeats(r) /\ Range(q) \cap Range(r) = {}
              => NoRepeats(q \o r)
<1>1. /\ q \o r \in Seq(S)
      /\ DOMAIN q = 1 .. Len(q) /\ DOMAIN r = 1 .. Len(r)
      /\ DOMAIN (q \o r) = 1 .. Len(q) + Len(r)
      /\ Len(q) \in Nat /\ Len(r) \in Nat
      /\ \A i \in 1 .. Len(q) : (q \o r)[i] = q[i]
      /\ \A i \in Len(q) + 1 .. Len(q) + Len(r) : (q \o r)[i] = r[i - Len(q)]
  OBVIOUS
<1>2. \A i \in 1 .. Len(r) : (q \o r)[i + Len(q)] = r[i]
  BY <1>1
<1>3. Range(q \o r) = Range(q) \cup Range(r)
  <2>1. ASSUME NEW i \in 1 .. Len(q) + Len(r)
        PROVE  (q \o r)[i] \in Range(q) \cup Range(r)
    <3>1. CASE i \in 1 .. Len(q)
      BY <3>1, <1>1 DEF Range
    <3>2. CASE i \notin 1 .. Len(q)
      <4>1. i - Len(q) \in 1 .. Len(r) /\ (q \o r)[i] = r[i - Len(q)]
        BY <3>2, <1>1
      <4> QED BY <4>1, <1>1 DEF Range
    <3> QED BY <3>1, <3>2
  <2>2. \A i \in 1 .. Len(q) : q[i] \in Range(q \o r)
    <3> TAKE i \in 1 .. Len(q)
    <3>1. i \in DOMAIN (q \o r) /\ (q \o r)[i] = q[i]
      BY <1>1
    <3> QED BY <3>1 DEF Range
  <2>3. \A i \in 1 .. Len(r) : r[i] \in Range(q \o r)
    <3> TAKE i \in 1 .. Len(r)
    <3>1. i + Len(q) \in DOMAIN (q \o r) /\ (q \o r)[i + Len(q)] = r[i]
      BY <1>1, <1>2
    <3> QED BY <3>1 DEF Range
  <2> QED BY <2>1, <2>2, <2>3, <1>1 DEF Range
<1>4. ASSUME NoRepeats(q), NoRepeats(r), Range(q) \cap Range(r) = {}
      PROVE  NoRepeats(q \o r)
  <2> SUFFICES ASSUME NEW i \in 1 .. Len(q) + Len(r), NEW j \in 1 .. Len(q) + Len(r),
                      (q \o r)[i] = (q \o r)[j]
               PROVE  i = j
    BY <1>1 DEF NoRepeats
  <2> DEFINE In(k) == k \in 1 .. Len(q)
  <2>0. \A k \in 1 .. Len(q) + Len(r) : k \notin 1 .. Len(q) =>
           k - Len(q) \in 1 .. Len(r) /\ (q \o r)[k] = r[k - Len(q)]
    BY <1>1
  <2>1. CASE In(i) /\ In(j)
    BY <2>1, <1>1, <1>4 DEF NoRepeats
  <2>2. CASE ~In(i) /\ ~In(j)
    <3>1. i - Len(q) = j - Len(q)
      BY <2>2, <2>0, <1>1, <1>4 DEF NoRepeats
    <3> QED BY <3>1, <1>1
  <2>3. CASE In(i) /\ ~In(j)
    BY <2>3, <2>0, <1>1, <1>4 DEF Range
  <2>4. CASE ~In(i) /\ In(j)
    BY <2>4, <2>0, <1>1, <1>4 DEF Range
  <2> QED BY <2>1, <2>2, <2>3, <2>4
<1> QED BY <1>1, <1>3, <1>4

-----------------------------------------------------------------------------
(* Types and the front of the run queue. *)

Live == 1 .. next_id - 1

(* MTypeOK, strengthened: only threads that were created occur anywhere.   *)
Types ==
  /\ next_id \in 2 .. MaxThreads + 1
  /\ run_queue \in Seq(Live)
  /\ join_queue \in [Thread -> Seq(Live)]
  /\ cancelreq \subseteq Live
  /\ completed \subseteq Live
  /\ retval \in [Thread -> {Unset, Result}]
  /\ running \in Live
  /\ cpu \in {"user", "sched", "underflow", "exited"}
  /\ pc \in [Thread -> Calls]
  /\ target \in [Thread -> {0} \cup Live]
  /\ \A t \in Thread : pc[t] \in {"join", "cancel"} => target[t] \in Live
  /\ locked \in BOOLEAN
  /\ wait_queue \in Seq(Live)
  /\ destroyed \in BOOLEAN
  /\ inside \subseteq Live

LEMMA LiveInThread ==
  ASSUME Types
  PROVE  Live \subseteq Thread /\ next_id \in Nat
BY MaxThreadsAssumption DEF Types, Live, Thread

LEMMA TypesImplyMTypeOK ==
  ASSUME Types
  PROVE  MTypeOK
<1>1. Live \subseteq Thread /\ Live = 1 .. next_id - 1 /\ 0 \in 0 .. next_id - 1 /\ next_id \in Nat
  BY LiveInThread DEF Live, Types
<1>2. run_queue \in Seq(Thread) /\ wait_queue \in Seq(Thread)
  BY <1>1, SeqMonotonic DEF Types
<1>3. join_queue \in [Thread -> Seq(Thread)]
  BY <1>1, SeqMonotonic DEF Types
<1>4. target \in [Thread -> 0 .. next_id - 1]
  BY <1>1 DEF Types
<1> QED BY <1>1, <1>2, <1>3, <1>4 DEF Types, MTypeOK, TypeOK

(* A thread that takes a step of its own is in front of the run queue.     *)
LEMMA InUserFacts ==
  ASSUME Types, RunningIsFront, NEW t, InUser(t)
  PROVE  /\ run_queue # <<>>
         /\ front(run_queue) = t
         /\ t \in Live
         /\ t \in Thread
BY LiveInThread DEF Types, RunningIsFront, InUser

LEMMA InitTypes == MInit => Types /\ RunningIsFront
<1> SUFFICES ASSUME MInit PROVE Types /\ RunningIsFront
  OBVIOUS
<1>1. Live = {1} /\ next_id = 2 /\ 1 \in Thread
  BY MaxThreadsAssumption DEF MInit, Init, Live, Main, Thread
<1>2. <<1>> \in Seq({1}) /\ Head(<<1>>) = 1 /\ <<1>> # <<>> /\ <<>> \in Seq({1})
  OBVIOUS
<1>3. run_queue = <<1>> /\ run_queue # <<>> /\ front(run_queue) = 1
  BY <1>2 DEF MInit, Init, Main, front
<1>4. /\ run_queue \in Seq(Live) /\ wait_queue \in Seq(Live)
      /\ join_queue \in [Thread -> Seq(Live)]
  BY <1>1, <1>2, <1>3 DEF MInit, Init
<1>5. next_id \in 2 .. MaxThreads + 1 /\ running = 1 /\ running \in Live
  BY <1>1, MaxThreadsAssumption DEF MInit, Init, Main
<1> QED
  BY <1>3, <1>4, <1>5 DEF MInit, Init, Types, RunningIsFront, Calls

(* The steps of schedule_next. *)
LEMMA ScheduleTypes ==
  ASSUME Types, RunningIsFront, Schedule, UNCHANGED mvars
  PROVE  Types' /\ RunningIsFront'
<1> USE DEF mvars
<1>e. <<>> \in Seq(Live)
  OBVIOUS
<1>1. CASE ComplyWithCancel
  <2> DEFINE f == front(run_queue)
  <2>1. f \in Live /\ f \in Thread /\ pop(run_queue) \in Seq(Live)
    BY <1>1, PopFacts, LiveInThread DEF Types, ComplyWithCancel
  <2>2. join_queue[f] \in Seq(Live)
    BY <2>1 DEF Types
  <2>3. pop(run_queue) \o join_queue[f] \in Seq(Live)
    BY <2>1, <2>2, ConcatFacts
  <2>4. run_queue' \in Seq(Live) /\ completed' \subseteq Live
    BY <1>1, <2>1, <2>3 DEF ComplyWithCancel, reschedule_joined, Types
  <2>5. join_queue' \in [Thread -> Seq(Live)]
    BY <1>1, <1>e DEF ComplyWithCancel, reschedule_joined, Types
  <2>6. Live' = Live
    BY <1>1 DEF ComplyWithCancel, Live
  <2> QED
    BY <1>1, <2>4, <2>5, <2>6 DEF ComplyWithCancel, Types, RunningIsFront
<1>2. CASE SwitchTo
  <2>1. front(run_queue) \in Live
    BY <1>2, PopFacts DEF Types, SwitchTo
  <2>2. Live' = Live
    BY <1>2 DEF SwitchTo, Live
  <2> QED
    BY <1>2, <2>1, <2>2 DEF SwitchTo, Types, RunningIsFront, front
<1>3. CASE Underflow
  BY <1>3 DEF Underflow, Types, RunningIsFront, Live
<1> QED BY <1>1, <1>2, <1>3 DEF Schedule

(* The steps of a thread in the scheduler's calls. *)
LEMMA ThreadTypes ==
  ASSUME Types, RunningIsFront, NEW t \in Thread, ThreadStep(t), UNCHANGED mvars
  PROVE  Types' /\ RunningIsFront'
<1> USE DEF mvars
<1>u. InUser(t)
  BY DEF ThreadStep, Create, Yield, alrm_handler, Exit, JoinReturn, CancelStore,
         JoinBlock, JoinCompleted, CancelFind
<1>f. /\ run_queue # <<>> /\ front(run_queue) = t /\ t \in Live
      /\ pop(run_queue) \in Seq(Live) /\ run_queue \in Seq(Live)
  BY <1>u, InUserFacts, PopFacts DEF Types
<1>e. <<>> \in Seq(Live)
  OBVIOUS
<1>1. CASE Create(t)
  <2>1. /\ next_id' = next_id + 1 /\ next_id \in Nat
        /\ Live \subseteq Live' /\ next_id \in Live'
        /\ next_id' \in 2 .. MaxThreads + 1
    BY <1>1, MaxThreadsAssumption DEF Create, Live, Types
  <2>2. run_queue \in Seq(Live') /\ wait_queue \in Seq(Live')
    BY <2>1, SeqMonotonic DEF Types
  <2>3. join_queue \in [Thread -> Seq(Live')]
    BY <2>1, SeqMonotonic DEF Types
  <2>4. /\ run_queue' \in Seq(Live')
        /\ run_queue' # <<>>
        /\ front(run_queue') = front(run_queue)
    BY <1>1, <1>f, <2>1, <2>2, EnqueueFacts DEF Create
  <2>5. Types'
    BY <1>1, <2>1, <2>2, <2>3, <2>4 DEF Create, Types
  <2>6. RunningIsFront'
    BY <1>1, <1>u, <1>f, <2>4 DEF Create, RunningIsFront, InUser
  <2> QED BY <2>5, <2>6
<1>2. CASE Yield(t) \/ alrm_handler(t)
  <2>1. Rotate
    BY <1>2 DEF Yield, alrm_handler
  <2>2. run_queue' \in Seq(Live)
    BY <1>f, <2>1, EnqueueFacts DEF Rotate
  <2>3. Live' = Live
    BY <2>1 DEF Rotate, Live
  <2> QED BY <2>1, <2>2, <2>3 DEF Rotate, Types, RunningIsFront
<1>3. CASE Exit(t)
  <2>2. join_queue[t] \in Seq(Live)
    BY DEF Types
  <2>3. pop(run_queue) \o join_queue[t] \in Seq(Live)
    BY <1>f, <2>2, ConcatFacts
  <2>4. run_queue' \in Seq(Live) /\ completed' \subseteq Live
    BY <1>3, <1>f, <2>3 DEF Exit, reschedule_joined, Types
  <2>5. join_queue' \in [Thread -> Seq(Live)]
    BY <1>3, <1>e DEF Exit, reschedule_joined, Types
  <2>6. Live' = Live
    BY <1>3 DEF Exit, Live
  <2> QED
    BY <1>3, <2>4, <2>5, <2>6 DEF Exit, Types, RunningIsFront, Calls
<1>4. CASE JoinReturn(t)
  BY <1>4 DEF JoinReturn, ReturnToUser, Types, RunningIsFront, Calls, Live
<1>5. CASE CancelStore(t)
  <2>1. target[t] \in Live
    BY <1>5 DEF CancelStore, Types
  <2> QED
    BY <1>5, <2>1 DEF CancelStore, ReturnToUser, Types, RunningIsFront, Calls, Live
<1>6. ASSUME NEW u \in Thread, JoinBlock(t, u)
      PROVE  Types' /\ RunningIsFront'
  <2>1. u \in Live
    BY <1>6 DEF JoinBlock, find_thread, Live
  <2>2. enqueue(join_queue[u], t) \in Seq(Live)
    BY <1>f, EnqueueFacts DEF Types
  <2>3. join_queue' \in [Thread -> Seq(Live)]
    BY <1>6, <1>f, <2>2 DEF JoinBlock, Types
  <2>4. Live' = Live
    BY <1>6 DEF JoinBlock, Live
  <2> QED
    BY <1>6, <1>f, <2>1, <2>3, <2>4 DEF JoinBlock, Types, RunningIsFront, Calls
<1>7. ASSUME NEW u \in Thread, JoinCompleted(t, u) \/ CancelFind(t, u)
      PROVE  Types' /\ RunningIsFront'
  <2>1. u \in Live
    BY <1>7 DEF JoinCompleted, CancelFind, find_thread, Live
  <2> QED
    BY <1>7, <2>1
    DEF JoinCompleted, CancelFind, Types, RunningIsFront, Calls, Live
<1> QED
  BY <1>1, <1>2, <1>3, <1>4, <1>5, <1>6, <1>7 DEF ThreadStep

(* The steps of a thread in the mutex's calls. *)
LEMMA MutexTypes ==
  ASSUME Types, RunningIsFront, NEW t \in Thread, MutexStep(t)
  PROVE  Types' /\ RunningIsFront'
<1>u. InUser(t)
  BY DEF MutexStep, LockFree, LockBlock, LockReturn, Unlock, Destroy, MutexInit, InLib
<1>f. /\ run_queue # <<>> /\ front(run_queue) = t /\ t \in Live
      /\ pop(run_queue) \in Seq(Live) /\ run_queue \in Seq(Live)
  BY <1>u, InUserFacts, PopFacts DEF Types
<1>e. <<>> \in Seq(Live)
  OBVIOUS
<1>1. CASE LockFree(t)
  BY <1>1, <1>f DEF LockFree, Types, RunningIsFront, Live, vars
<1>2. CASE LockBlock(t)
  <2>1. wait_queue' \in Seq(Live)
    BY <1>2, <1>f, EnqueueFacts DEF LockBlock, Types
  <2>2. Live' = Live
    BY <1>2 DEF LockBlock, Others, Live
  <2>3. pop(run_queue) # <<>> => front(pop(run_queue)) \in Live
    BY <1>f, PopFacts
  <2>4. Types'
    BY <1>2, <1>u, <1>f, <2>1, <2>2, <2>3
    DEF LockBlock, swapcur, Others, Types, Calls, InUser
  <2>5. RunningIsFront'
    BY <1>2, <1>u DEF LockBlock, swapcur, RunningIsFront, InUser, front
  <2> QED BY <2>4, <2>5
<1>3. CASE LockReturn(t)
  BY <1>3, <1>f DEF LockReturn, ReturnToUser, Others, Types, RunningIsFront, Calls, Live
<1>4. CASE Unlock(t)
  <2>1. Live' = Live
    BY <1>4 DEF Unlock, Others, Live
  <2>2. CASE locked /\ wait_queue # <<>>
    <3>1. front(wait_queue) \in Live /\ pop(wait_queue) \in Seq(Live)
      BY <2>2, PopFacts DEF Types
    <3>2. /\ run_queue' \in Seq(Live) /\ run_queue' # <<>>
          /\ front(run_queue') = front(run_queue)
      BY <1>4, <1>f, <2>2, <3>1, EnqueueFacts DEF Unlock
    <3>3. Types'
      BY <1>4, <2>1, <2>2, <3>1, <3>2 DEF Unlock, Others, Types
    <3> QED BY <1>4, <1>u, <1>f, <3>2, <3>3 DEF Unlock, RunningIsFront, InUser
  <2>3. CASE ~(locked /\ wait_queue # <<>>)
    BY <1>4, <2>1, <2>3 DEF Unlock, Others, Types, RunningIsFront
  <2> QED BY <2>2, <2>3
<1>5. CASE Destroy(t) \/ MutexInit(t)
  BY <1>5, <1>e DEF Destroy, MutexInit, Types, RunningIsFront, Live, vars
<1> QED BY <1>1, <1>2, <1>3, <1>4, <1>5 DEF MutexStep

LEMMA NextTypes ==
  ASSUME Types, RunningIsFront, [MNext]_allvars
  PROVE  Types' /\ RunningIsFront'
<1>1. CASE Schedule /\ UNCHANGED mvars
  BY <1>1, ScheduleTypes
<1>2. CASE MainReturn /\ UNCHANGED mvars
  BY <1>2 DEF MainReturn, InUser, Types, RunningIsFront, Live, mvars
<1>3. CASE UNCHANGED allvars
  BY <1>3 DEF allvars, vars, mvars, Types, RunningIsFront, Live
<1>4. ASSUME NEW t \in Thread, ThreadStep(t), UNCHANGED mvars
      PROVE  Types' /\ RunningIsFront'
  BY <1>4, ThreadTypes
<1>5. ASSUME NEW t \in Thread, MutexStep(t)
      PROVE  Types' /\ RunningIsFront'
  BY <1>5, MutexTypes
<1> QED BY <1>1, <1>2, <1>3, <1>4, <1>5 DEF MNext, Next, Halted, allvars

(* The types of every variable of the library; and no queue, request or    *)
(* call ever names a thread that was not created (Types).                  *)
THEOREM TypeCorrectness == MSpec => [](MTypeOK /\ Types)
<1>1. Types /\ RunningIsFront /\ [MNext]_allvars => (Types /\ RunningIsFront)'
  BY NextTypes
<1>2. Types => MTypeOK
  BY TypesImplyMTypeOK
<1> QED BY InitTypes, <1>1, <1>2, PTL DEF MSpec

(* The calls that ask the front of the run queue who called them are       *)
(* answered with the thread that runs (steque_front in gtthread_self, join *)
(* and the others).                                                        *)
THEOREM FrontRuns == MSpec => []RunningIsFront
<1>1. Types /\ RunningIsFront /\ [MNext]_allvars => (Types /\ RunningIsFront)'
  BY NextTypes
<1> QED BY InitTypes, <1>1, PTL DEF MSpec

-----------------------------------------------------------------------------
(* Every live thread in exactly one place. *)

(* No thread is twice in a queue, in two queues, or completed and queued.  *)
Distinct ==
  /\ NoRepeats(run_queue) /\ NoRepeats(wait_queue)
  /\ \A u \in Thread : NoRepeats(join_queue[u])
  /\ \A x \in Range(run_queue) : x \notin completed /\ x \notin Range(wait_queue)
  /\ \A x \in Range(wait_queue) : x \notin completed
  /\ \A u \in Thread : \A x \in Range(join_queue[u]) :
       /\ x \notin completed
       /\ x \notin Range(run_queue) /\ x \notin Range(wait_queue)
       /\ \A v \in Thread : x \in Range(join_queue[v]) => u = v

Present ==
  \A x \in Live : \/ x \in completed \/ x \in Range(run_queue) \/ x \in Range(wait_queue)
                 \/ \E u \in Thread : x \in Range(join_queue[u])

(* Who is in the wait queue is inside of gtthread_mutex_lock: this is why  *)
(* gtthread_mutex_destroy, which drops the queue, loses nobody.            *)
Waiters ==
  /\ \A x \in Range(wait_queue) : pc[x] = "lock"
  /\ destroyed => wait_queue = <<>>

LEMMA EmptyFacts == Range(<<>>) = {} /\ NoRepeats(<<>>)
BY DEF Range, NoRepeats

LEMMA RangeInSet ==
  ASSUME NEW S, NEW q \in Seq(S)
  PROVE  Range(q) \subseteq S
<1>1. DOMAIN q = 1 .. Len(q) /\ \A i \in 1 .. Len(q) : q[i] \in S
  OBVIOUS
<1> QED BY <1>1 DEF Range

LEMMA OnePlaceFromParts ==
  ASSUME Types, Distinct, Present
  PROVE  MOnePlace
<1> DEFINE queues == <<run_queue, wait_queue>> \o join_queue
<1>1. /\ join_queue \in Seq(Seq(Live)) /\ Len(join_queue) = MaxThreads
      /\ MaxThreads \in Nat
  <2>1. join_queue \in [1 .. MaxThreads -> Seq(Live)] /\ MaxThreads \in Nat
    BY MaxThreadsAssumption DEF Types, Thread
  <2> QED BY <2>1
<1>2. <<run_queue, wait_queue>> \in Seq(Seq(Live))
  BY DEF Types
<1>3. DOMAIN queues = 1 .. MaxThreads + 2
  <2>1. Len(<<run_queue, wait_queue>>) = 2
    OBVIOUS
  <2>2. Len(queues) = 2 + MaxThreads /\ DOMAIN queues = 1 .. Len(queues)
    BY <1>1, <1>2, <2>1
  <2> QED BY <1>1, <2>2
<1>4. /\ queues[1] = run_queue /\ queues[2] = wait_queue
      /\ \A i \in 3 .. MaxThreads + 2 : i - 2 \in Thread /\ queues[i] = join_queue[i - 2]
  BY <1>1, <1>2 DEF Thread
<1>5. \A u \in Thread : u + 2 \in 3 .. MaxThreads + 2 /\ queues[u + 2] = join_queue[u]
  BY <1>1, <1>4 DEF Thread
<1> HIDE DEF queues
<1>6. \A i \in DOMAIN queues : i = 1 \/ i = 2 \/ i \in 3 .. MaxThreads + 2
  BY <1>1, <1>3
<1>7. \A i \in DOMAIN queues : NoRepeats(queues[i])
  BY <1>4, <1>6 DEF Distinct
<1>8. ASSUME NEW i \in DOMAIN queues, NEW j \in DOMAIN queues, i # j
      PROVE  Range(queues[i]) \cap Range(queues[j]) = {}
  <2>1. CASE i \in 3 .. MaxThreads + 2 /\ j \in 3 .. MaxThreads + 2
    <3>1. i - 2 # j - 2
      BY <1>8, <2>1
    <3> QED BY <2>1, <3>1, <1>4 DEF Distinct
  <2>2. CASE i \in {1, 2} \/ j \in {1, 2}
    BY <1>8, <2>2, <1>4, <1>6 DEF Distinct
  <2> QED BY <2>1, <2>2, <1>6
<1>9. \A i \in DOMAIN queues : Range(queues[i]) \subseteq Live \ completed
  <2>1. /\ Range(run_queue) \subseteq Live /\ Range(wait_queue) \subseteq Live
        /\ \A u \in Thread : Range(join_queue[u]) \subseteq Live
    BY RangeInSet DEF Types
  <2> QED BY <2>1, <1>4, <1>6 DEF Distinct
<1>10. \A x \in Live \ completed : \E i \in DOMAIN queues : x \in Range(queues[i])
  <2> TAKE x \in Live \ completed
  <2>1. CASE x \in Range(run_queue) \/ x \in Range(wait_queue)
    <3>1. 1 \in DOMAIN queues /\ 2 \in DOMAIN queues
      BY <1>1, <1>3
    <3> QED BY <2>1, <3>1, <1>4
  <2>2. CASE \E u \in Thread : x \in Range(join_queue[u])
    <3>1. PICK u \in Thread : x \in Range(join_queue[u])
      BY <2>2
    <3>2. u + 2 \in DOMAIN queues
      BY <1>1, <1>3, <1>5
    <3> QED BY <3>1, <3>2, <1>5
  <2> QED BY <2>1, <2>2 DEF Present
<1>11. UNION {Range(queues[i]) : i \in DOMAIN queues} = (1 .. next_id - 1) \ completed
  BY <1>9, <1>10 DEF Live
<1> QED BY <1>7, <1>8, <1>11 DEF MOnePlace, queues

LEMMA InitOnePlace == MInit => Distinct /\ Present /\ Waiters
<1> SUFFICES ASSUME MInit PROVE Distinct /\ Present /\ Waiters
  OBVIOUS
<1>1. Range(<<1>>) = {1} /\ NoRepeats(<<1>>)
  BY DEF Range, NoRepeats
<1>2. Live = {1}
  BY DEF MInit, Init, Live, Main
<1> QED
  BY <1>1, <1>2, EmptyFacts DEF MInit, Init, Distinct, Present, Waiters, Main

(* The front thread completes and those that join it become runnable: in   *)
(* schedule_next and in gtthread_exit.                                     *)
LEMMA CompleteFront ==
  ASSUME Types, Distinct, Present, run_queue # <<>>,
         NEW f, f = front(run_queue),
         reschedule_joined(pop(run_queue), f), completed' = completed \cup {f},
         next_id' = next_id, wait_queue' = wait_queue
  PROVE  Distinct' /\ Present'
<1>1. /\ f \in Thread /\ f \in Range(run_queue) /\ pop(run_queue) \in Seq(Live)
      /\ Range(pop(run_queue)) = Range(run_queue) \ {f} /\ NoRepeats(pop(run_queue))
  BY PopFacts, LiveInThread DEF Types, Distinct
<1>2. join_queue[f] \in Seq(Live) /\ join_queue \in [Thread -> Seq(Live)]
  BY <1>1 DEF Types
<1>3. /\ run_queue' = pop(run_queue) \o join_queue[f]
      /\ join_queue' = [join_queue EXCEPT ![f] = <<>>]
  BY DEF reschedule_joined
<1>4. Range(pop(run_queue)) \cap Range(join_queue[f]) = {}
  BY <1>1 DEF Distinct
<1>5. /\ Range(run_queue') = (Range(run_queue) \ {f}) \cup Range(join_queue[f])
      /\ NoRepeats(run_queue')
  BY <1>1, <1>2, <1>3, <1>4, ConcatFacts DEF Distinct
<1>6. /\ Range(join_queue'[f]) = {} /\ NoRepeats(join_queue'[f])
      /\ \A u \in Thread : u # f => join_queue'[u] = join_queue[u]
  BY <1>1, <1>2, <1>3, EmptyFacts
<1>7. Distinct'
  <2>1. \A x \in Range(run_queue') : x \notin completed' /\ x \notin Range(wait_queue')
    BY <1>1, <1>5 DEF Distinct
  <2>2. \A x \in Range(wait_queue') : x \notin completed'
    BY <1>1 DEF Distinct
  <2>3. \A u \in Thread : NoRepeats(join_queue'[u])
    BY <1>6 DEF Distinct
  <2>4. ASSUME NEW u \in Thread, NEW x \in Range(join_queue'[u])
        PROVE  /\ x \notin completed'
               /\ x \notin Range(run_queue') /\ x \notin Range(wait_queue')
               /\ \A v \in Thread : x \in Range(join_queue'[v]) => u = v
    <3>1. u # f /\ x \in Range(join_queue[u])
      BY <2>4, <1>6
    <3>2. x \notin Range(join_queue[f])
      BY <3>1, <1>1 DEF Distinct
    <3> QED BY <3>1, <3>2, <1>1, <1>5, <1>6 DEF Distinct
  <2> QED BY <1>5, <2>1, <2>2, <2>3, <2>4 DEF Distinct
<1>8. Present'
  BY <1>1, <1>5, <1>6 DEF Present, Live
<1> QED BY <1>7, <1>8

(* The front thread leaves the run queue for its back. *)
LEMMA RotateFront ==
  ASSUME Types, Distinct, Present, run_queue # <<>>, Rotate,
         wait_queue' = wait_queue
  PROVE  Distinct' /\ Present'
<1> DEFINE f == front(run_queue)
<1>1. /\ f \in Live /\ f \in Range(run_queue) /\ pop(run_queue) \in Seq(Live)
      /\ Range(pop(run_queue)) = Range(run_queue) \ {f} /\ NoRepeats(pop(run_queue))
  BY PopFacts DEF Types, Distinct
<1>2. f \notin Range(pop(run_queue))
  BY <1>1
<1>3. /\ Range(enqueue(pop(run_queue), f)) = Range(pop(run_queue)) \cup {f}
      /\ NoRepeats(enqueue(pop(run_queue), f))
  BY <1>1, <1>2, EnqueueNew
<1>4. NoRepeats(run_queue') /\ Range(run_queue') = Range(run_queue)
  BY <1>1, <1>3 DEF Rotate
<1> QED BY <1>4 DEF Rotate, Distinct, Present, Live

(* The front thread leaves the run queue for a join queue. *)
LEMMA FrontJoins ==
  ASSUME Types, Distinct, Present, run_queue # <<>>,
         NEW t \in Thread, NEW u \in Thread, t = front(run_queue), JoinBlock(t, u),
         wait_queue' = wait_queue
  PROVE  Distinct' /\ Present'
<1>1. /\ t \in Live /\ t \in Range(run_queue) /\ pop(run_queue) \in Seq(Live)
      /\ Range(pop(run_queue)) = Range(run_queue) \ {t} /\ NoRepeats(pop(run_queue))
  BY PopFacts DEF Types, Distinct
<1>2. /\ join_queue \in [Thread -> Seq(Live)] /\ join_queue[u] \in Seq(Live)
      /\ join_queue' = [join_queue EXCEPT ![u] = enqueue(join_queue[u], t)]
  BY DEF JoinBlock, Types
<1>3. t \notin Range(join_queue[u]) /\ NoRepeats(join_queue[u])
  BY <1>1 DEF Distinct
<1>4. /\ Range(enqueue(join_queue[u], t)) = Range(join_queue[u]) \cup {t}
      /\ NoRepeats(enqueue(join_queue[u], t))
  BY <1>1, <1>2, <1>3, EnqueueNew
<1>5. /\ Range(join_queue'[u]) = Range(join_queue[u]) \cup {t}
      /\ NoRepeats(join_queue'[u])
      /\ \A v \in Thread : v # u => join_queue'[v] = join_queue[v]
  BY <1>2, <1>4
<1>6. /\ Range(run_queue') = Range(run_queue) \ {t} /\ NoRepeats(run_queue')
      /\ completed' = completed /\ Live' = Live
  BY <1>1 DEF JoinBlock, Live
<1>7. Distinct'
  BY <1>1, <1>5, <1>6 DEF Distinct
<1>8. Present'
  BY <1>1, <1>5, <1>6 DEF Present
<1> QED BY <1>7, <1>8

(* The front thread leaves the run queue for the mutex's wait queue. *)
LEMMA FrontWaits ==
  ASSUME Types, Distinct, Present, run_queue # <<>>,
         NEW t \in Thread, t = front(run_queue), LockBlock(t)
  PROVE  Distinct' /\ Present' /\ Range(wait_queue') = Range(wait_queue) \cup {t}
<1>1. /\ t \in Live /\ t \in Range(run_queue) /\ pop(run_queue) \in Seq(Live)
      /\ Range(pop(run_queue)) = Range(run_queue) \ {t} /\ NoRepeats(pop(run_queue))
  BY PopFacts DEF Types, Distinct
<1>2. t \notin Range(wait_queue) /\ NoRepeats(wait_queue) /\ wait_queue \in Seq(Live)
  BY <1>1 DEF Distinct, Types
<1>5. /\ Range(enqueue(wait_queue, t)) = Range(wait_queue) \cup {t}
      /\ NoRepeats(enqueue(wait_queue, t))
  BY <1>1, <1>2, EnqueueNew
<1>3. Range(wait_queue') = Range(wait_queue) \cup {t} /\ NoRepeats(wait_queue')
  BY <1>5 DEF LockBlock
<1>4. /\ Range(run_queue') = Range(run_queue) \ {t} /\ NoRepeats(run_queue')
      /\ completed' = completed /\ join_queue' = join_queue /\ Live' = Live
  BY <1>1 DEF LockBlock, Others, Live
<1> QED BY <1>1, <1>3, <1>4 DEF Distinct, Present

(* The oldest waiter becomes runnable. *)
LEMMA WaiterWakes ==
  ASSUME Types, Distinct, Present, wait_queue # <<>>,
         wait_queue' = pop(wait_queue),
         run_queue' = enqueue(run_queue, front(wait_queue)),
         UNCHANGED <<next_id, completed, join_queue>>
  PROVE  /\ Distinct' /\ Present'
         /\ Range(wait_queue') \subseteq Range(wait_queue)
<1> DEFINE w == front(wait_queue)
<1>1. /\ w \in Live /\ w \in Range(wait_queue)
      /\ Range(wait_queue') = Range(wait_queue) \ {w} /\ NoRepeats(wait_queue')
  BY PopFacts DEF Types, Distinct
<1>2. w \notin Range(run_queue) /\ NoRepeats(run_queue) /\ run_queue \in Seq(Live)
  BY <1>1 DEF Distinct, Types
<1>3. Range(run_queue') = Range(run_queue) \cup {w} /\ NoRepeats(run_queue')
  BY <1>1, <1>2, EnqueueNew
<1>4. Live' = Live
  BY DEF Live
<1> HIDE DEF w
<1> QED BY <1>1, <1>2, <1>3, <1>4 DEF Distinct, Present

(* A new thread gets a place of its own. *)
LEMMA CreateFacts ==
  ASSUME Types, Distinct, Present, NEW t \in Thread, Create(t),
         wait_queue' = wait_queue
  PROVE  Distinct' /\ Present'
<1>1. /\ next_id \in Nat /\ next_id' = next_id + 1 /\ next_id \notin Live
      /\ Live \subseteq Live' /\ Live' = Live \cup {next_id}
  BY LiveInThread DEF Create, Live, Types
<1>2. run_queue \in Seq(Live') /\ next_id \in Live'
  BY <1>1, SeqMonotonic DEF Types
<1>3. /\ Range(run_queue) \subseteq Live /\ Range(wait_queue) \subseteq Live
      /\ \A u \in Thread : Range(join_queue[u]) \subseteq Live
      /\ completed \subseteq Live
  BY RangeInSet DEF Types
<1>4. next_id \notin Range(run_queue)
  BY <1>1, <1>3
<1>5. Range(run_queue') = Range(run_queue) \cup {next_id} /\ NoRepeats(run_queue')
  BY <1>2, <1>4, EnqueueNew DEF Create, Distinct
<1>6. completed' = completed /\ join_queue' = join_queue
  BY DEF Create
<1>7. Distinct'
  BY <1>1, <1>3, <1>5, <1>6 DEF Distinct
<1>8. Present'
  BY <1>1, <1>5, <1>6 DEF Present
<1> QED BY <1>7, <1>8

(* The place a thread has depends on the queues alone. *)
LEMMA SameQueues ==
  ASSUME Distinct, Present,
         UNCHANGED <<next_id, run_queue, join_queue, wait_queue, completed>>
  PROVE  Distinct' /\ Present'
<1>1. Live' = Live
  BY DEF Live
<1> QED BY <1>1 DEF Distinct, Present

(* The thread that runs is not in the wait queue, so a call it makes or    *)
(* returns from says nothing about a waiter.                               *)
LEMMA SameWaiters ==
  ASSUME Types, Distinct, Waiters, NEW t \in Thread, t \in Range(run_queue),
         \E c \in Calls : pc' = [pc EXCEPT ![t] = c],
         Range(wait_queue') \subseteq Range(wait_queue),
         destroyed' => wait_queue' = <<>>
  PROVE  Waiters'
<1>1. Range(wait_queue) \subseteq Thread /\ pc \in [Thread -> Calls]
  BY RangeInSet, LiveInThread DEF Types
<1>2. \A x \in Range(wait_queue') : x # t /\ x \in Thread /\ pc[x] = "lock"
  BY <1>1 DEF Distinct, Waiters
<1> QED BY <1>1, <1>2 DEF Waiters

OnePlaceInv == Types /\ RunningIsFront /\ Distinct /\ Present /\ Waiters

(* A step that leaves the mutex and the calls in progress alone. *)
LEMMA WaitersStay ==
  ASSUME Waiters, UNCHANGED <<wait_queue, destroyed, pc>>
  PROVE  Waiters'
BY DEF Waiters

LEMMA ScheduleOnePlace ==
  ASSUME OnePlaceInv, Schedule, UNCHANGED mvars
  PROVE  Distinct' /\ Present' /\ Waiters'
<1>1. CASE ComplyWithCancel
  BY <1>1, CompleteFront, WaitersStay DEF ComplyWithCancel, OnePlaceInv, mvars
<1>2. CASE SwitchTo
  BY <1>2, SameQueues, WaitersStay DEF SwitchTo, OnePlaceInv, mvars
<1>3. CASE Underflow
  BY <1>3, SameQueues, WaitersStay DEF Underflow, OnePlaceInv, mvars
<1> QED BY <1>1, <1>2, <1>3 DEF Schedule

LEMMA ThreadOnePlace ==
  ASSUME OnePlaceInv, NEW t \in Thread, ThreadStep(t), UNCHANGED mvars
  PROVE  Distinct' /\ Present' /\ Waiters'
<1> USE DEF OnePlaceInv, mvars
<1>u. InUser(t)
  BY DEF ThreadStep, Create, Yield, alrm_handler, Exit, JoinReturn, CancelStore,
         JoinBlock, JoinCompleted, CancelFind
<1>f. run_queue # <<>> /\ front(run_queue) = t /\ t \in Range(run_queue)
  BY <1>u, InUserFacts, PopFacts DEF Types
<1>w. destroyed' => wait_queue' = <<>>
  BY DEF Waiters
<1>c. {"user", "join", "cancel", "exit"} \subseteq Calls
  BY DEF Calls
<1>1. CASE Create(t)
  BY <1>1, CreateFacts, WaitersStay DEF Create
<1>2. CASE Yield(t) \/ alrm_handler(t)
  <2>1. Rotate
    BY <1>2 DEF Yield, alrm_handler
  <2>2. Distinct' /\ Present'
    BY <1>f, <2>1, RotateFront
  <2> QED BY <2>1, <2>2, WaitersStay DEF Rotate
<1>3. CASE Exit(t)
  <2>1. Distinct' /\ Present'
    BY <1>3, <1>f, CompleteFront DEF Exit
  <2> QED BY <1>3, <1>f, <1>w, <1>c, <2>1, SameWaiters DEF Exit
<1>4. CASE JoinReturn(t)
  BY <1>4, <1>f, <1>w, <1>c, SameQueues, SameWaiters DEF JoinReturn, ReturnToUser
<1>5. CASE CancelStore(t)
  BY <1>5, <1>f, <1>w, <1>c, SameQueues, SameWaiters DEF CancelStore, ReturnToUser
<1>6. ASSUME NEW u \in Thread, JoinBlock(t, u)
      PROVE  Distinct' /\ Present' /\ Waiters'
  <2>1. Distinct' /\ Present'
    BY <1>6, <1>f, FrontJoins
  <2> QED BY <1>6, <1>f, <1>w, <1>c, <2>1, SameWaiters DEF JoinBlock
<1>7. ASSUME NEW u \in Thread, JoinCompleted(t, u)
      PROVE  Distinct' /\ Present' /\ Waiters'
  BY <1>7, <1>f, <1>w, <1>c, SameQueues, SameWaiters DEF JoinCompleted
<1>8. ASSUME NEW u \in Thread, CancelFind(t, u)
      PROVE  Distinct' /\ Present' /\ Waiters'
  BY <1>8, <1>f, <1>w, <1>c, SameQueues, SameWaiters DEF CancelFind
<1> QED
  BY <1>1, <1>2, <1>3, <1>4, <1>5, <1>6, <1>7, <1>8 DEF ThreadStep

LEMMA MutexOnePlace ==
  ASSUME OnePlaceInv, NEW t \in Thread, MutexStep(t)
  PROVE  Distinct' /\ Present' /\ Waiters'
<1> USE DEF OnePlaceInv
<1>u. InUser(t)
  BY DEF MutexStep, LockFree, LockBlock, LockReturn, Unlock, Destroy, MutexInit, InLib
<1>f. run_queue # <<>> /\ front(run_queue) = t /\ t \in Range(run_queue)
  BY <1>u, InUserFacts, PopFacts DEF Types
<1>c. "user" \in Calls
  BY DEF Calls
<1>1. CASE LockFree(t)
  BY <1>1, SameQueues DEF LockFree, Waiters, vars
<1>2. CASE LockBlock(t)
  <2>1. /\ Distinct' /\ Present'
        /\ Range(wait_queue') = Range(wait_queue) \cup {t}
    BY <1>2, <1>f, FrontWaits
  <2>2. Range(wait_queue) \subseteq Thread /\ pc \in [Thread -> Calls]
    BY RangeInSet, LiveInThread DEF Types
  <2>3. ~destroyed' /\ pc' = [pc EXCEPT ![t] = "lock"]
    BY <1>2 DEF LockBlock
  <2>4. \A x \in Range(wait_queue') : pc'[x] = "lock"
    BY <2>1, <2>2, <2>3 DEF Waiters
  <2> QED BY <2>1, <2>3, <2>4 DEF Waiters
<1>3. CASE LockReturn(t)
  <2>1. destroyed' => wait_queue' = <<>>
    BY <1>3 DEF LockReturn, Waiters
  <2> QED
    BY <1>3, <1>f, <1>c, <2>1, SameQueues, SameWaiters
    DEF LockReturn, ReturnToUser, Others
<1>4. CASE Unlock(t)
  <2>1. CASE locked /\ wait_queue # <<>>
    <3>1. Distinct' /\ Present' /\ Range(wait_queue') \subseteq Range(wait_queue)
      BY <1>4, <2>1, WaiterWakes DEF Unlock, Others
    <3> QED BY <1>4, <3>1 DEF Unlock, Waiters
  <2>2. CASE ~(locked /\ wait_queue # <<>>)
    BY <1>4, <2>2, SameQueues, WaitersStay DEF Unlock, Others
  <2> QED BY <2>1, <2>2
<1>5. CASE Destroy(t) \/ MutexInit(t)
  <2>1. wait_queue = <<>>
    <3>1. ASSUME Destroy(t), wait_queue # <<>>
          PROVE  FALSE
      <4>1. front(wait_queue) \in Range(wait_queue) /\ front(wait_queue) \in Thread
        BY <3>1, PopFacts, LiveInThread DEF Types
      <4> QED BY <3>1, <4>1 DEF Waiters, Destroy
    <3>2. MutexInit(t) => wait_queue = <<>>
      BY DEF MutexInit, Waiters
    <3> QED BY <1>5, <3>1, <3>2
  <2>2. UNCHANGED <<next_id, run_queue, join_queue, wait_queue, completed, pc>>
    BY <1>5, <2>1 DEF Destroy, MutexInit, vars
  <2>3. Distinct' /\ Present'
    BY <2>2, SameQueues
  <2> QED BY <2>1, <2>2, <2>3 DEF Waiters
<1> QED BY <1>1, <1>2, <1>3, <1>4, <1>5 DEF MutexStep

LEMMA NextOnePlace ==
  ASSUME OnePlaceInv, [MNext]_allvars
  PROVE  OnePlaceInv'
<1>t. Types' /\ RunningIsFront'
  BY NextTypes DEF OnePlaceInv
<1>1. CASE Schedule /\ UNCHANGED mvars
  BY <1>1, <1>t, ScheduleOnePlace DEF OnePlaceInv
<1>2. CASE MainReturn /\ UNCHANGED mvars
  BY <1>2, <1>t, SameQueues, WaitersStay DEF OnePlaceInv, MainReturn, mvars
<1>3. CASE UNCHANGED allvars
  BY <1>3, <1>t, SameQueues, WaitersStay DEF OnePlaceInv, allvars, vars, mvars
<1>4. ASSUME NEW t \in Thread, ThreadStep(t), UNCHANGED mvars
      PROVE  OnePlaceInv'
  BY <1>4, <1>t, ThreadOnePlace DEF OnePlaceInv
<1>5. ASSUME NEW t \in Thread, MutexStep(t)
      PROVE  OnePlaceInv'
  BY <1>5, <1>t, MutexOnePlace DEF OnePlaceInv
<1> QED BY <1>1, <1>2, <1>3, <1>4, <1>5 DEF MNext, Next, Halted, allvars

(* Whatever is created, rotated, joined, cancelled, blocked on the mutex   *)
(* or woken up, no thread is ever lost and none is queued twice.           *)
THEOREM OnePlaceEach == MSpec => []MOnePlace
<1>1. MInit => OnePlaceInv
  BY InitTypes, InitOnePlace DEF OnePlaceInv
<1>2. OnePlaceInv /\ [MNext]_allvars => OnePlaceInv'
  BY NextOnePlace
<1>3. OnePlaceInv => MOnePlace
  BY OnePlaceFromParts DEF OnePlaceInv
<1> QED BY <1>1, <1>2, <1>3, PTL DEF MSpec

-----------------------------------------------------------------------------
(* Round robin. *)

(* No thread behind the front of q has a place further back in r. *)
Forward(q, r) ==
  \A i \in 2 .. Len(q), m \in 1 .. Len(r) : r[m] = q[i] => m <= i

LEMMA SameForward ==
  ASSUME NEW S, NEW q \in Seq(S), NoRepeats(q)
  PROVE  Forward(q, q)
<1>1. Len(q) \in Nat /\ DOMAIN q = 1 .. Len(q)
  OBVIOUS
<1> QED BY <1>1 DEF Forward, NoRepeats

(* steque_enqueue of a thread that is not in the queue. *)
LEMMA EnqueueForward ==
  ASSUME NEW S, NEW q \in Seq(S), NEW x \in S, NoRepeats(q), x \notin Range(q)
  PROVE  Forward(q, enqueue(q, x))
<1>1. /\ Len(Append(q, x)) = Len(q) + 1
      /\ DOMAIN q = 1 .. Len(q)
      /\ \A i \in 1 .. Len(q) : Append(q, x)[i] = q[i]
      /\ Append(q, x)[Len(q) + 1] = x
      /\ Len(q) \in Nat
  OBVIOUS
<1> SUFFICES ASSUME NEW i \in 2 .. Len(q), NEW m \in 1 .. Len(q) + 1,
                    Append(q, x)[m] = q[i]
             PROVE  m <= i
  BY <1>1 DEF Forward, enqueue
<1>2. i \in DOMAIN q
  BY <1>1
<1>3. m # Len(q) + 1
  BY <1>1, <1>2 DEF Range
<1>4. m \in DOMAIN q /\ q[m] = q[i]
  BY <1>1, <1>3
<1>5. m = i
  BY <1>2, <1>4 DEF NoRepeats
<1> QED BY <1>5

(* steque_pop: all that stood behind the front have moved up by one. *)
LEMMA PopForward ==
  ASSUME NEW S, NEW q \in Seq(S), q # <<>>, NoRepeats(q)
  PROVE  Forward(q, pop(q))
<1>1. /\ Len(q) \in Nat
      /\ Len(Tail(q)) = Len(q) - 1
      /\ DOMAIN q = 1 .. Len(q)
      /\ \A i \in 1 .. Len(q) - 1 : Tail(q)[i] = q[i + 1]
  OBVIOUS
<1> SUFFICES ASSUME NEW i \in 2 .. Len(q), NEW m \in 1 .. Len(q) - 1,
                    Tail(q)[m] = q[i]
             PROVE  m <= i
  BY <1>1 DEF Forward, pop
<1>2. i \in DOMAIN q /\ m + 1 \in DOMAIN q /\ q[m + 1] = q[i]
  BY <1>1
<1>3. m + 1 = i
  BY <1>2 DEF NoRepeats
<1> QED BY <1>3

(* steque_pop, then steque_enqueue of the front or of a thread that is not *)
(* in the queue, as gtthread_yield does.                                   *)
LEMMA RotateForward ==
  ASSUME NEW S, NEW q \in Seq(S), q # <<>>, NoRepeats(q),
         NEW x \in S, x \notin Range(pop(q))
  PROVE  Forward(q, enqueue(pop(q), x))
<1>1. /\ Len(q) \in Nat \ {0}
      /\ Tail(q) \in Seq(S)
      /\ Len(Tail(q)) = Len(q) - 1
      /\ DOMAIN q = 1 .. Len(q)
      /\ DOMAIN Tail(q) = 1 .. Len(q) - 1
      /\ \A i \in 1 .. Len(q) - 1 : Tail(q)[i] = q[i + 1]
  OBVIOUS
<1> DEFINE r == Append(Tail(q), x)
<1>2. /\ Len(r) = Len(q)
      /\ r[Len(q)] = x
      /\ \A i \in 1 .. Len(q) - 1 : r[i] = q[i + 1]
  BY <1>1
<1> HIDE DEF r
<1> SUFFICES ASSUME NEW i \in 2 .. Len(q), NEW m \in 1 .. Len(q), r[m] = q[i]
             PROVE  m <= i
  BY <1>2 DEF Forward, pop, enqueue, r
<1>3. CASE m = Len(q)
  <2>1. i - 1 \in DOMAIN Tail(q) /\ Tail(q)[i - 1] = q[i]
    BY <1>1
  <2>2. FALSE
    BY <1>2, <1>3, <2>1 DEF Range, pop
  <2> QED BY <2>2
<1>4. CASE m # Len(q)
  <2>0. m \in 1 .. Len(q) - 1
    <3>1. \A n \in Nat : \A k \in 1 .. n : k # n => k \in 1 .. n - 1
      OBVIOUS
    <3> QED BY <3>1, <1>4, <1>1, Zenon
  <2>a. r[m] = q[m + 1]
    BY <2>0, <1>2
  <2>b. i \in DOMAIN q /\ m + 1 \in DOMAIN q
    BY <2>0, <1>1
  <2>1. i \in DOMAIN q /\ m + 1 \in DOMAIN q /\ q[m + 1] = q[i]
    BY <2>a, <2>b
  <2>2. m + 1 = i
    BY <2>1 DEF NoRepeats
  <2> QED BY <2>2
<1> QED BY <1>3, <1>4

(* steque_pop, then a whole join queue put at the back. *)
LEMMA RescheduleForward ==
  ASSUME NEW S, NEW q \in Seq(S), q # <<>>, NoRepeats(q),
         NEW s \in Seq(S), Range(q) \cap Range(s) = {}
  PROVE  Forward(q, pop(q) \o s)
<1>1. /\ Len(q) \in Nat \ {0}
      /\ Tail(q) \in Seq(S)
      /\ Len(Tail(q)) = Len(q) - 1
      /\ DOMAIN q = 1 .. Len(q)
      /\ \A i \in 1 .. Len(q) - 1 : Tail(q)[i] = q[i + 1]
      /\ Len(s) \in Nat /\ DOMAIN s = 1 .. Len(s)
  OBVIOUS
<1> DEFINE r == Tail(q) \o s
<1>2. /\ Len(r) = Len(Tail(q)) + Len(s)
      /\ \A i \in 1 .. Len(Tail(q)) : r[i] = Tail(q)[i]
      /\ \A i \in Len(Tail(q)) + 1 .. Len(Tail(q)) + Len(s) :
           r[i] = s[i - Len(Tail(q))]
  BY <1>1
<1> HIDE DEF r
<1> SUFFICES ASSUME NEW i \in 2 .. Len(q), NEW m \in 1 .. Len(r), r[m] = q[i]
             PROVE  m <= i
  BY DEF Forward, pop, r
<1>3. CASE m \in 1 .. Len(q) - 1
  <2>1. i \in DOMAIN q /\ m + 1 \in DOMAIN q /\ q[m + 1] = q[i]
    BY <1>1, <1>2, <1>3
  <2>2. m + 1 = i
    BY <2>1 DEF NoRepeats
  <2> QED BY <2>2
<1>4. CASE m \notin 1 .. Len(q) - 1
  <2>1. /\ m - Len(Tail(q)) \in DOMAIN s
        /\ s[m - Len(Tail(q))] = q[i]
        /\ i \in DOMAIN q
    BY <1>1, <1>2, <1>4
  <2>2. FALSE
    BY <2>1 DEF Range
  <2> QED BY <2>2
<1> QED BY <1>3, <1>4

(* The front thread completes, in schedule_next or in gtthread_exit. *)
LEMMA CompleteForward ==
  ASSUME Types, Distinct, run_queue # <<>>,
         reschedule_joined(pop(run_queue), front(run_queue))
  PROVE  Forward(run_queue, run_queue')
<1> DEFINE f == front(run_queue)
<1>1. f \in Thread
  BY PopFacts, LiveInThread DEF Types
<1>2. join_queue[f] \in Seq(Live)
  BY <1>1 DEF Types
<1>3. Range(run_queue) \cap Range(join_queue[f]) = {}
  BY <1>1 DEF Distinct
<1>4. run_queue' = pop(run_queue) \o join_queue[f]
  BY DEF reschedule_joined
<1> HIDE DEF f
<1>5. run_queue \in Seq(Live) /\ NoRepeats(run_queue)
  BY DEF Types, Distinct
<1> QED BY <1>2, <1>3, <1>4, <1>5, RescheduleForward

(* One step per action that changes the run queue. *)
LEMMA StepForward ==
  ASSUME OnePlaceInv, [MNext]_allvars
  PROVE  Forward(run_queue, run_queue')
<1> USE DEF OnePlaceInv
<1>q. run_queue \in Seq(Live) /\ NoRepeats(run_queue)
  BY DEF Types, Distinct
<1>0. ASSUME run_queue' = run_queue
      PROVE  Forward(run_queue, run_queue')
  <2>1. Forward(run_queue, run_queue)
    BY <1>q, SameForward
  <2> QED BY <1>0, <2>1
<1>p. ASSUME run_queue # <<>>, run_queue' = pop(run_queue)
      PROVE  Forward(run_queue, run_queue')
  <2>1. Forward(run_queue, pop(run_queue))
    BY <1>q, <1>p, PopForward
  <2> QED BY <1>p, <2>1
<1>1. ASSUME Schedule
      PROVE  Forward(run_queue, run_queue')
  <2>1. CASE ComplyWithCancel
    BY <2>1, CompleteForward DEF ComplyWithCancel
  <2>2. CASE SwitchTo \/ Underflow
    BY <2>2, <1>0 DEF SwitchTo, Underflow
  <2> QED BY <1>1, <2>1, <2>2 DEF Schedule
<1>2. ASSUME NEW t \in Thread, ThreadStep(t)
      PROVE  Forward(run_queue, run_queue')
  <2>u. InUser(t)
    BY <1>2 DEF ThreadStep, Create, Yield, alrm_handler, Exit, JoinReturn, CancelStore,
                JoinBlock, JoinCompleted, CancelFind
  <2>f. run_queue # <<>>
    BY <2>u, InUserFacts
  <2>1. CASE Create(t)
    <3>1. /\ next_id \in Nat /\ next_id' = next_id + 1 /\ next_id \notin Live
          /\ Live \subseteq Live' /\ Live' = Live \cup {next_id}
      BY <2>1, LiveInThread DEF Create, Live, Types
    <3>2. run_queue \in Seq(Live') /\ next_id \in Live' /\ Range(run_queue) \subseteq Live
      BY <3>1, <1>q, SeqMonotonic, RangeInSet
    <3>3. Forward(run_queue, enqueue(run_queue, next_id))
      BY <3>1, <3>2, <1>q, EnqueueForward
    <3> QED BY <2>1, <3>3 DEF Create
  <2>2. CASE Yield(t) \/ alrm_handler(t)
    <3>1. run_queue' = enqueue(pop(run_queue), front(run_queue))
      BY <2>2 DEF Yield, alrm_handler, Rotate
    <3>2. front(run_queue) \in Live /\ front(run_queue) \notin Range(pop(run_queue))
      BY <1>q, <2>f, PopFacts
    <3>3. Forward(run_queue, enqueue(pop(run_queue), front(run_queue)))
      BY <1>q, <2>f, <3>2, RotateForward
    <3> QED BY <3>1, <3>3
  <2>3. CASE Exit(t)
    BY <2>3, <2>f, CompleteForward DEF Exit
  <2>4. CASE \E u \in Thread : JoinBlock(t, u)
    BY <2>4, <2>f, <1>p DEF JoinBlock
  <2>5. CASE \/ JoinReturn(t) \/ CancelStore(t)
             \/ \E u \in Thread : JoinCompleted(t, u) \/ CancelFind(t, u)
    BY <2>5, <1>0 DEF JoinReturn, CancelStore, JoinCompleted, CancelFind
  <2> QED BY <1>2, <2>1, <2>2, <2>3, <2>4, <2>5 DEF ThreadStep
<1>3. ASSUME NEW t \in Thread, MutexStep(t)
      PROVE  Forward(run_queue, run_queue')
  <2>u. InUser(t)
    BY <1>3
    DEF MutexStep, LockFree, LockBlock, LockReturn, Unlock, Destroy, MutexInit, InLib
  <2>f. run_queue # <<>>
    BY <2>u, InUserFacts
  <2>1. CASE LockBlock(t)
    BY <2>1, <2>f, <1>p DEF LockBlock
  <2>2. CASE Unlock(t) /\ locked /\ wait_queue # <<>>
    <3>1. front(wait_queue) \in Live /\ front(wait_queue) \in Range(wait_queue)
      BY <2>2, PopFacts DEF Types
    <3>2. front(wait_queue) \notin Range(run_queue)
      BY <3>1 DEF Distinct
    <3>3. Forward(run_queue, enqueue(run_queue, front(wait_queue)))
      BY <1>q, <3>1, <3>2, EnqueueForward
    <3> QED BY <2>2, <3>3 DEF Unlock
  <2>3. CASE \/ Unlock(t) /\ ~(locked /\ wait_queue # <<>>)
             \/ LockFree(t) \/ LockReturn(t) \/ Destroy(t) \/ MutexInit(t)
    BY <2>3, <1>0 DEF Unlock, LockFree, LockReturn, Destroy, MutexInit, vars
  <2> QED BY <1>3, <2>1, <2>2, <2>3 DEF MutexStep
<1>4. ASSUME MainReturn \/ UNCHANGED vars
      PROVE  Forward(run_queue, run_queue')
  BY <1>4, <1>0 DEF MainReturn, vars
<1> QED BY <1>1, <1>2, <1>3, <1>4 DEF MNext, Next, Halted, allvars

(* Round robin: whoever is created, woken, rescheduled or pre-empted goes  *)
(* behind all that wait for the CPU, and none of those loses its place.    *)
THEOREM RoundRobin == MSpec => NeverMovesBack
<1>1. MInit => OnePlaceInv
  BY InitTypes, InitOnePlace DEF OnePlaceInv
<1>2. OnePlaceInv /\ [MNext]_allvars => OnePlaceInv'
  BY NextOnePlace
<1>3. OnePlaceInv /\ [MNext]_allvars
        => [\A i \in 2 .. Len(run_queue), m \in 1 .. Len(run_queue') :
              run_queue'[m] = run_queue[i] => m <= i]_vars
  BY StepForward DEF Forward
<1> QED BY <1>1, <1>2, <1>3, PTL DEF MSpec, NeverMovesBack

-----------------------------------------------------------------------------
(* A join returns after the target's completion.                           *)

(* Who is inside of gtthread_join waits in the queue of a thread that is   *)
(* not over, or its target is over.                                        *)
JoinersWait ==
  \A t \in Thread : pc[t] = "join" =>
    /\ target[t] \in Thread
    /\ target[t] \in completed \/ t \in Range(join_queue[target[t]])

(* Who is over stored its value, or was asked to cancel. *)
OverHasResult == \A u \in completed : u \in cancelreq \/ retval[u] = Result

JoinInv == OnePlaceInv /\ JoinersWait /\ OverHasResult

LEMMA JoinFromInv ==
  ASSUME JoinInv
  PROVE  JoinAfterCompletion
<1> SUFFICES ASSUME NEW t \in Thread, InUser(t), pc[t] = "join"
             PROVE  target[t] \in completed
  BY DEF JoinAfterCompletion, JoinInv, OverHasResult
<1>1. t \in Range(run_queue)
  BY InUserFacts, PopFacts DEF JoinInv, OnePlaceInv, Types
<1>2. target[t] \in Thread => t \notin Range(join_queue[target[t]])
  BY <1>1 DEF JoinInv, OnePlaceInv, Distinct
<1> QED BY <1>2 DEF JoinInv, JoinersWait

(* Only gtthread_join starts to wait for a thread. *)
LEMMA NoNewJoiner ==
  ASSUME JoinersWait, Types, NEW t \in Thread, NEW c \in Calls, NEW g, c # "join",
         pc' = [pc EXCEPT ![t] = c], target' = target \/ target' = [target EXCEPT ![t] = g],
         UNCHANGED <<join_queue, completed>>
  PROVE  JoinersWait'
BY DEF JoinersWait, Types

LEMMA SameJoiners ==
  ASSUME JoinersWait, UNCHANGED <<pc, target, join_queue, completed>>
  PROVE  JoinersWait'
BY DEF JoinersWait

(* The threads that waited for the one that completes are let go with it. *)
LEMMA CompleteJoiners ==
  ASSUME JoinersWait, Types, NEW f \in Thread,
         join_queue' = [join_queue EXCEPT ![f] = <<>>],
         completed' = completed \cup {f},
         pc' = pc \/ pc' = [pc EXCEPT ![f] = "exit"], target' = target
  PROVE  JoinersWait'
<1> SUFFICES ASSUME NEW x \in Thread, pc'[x] = "join"
             PROVE  /\ target[x] \in Thread
                    /\ target[x] \in completed' \/ x \in Range(join_queue'[target[x]])
  BY DEF JoinersWait
<1>1. pc[x] = "join"
  BY DEF Types
<1>2. target[x] # f => join_queue'[target[x]] = join_queue[target[x]]
  BY <1>1 DEF JoinersWait, Types
<1> QED BY <1>1, <1>2 DEF JoinersWait

LEMMA NextJoiners ==
  ASSUME JoinInv, [MNext]_allvars
  PROVE  JoinersWait'
<1> USE DEF JoinInv, OnePlaceInv
<1>c. {"user", "join", "cancel", "exit", "lock"} \subseteq Calls
  BY DEF Calls
<1>1. ASSUME ComplyWithCancel PROVE JoinersWait'
  <2>1. front(run_queue) \in Thread
    BY <1>1, PopFacts, LiveInThread DEF ComplyWithCancel, Types
  <2> QED BY <1>1, <2>1, CompleteJoiners DEF ComplyWithCancel, reschedule_joined
<1>2. ASSUME NEW t \in Thread, Exit(t) PROVE JoinersWait'
  <2>1. front(run_queue) = t
    BY <1>2, InUserFacts DEF Exit
  <2> QED BY <1>2, <2>1, CompleteJoiners DEF Exit, reschedule_joined
<1>3. ASSUME NEW t \in Thread, NEW u \in Thread, JoinBlock(t, u) PROVE JoinersWait'
  <2>1. t = front(run_queue) /\ t \in Live
    BY <1>3, InUserFacts, PopFacts DEF JoinBlock, Types
  <2>2. /\ join_queue[u] \in Seq(Live) /\ join_queue \in [Thread -> Seq(Live)]
        /\ join_queue' = [join_queue EXCEPT ![u] = enqueue(join_queue[u], t)]
    BY <1>3, <2>1 DEF JoinBlock, Types
  <2>3. t \in Range(run_queue)
    BY <1>3, InUserFacts, PopFacts DEF JoinBlock, Types
  <2>4. t \notin Range(join_queue[u]) /\ NoRepeats(join_queue[u])
    BY <2>3 DEF Distinct
  <2>5. Range(enqueue(join_queue[u], t)) = Range(join_queue[u]) \cup {t}
    BY <2>1, <2>2, <2>4, EnqueueNew
  <2>6. /\ Range(join_queue'[u]) = Range(join_queue[u]) \cup {t}
        /\ \A v \in Thread : v # u => join_queue'[v] = join_queue[v]
    BY <2>2, <2>5
  <2>7. /\ pc' = [pc EXCEPT ![t] = "join"] /\ target' = [target EXCEPT ![t] = u]
        /\ completed' = completed
    BY <1>3 DEF JoinBlock
  <2> QED BY <2>6, <2>7 DEF JoinersWait, Types
<1>4. ASSUME NEW t \in Thread, NEW u \in Thread, JoinCompleted(t, u) PROVE JoinersWait'
  BY <1>4 DEF JoinCompleted, JoinersWait, Types
<1>5. ASSUME NEW t \in Thread, NEW u \in Thread, CancelFind(t, u) PROVE JoinersWait'
  BY <1>5, <1>c, NoNewJoiner DEF CancelFind
<1>6. ASSUME NEW t \in Thread, JoinReturn(t) \/ CancelStore(t) PROVE JoinersWait'
  BY <1>6, <1>c, NoNewJoiner DEF JoinReturn, CancelStore, ReturnToUser
<1>7. ASSUME NEW t \in Thread, Create(t) \/ Yield(t) \/ alrm_handler(t)
      PROVE  JoinersWait'
  BY <1>7, SameJoiners DEF Create, Yield, alrm_handler, Rotate
<1>8. ASSUME NEW t \in Thread, LockBlock(t) PROVE JoinersWait'
  BY <1>8, <1>c, NoNewJoiner DEF LockBlock, Others
<1>9. ASSUME NEW t \in Thread, LockReturn(t) PROVE JoinersWait'
  BY <1>9, <1>c, NoNewJoiner DEF LockReturn, ReturnToUser, Others
<1>10. ASSUME NEW t \in Thread,
              LockFree(t) \/ Unlock(t) \/ Destroy(t) \/ MutexInit(t)
       PROVE  JoinersWait'
  BY <1>10, SameJoiners DEF LockFree, Unlock, Destroy, MutexInit, Others, vars
<1>11. ASSUME SwitchTo \/ Underflow \/ MainReturn \/ UNCHANGED vars PROVE JoinersWait'
  BY <1>11, SameJoiners DEF SwitchTo, Underflow, MainReturn, vars
<1> QED
  BY <1>1, <1>2, <1>3, <1>4, <1>5, <1>6, <1>7, <1>8, <1>9, <1>10, <1>11
  DEF MNext, Next, Halted, Schedule, ThreadStep, MutexStep, allvars

LEMMA NextOverHasResult ==
  ASSUME JoinInv, [MNext]_allvars
  PROVE  OverHasResult'
<1> USE DEF JoinInv, OnePlaceInv, OverHasResult
<1>1. ASSUME ComplyWithCancel PROVE OverHasResult'
  BY <1>1 DEF ComplyWithCancel
<1>2. ASSUME NEW t \in Thread, Exit(t) PROVE OverHasResult'
  <2>1. front(run_queue) = t
    BY <1>2, InUserFacts DEF Exit
  <2> QED BY <1>2, <2>1, LiveInThread DEF Exit, Types
<1>3. ASSUME cancelreq \subseteq cancelreq', UNCHANGED <<completed, retval>>
      PROVE  OverHasResult'
  BY <1>3
<1>4. ASSUME NEW t \in Thread,
             Create(t) \/ Yield(t) \/ alrm_handler(t) \/ JoinReturn(t) \/ CancelStore(t)
      PROVE  OverHasResult'
  BY <1>3, <1>4 DEF Create, Yield, alrm_handler, Rotate, JoinReturn, CancelStore
<1>5. ASSUME NEW t \in Thread, NEW u \in Thread,
             JoinBlock(t, u) \/ JoinCompleted(t, u) \/ CancelFind(t, u)
      PROVE  OverHasResult'
  BY <1>3, <1>5 DEF JoinBlock, JoinCompleted, CancelFind
<1>6. ASSUME NEW t \in Thread, MutexStep(t) PROVE OverHasResult'
  BY <1>3, <1>6
  DEF MutexStep, LockFree, LockBlock, LockReturn, Unlock, Destroy, MutexInit, Others, vars
<1>7. ASSUME SwitchTo \/ Underflow \/ MainReturn \/ UNCHANGED vars PROVE OverHasResult'
  BY <1>3, <1>7 DEF SwitchTo, Underflow, MainReturn, vars
<1> QED
  BY <1>1, <1>2, <1>4, <1>5, <1>6, <1>7
  DEF MNext, Next, Halted, Schedule, ThreadStep, allvars

(* gtthread_join comes back only when its target is over, and finds what   *)
(* the target left unless somebody asked to cancel it.                     *)
THEOREM JoinIsSafe == MSpec => []JoinAfterCompletion
<1>1. MInit => JoinInv
  BY InitTypes, InitOnePlace
  DEF JoinInv, OnePlaceInv, JoinersWait, OverHasResult, MInit, Init
<1>2. JoinInv /\ [MNext]_allvars => JoinInv'
  BY NextOnePlace, NextJoiners, NextOverHasResult DEF JoinInv
<1>3. JoinInv => JoinAfterCompletion
  BY JoinFromInv
<1> QED BY <1>1, <1>2, <1>3, PTL DEF MSpec

-----------------------------------------------------------------------------
(* The queues implement the life of a thread that Threads states.          *)

Places == [t \in Thread |-> WhereIs(t)]

(* WhereIs finds a thread in the one place where it is. *)
PlaceKnown ==
  \A x \in Thread :
    /\ x \in completed => WhereIs(x) = T!Is("over")
    /\ x \in Range(run_queue) => WhereIs(x) = T!Is("ready")
    /\ x \in Range(wait_queue) => WhereIs(x) = T!Is("waiting")
    /\ \A u \in Thread : x \in Range(join_queue[u]) => WhereIs(x) = T!Joining(u)
    /\ x \notin Live => WhereIs(x) = T!Is("none")

LEMMA WherePlaced == Types /\ Distinct => PlaceKnown
<1> SUFFICES ASSUME Types, Distinct, NEW x \in Thread
             PROVE  /\ x \in completed => WhereIs(x) = T!Is("over")
                    /\ x \in Range(run_queue) => WhereIs(x) = T!Is("ready")
                    /\ x \in Range(wait_queue) => WhereIs(x) = T!Is("waiting")
                    /\ \A u \in Thread :
                         x \in Range(join_queue[u]) => WhereIs(x) = T!Joining(u)
                    /\ x \notin Live => WhereIs(x) = T!Is("none")
  BY DEF PlaceKnown
<1>1. x \in completed => WhereIs(x) = T!Is("over")
  BY DEF WhereIs, T!Is
<1>2. x \in Range(run_queue) => WhereIs(x) = T!Is("ready")
  BY DEF WhereIs, T!Is, Distinct
<1>3. x \in Range(wait_queue) => WhereIs(x) = T!Is("waiting")
  BY DEF WhereIs, T!Is, Distinct
<1>4. ASSUME NEW u \in Thread, x \in Range(join_queue[u])
      PROVE  WhereIs(x) = T!Joining(u)
  <2>1. \A v \in Thread : x \in Range(join_queue[v]) => v = u
    BY <1>4 DEF Distinct
  <2>2. (CHOOSE v \in Thread : x \in Range(join_queue[v])) = u
    BY <1>4, <2>1
  <2>3. x \notin completed \cup Range(run_queue) \cup Range(wait_queue)
    BY <1>4 DEF Distinct
  <2> QED BY <1>4, <2>2, <2>3 DEF WhereIs, T!Joining
<1>5. x \notin Live => WhereIs(x) = T!Is("none")
  <2>1. /\ Range(run_queue) \subseteq Live /\ Range(wait_queue) \subseteq Live
        /\ \A u \in Thread : Range(join_queue[u]) \subseteq Live
        /\ completed \subseteq Live
    BY RangeInSet DEF Types
  <2> QED BY <2>1 DEF WhereIs, T!Is
<1> QED BY <1>1, <1>2, <1>3, <1>4, <1>5

(* What each kind of step has to do with WhereIs before and after it. *)
Placed == Types /\ Distinct /\ Present /\ PlaceKnown

(* Who is in none of the queues was not created, so a thread's place is    *)
(* its place in Threads.                                                   *)
LEMMA StutterImplements ==
  ASSUME Range(run_queue') = Range(run_queue),
         UNCHANGED <<join_queue, wait_queue, completed>>
  PROVE  UNCHANGED Places
<1>1. \A x \in Thread : WhereIs(x)' = WhereIs(x)
  BY DEF WhereIs
<1> QED BY <1>1 DEF Places

LEMMA CompleteImplements ==
  ASSUME Placed, Placed', run_queue # <<>>,
         NEW f, f = front(run_queue),
         reschedule_joined(pop(run_queue), f), completed' = completed \cup {f},
         next_id' = next_id, wait_queue' = wait_queue
  PROVE  T!TNext
<1>1. /\ f \in Thread /\ f \in Range(run_queue) /\ pop(run_queue) \in Seq(Live)
      /\ Range(pop(run_queue)) = Range(run_queue) \ {f}
  BY PopFacts, LiveInThread DEF Types, Distinct, Placed
<1>2. join_queue[f] \in Seq(Live) /\ join_queue \in [Thread -> Seq(Live)]
  BY <1>1 DEF Types, Placed
<1>3. /\ run_queue' = pop(run_queue) \o join_queue[f]
      /\ join_queue' = [join_queue EXCEPT ![f] = <<>>]
  BY DEF reschedule_joined
<1>4. Range(run_queue') = (Range(run_queue) \ {f}) \cup Range(join_queue[f])
  BY <1>1, <1>2, <1>3, ConcatFacts
<1>5. \A u \in Thread : u # f => join_queue'[u] = join_queue[u]
  BY <1>1, <1>2, <1>3
<1>6. Live' = Live
  BY DEF Live
<1>7. WhereIs(f) = T!Is("ready")
  BY <1>1 DEF Placed, PlaceKnown
<1>8. ASSUME NEW u \in Thread
      PROVE  WhereIs(u)' = IF u = f THEN T!Is("over")
                           ELSE IF WhereIs(u) = T!Joining(f) THEN T!Is("ready")
                           ELSE WhereIs(u)
  <2>1. CASE u = f
    BY <2>1 DEF Placed, PlaceKnown
  <2>2. CASE u # f /\ u \in completed
    BY <2>2 DEF Placed, PlaceKnown, T!Is, T!Joining
  <2>3. CASE u # f /\ u \in Range(run_queue)
    BY <2>3, <1>4 DEF Placed, PlaceKnown, T!Is, T!Joining
  <2>4. CASE u # f /\ u \in Range(wait_queue)
    BY <2>4 DEF Placed, PlaceKnown, T!Is, T!Joining
  <2>5. ASSUME u # f, NEW v \in Thread, u \in Range(join_queue[v])
        PROVE  WhereIs(u)' = IF WhereIs(u) = T!Joining(f) THEN T!Is("ready")
                             ELSE WhereIs(u)
    <3>1. WhereIs(u) = T!Joining(v)
      BY <2>5 DEF Placed, PlaceKnown
    <3>2. CASE v = f
      BY <3>1, <3>2, <2>5, <1>4 DEF Placed, PlaceKnown
    <3>3. CASE v # f
      BY <3>1, <3>3, <2>5, <1>5 DEF Placed, PlaceKnown, T!Joining
    <3> QED BY <3>2, <3>3
  <2>6. CASE u # f /\ u \notin Live
    BY <2>6, <1>6 DEF Placed, PlaceKnown, T!Is, T!Joining
  <2> QED BY <2>1, <2>2, <2>3, <2>4, <2>5, <2>6 DEF Placed, Present
<1>9. T!Complete(f)
  BY <1>1, <1>7, <1>8 DEF T!Complete, T!Thread, Thread
<1> QED BY <1>1, <1>9 DEF T!TNext, T!Thread, Thread

LEMMA CreateImplements ==
  ASSUME Placed, Placed', NEW t \in Thread, Create(t), wait_queue' = wait_queue,
         NEW n, n = next_id
  PROVE  T!TNext
<1>0. n \in Nat \ {0} /\ next_id' = n + 1 /\ n \in Thread
  BY LiveInThread, MaxThreadsAssumption DEF Create, Types, Placed, Thread
<1>1. /\ n \notin Live /\ Live' = Live \cup {n} /\ Live = 1 .. n - 1
      /\ run_queue' = enqueue(run_queue, n)
  BY <1>0 DEF Create, Live
<1>a. run_queue \in Seq(Live)
  BY DEF Types, Placed
<1>b. Live \subseteq Live' /\ n \in Live'
  BY <1>1
<1>2. run_queue \in Seq(Live')
  BY <1>a, <1>b, SeqMonotonic
<1>3. n \notin Range(run_queue)
  BY <1>1, <1>a, RangeInSet
<1>4. Range(run_queue') = Range(run_queue) \cup {n}
  BY <1>1, <1>b, <1>2, <1>3, EnqueueNew DEF Distinct, Placed
<1>5. completed' = completed /\ join_queue' = join_queue
  BY DEF Create
<1>6. WhereIs(n) = T!Is("none") /\ WhereIs(n)' = T!Is("ready")
  BY <1>0, <1>1, <1>4 DEF Placed, PlaceKnown
<1>7. ASSUME NEW u \in Thread, u # n
      PROVE  WhereIs(u)' = WhereIs(u)
  BY <1>7, <1>0, <1>1, <1>4, <1>5 DEF Placed, PlaceKnown, Present
<1>8. \A u \in Live : u \in Thread /\ WhereIs(u) # T!Is("none")
  BY LiveInThread DEF Placed, PlaceKnown, Present, T!Is, T!Joining
<1>9. Places' = [Places EXCEPT ![n] = T!Is("ready")]
  BY <1>0, <1>1, <1>6, <1>7 DEF Places
<1>10. T!Create(n)
  BY <1>0, <1>1, <1>6, <1>8, <1>9 DEF T!Create, Places
<1> QED BY <1>0, <1>1, <1>10 DEF T!TNext, T!Thread, Thread

LEMMA JoinImplements ==
  ASSUME Placed, Placed', run_queue # <<>>, wait_queue' = wait_queue,
         NEW t \in Thread, NEW u \in Thread, t = front(run_queue), JoinBlock(t, u)
  PROVE  T!TNext
<1>1. /\ t \in Live /\ t \in Range(run_queue)
      /\ Range(run_queue') = Range(run_queue) \ {t}
  BY PopFacts DEF Types, Distinct, Placed, JoinBlock
<1>2. /\ join_queue \in [Thread -> Seq(Live)] /\ join_queue[u] \in Seq(Live)
      /\ join_queue' = [join_queue EXCEPT ![u] = enqueue(join_queue[u], t)]
  BY DEF JoinBlock, Types, Placed
<1>3. t \notin Range(join_queue[u]) /\ NoRepeats(join_queue[u])
  BY <1>1 DEF Distinct, Placed
<1>4. Range(enqueue(join_queue[u], t)) = Range(join_queue[u]) \cup {t}
  BY <1>1, <1>2, <1>3, EnqueueNew
<1>5. /\ Range(join_queue'[u]) = Range(join_queue[u]) \cup {t}
      /\ \A v \in Thread : v # u => join_queue'[v] = join_queue[v]
  BY <1>2, <1>4
<1>6. completed' = completed /\ Live' = Live
  BY DEF JoinBlock, Live
<1>7. WhereIs(t) = T!Is("ready") /\ WhereIs(t)' = T!Joining(u)
  BY <1>1, <1>5 DEF Placed, PlaceKnown
<1>8. ASSUME NEW x \in Thread, x # t
      PROVE  WhereIs(x)' = WhereIs(x)
  <2>1. ASSUME NEW v \in Thread, x \in Range(join_queue[v])
        PROVE  x \in Range(join_queue'[v])
    BY <2>1, <1>5
  <2>2. CASE \E v \in Thread : x \in Range(join_queue[v])
    BY <2>1, <2>2 DEF Placed, PlaceKnown
  <2> QED BY <1>8, <2>2, <1>1, <1>6 DEF Placed, PlaceKnown, Present
<1>9. WhereIs(u) \notin {T!Is("none"), T!Is("over")}
  <2>1. u \in Live /\ u \notin completed
    BY DEF JoinBlock, find_thread, Live
  <2> QED BY <2>1 DEF Placed, PlaceKnown, Present, T!Is, T!Joining
<1>10. Places' = [Places EXCEPT ![t] = T!Joining(u)]
  BY <1>7, <1>8 DEF Places
<1>11. T!Join(t, u)
  BY <1>7, <1>9, <1>10 DEF T!Join, Places
<1> QED BY <1>11 DEF T!TNext, T!Thread, Thread

LEMMA WaitImplements ==
  ASSUME Placed, Placed', run_queue # <<>>,
         NEW t \in Thread, t = front(run_queue), LockBlock(t)
  PROVE  T!TNext
<1>1. /\ t \in Live /\ t \in Range(run_queue)
      /\ Range(run_queue') = Range(run_queue) \ {t}
  BY PopFacts DEF Types, Distinct, Placed, LockBlock
<1>2. Range(wait_queue') = Range(wait_queue) \cup {t}
  BY FrontWaits DEF Placed
<1>3. completed' = completed /\ join_queue' = join_queue /\ Live' = Live
  BY DEF LockBlock, Others, Live
<1>4. WhereIs(t) = T!Is("ready") /\ WhereIs(t)' = T!Is("waiting")
  BY <1>1, <1>2 DEF Placed, PlaceKnown
<1>5. ASSUME NEW x \in Thread, x # t
      PROVE  WhereIs(x)' = WhereIs(x)
  BY <1>5, <1>1, <1>2, <1>3 DEF Placed, PlaceKnown, Present
<1>6. Places' = [Places EXCEPT ![t] = T!Is("waiting")]
  BY <1>4, <1>5 DEF Places
<1>7. T!Wait(t)
  BY <1>4, <1>6 DEF T!Wait, Places
<1> QED BY <1>7 DEF T!TNext, T!Thread, Thread

LEMMA WakeImplements ==
  ASSUME Placed, Placed', wait_queue # <<>>,
         wait_queue' = pop(wait_queue),
         run_queue' = enqueue(run_queue, front(wait_queue)),
         UNCHANGED <<next_id, completed, join_queue>>,
         NEW w, w = front(wait_queue)
  PROVE  T!TNext
<1>1. /\ w \in Live /\ w \in Range(wait_queue) /\ w \in Thread
      /\ Range(wait_queue') = Range(wait_queue) \ {w}
  BY PopFacts, LiveInThread DEF Types, Distinct, Placed
<1>2. w \notin Range(run_queue) /\ NoRepeats(run_queue) /\ run_queue \in Seq(Live)
  BY <1>1 DEF Distinct, Types, Placed
<1>3. Range(run_queue') = Range(run_queue) \cup {w}
  BY <1>1, <1>2, EnqueueNew
<1>4. Live' = Live
  BY DEF Live
<1>5. WhereIs(w) = T!Is("waiting") /\ WhereIs(w)' = T!Is("ready")
  BY <1>1, <1>3 DEF Placed, PlaceKnown
<1>6. ASSUME NEW x \in Thread, x # w
      PROVE  WhereIs(x)' = WhereIs(x)
  BY <1>6, <1>1, <1>3, <1>4 DEF Placed, PlaceKnown, Present
<1>7. Places' = [Places EXCEPT ![w] = T!Is("ready")]
  BY <1>1, <1>5, <1>6 DEF Places
<1>8. T!Wake(w)
  BY <1>1, <1>5, <1>7 DEF T!Wake, Places
<1> QED BY <1>1, <1>8 DEF T!TNext, T!Thread, Thread

LEMMA InitImplements ==
  ASSUME MInit, Placed
  PROVE  T!TInit
<1>1. Live = {1} /\ 1 \in Thread
  BY MaxThreadsAssumption DEF MInit, Init, Live, Main, Thread
<1>2. 1 \in Range(run_queue)
  BY DEF MInit, Init, Main, Range
<1>3. WhereIs(1) = T!Is("ready") /\ \A x \in Thread : x # 1 => WhereIs(x) = T!Is("none")
  BY <1>1, <1>2 DEF Placed, PlaceKnown
<1> QED BY <1>3 DEF T!TInit, T!Thread, Thread

LEMMA StepImplements ==
  ASSUME OnePlaceInv, Placed, Placed', [MNext]_allvars
  PROVE  T!TNext \/ UNCHANGED Places
<1>0. ASSUME UNCHANGED <<run_queue, join_queue, wait_queue, completed>>
      PROVE  UNCHANGED Places
  BY <1>0, StutterImplements
<1>f. ASSUME NEW t \in Thread, InUser(t)
      PROVE  run_queue # <<>> /\ front(run_queue) = t
  BY <1>f, InUserFacts DEF OnePlaceInv
<1>1. ASSUME ComplyWithCancel, UNCHANGED mvars
      PROVE  T!TNext
  BY <1>1, CompleteImplements DEF ComplyWithCancel, mvars
<1>2. ASSUME SwitchTo \/ Underflow \/ MainReturn \/ UNCHANGED vars, UNCHANGED mvars
      PROVE  UNCHANGED Places
  BY <1>0, <1>2 DEF SwitchTo, Underflow, MainReturn, vars, mvars
<1>3. ASSUME NEW t \in Thread, ThreadStep(t), UNCHANGED mvars
      PROVE  T!TNext \/ UNCHANGED Places
  <2>1. CASE Create(t)
    BY <1>3, <2>1, CreateImplements DEF mvars
  <2>2. CASE Yield(t) \/ alrm_handler(t)
    <3>1. run_queue # <<>> /\ Rotate
      BY <2>2, <1>f DEF Yield, alrm_handler
    <3>2. /\ front(run_queue) \in Live /\ front(run_queue) \in Range(run_queue)
          /\ pop(run_queue) \in Seq(Live) /\ NoRepeats(pop(run_queue))
          /\ Range(pop(run_queue)) = Range(run_queue) \ {front(run_queue)}
      BY <3>1, PopFacts DEF Placed, Types, Distinct
    <3>3. /\ front(run_queue) \notin Range(pop(run_queue))
          /\ run_queue' = enqueue(pop(run_queue), front(run_queue))
      BY <3>1, <3>2 DEF Rotate
    <3>4. Range(run_queue') = Range(pop(run_queue)) \cup {front(run_queue)}
      BY <3>2, <3>3, EnqueueNew
    <3>5. Range(run_queue') = Range(run_queue)
      BY <3>2, <3>4
    <3> QED BY <1>3, <3>1, <3>5, StutterImplements DEF Rotate, mvars
  <2>3. CASE Exit(t)
    BY <1>3, <2>3, <1>f, CompleteImplements DEF Exit, mvars
  <2>4. CASE JoinReturn(t) \/ CancelStore(t)
    BY <1>3, <2>4, <1>0 DEF JoinReturn, CancelStore, mvars
  <2>5. ASSUME NEW u \in Thread, JoinBlock(t, u)
        PROVE  T!TNext
    BY <1>3, <2>5, <1>f, JoinImplements DEF JoinBlock, mvars
  <2>6. ASSUME NEW u \in Thread, JoinCompleted(t, u) \/ CancelFind(t, u)
        PROVE  UNCHANGED Places
    BY <1>3, <2>6, <1>0 DEF JoinCompleted, CancelFind, mvars
  <2> QED BY <1>3, <2>1, <2>2, <2>3, <2>4, <2>5, <2>6 DEF ThreadStep
<1>4. ASSUME NEW t \in Thread, MutexStep(t)
      PROVE  T!TNext \/ UNCHANGED Places
  <2>1. CASE LockFree(t) \/ LockReturn(t)
    BY <2>1, <1>0 DEF LockFree, LockReturn, Others, vars
  <2>2. CASE LockBlock(t)
    BY <2>2, <1>f, WaitImplements DEF LockBlock, InLib
  <2>3. CASE Unlock(t) /\ locked /\ wait_queue # <<>>
    BY <2>3, WakeImplements DEF Unlock, Others
  <2>4. CASE Unlock(t) /\ ~(locked /\ wait_queue # <<>>)
    BY <2>4, <1>0 DEF Unlock, Others
  <2>5. CASE Destroy(t) \/ MutexInit(t)
    <3>1. wait_queue = <<>>
      <4>1. ASSUME Destroy(t), wait_queue # <<>>
            PROVE  FALSE
        <5>1. front(wait_queue) \in Range(wait_queue) /\ front(wait_queue) \in Thread
          BY <4>1, PopFacts, LiveInThread DEF Types, Placed
        <5> QED BY <4>1, <5>1 DEF OnePlaceInv, Waiters, Destroy
      <4>2. MutexInit(t) => wait_queue = <<>>
        BY DEF MutexInit, Waiters, OnePlaceInv
      <4> QED BY <2>5, <4>1, <4>2
    <3> QED BY <2>5, <3>1, <1>0 DEF Destroy, MutexInit, vars
  <2> QED BY <1>4, <2>1, <2>2, <2>3, <2>4, <2>5 DEF MutexStep
<1> QED
  BY <1>1, <1>2, <1>3, <1>4 DEF MNext, Next, Schedule, Halted, allvars

(* Whatever the run queue, the join queues and the mutex's wait queue do,  *)
(* a thread goes only where gtthread.h lets it go: it is ready again when, *)
(* and as soon as, the thread it joined is over, and waits for the mutex   *)
(* until it is woken.                                                      *)
THEOREM QueuesImplementThreads == MSpec => ImplementsThreads
<1>1. MInit => OnePlaceInv
  BY InitTypes, InitOnePlace DEF OnePlaceInv
<1>2. OnePlaceInv /\ [MNext]_allvars => OnePlaceInv'
  BY NextOnePlace
<1>3. OnePlaceInv => Placed
  BY WherePlaced DEF OnePlaceInv, Placed
<1>4. MInit /\ Placed => T!TInit
  BY InitImplements
<1>5. OnePlaceInv /\ Placed /\ Placed' /\ [MNext]_allvars => [T!TNext]_Places
  BY StepImplements
<1>6. OnePlaceInv /\ Placed /\ Placed' /\ [MNext]_allvars
        => [T!TNext]_([t \in Thread |-> WhereIs(t)])
  BY <1>5 DEF Places
<1> QED
  BY <1>1, <1>2, <1>3, <1>4, <1>6, PTL DEF MSpec, ImplementsThreads, T!TSpec

=============================================================================
