----------------------------- MODULE MpiBarrier -----------------------------
(***************************************************************************)
(* src/barrier/gtmpi_counter.c, gtmpi_dissemination.c, gtmpi_tournament.c: *)
(* three barriers for processes that exchange messages.  A call of         *)
(* gtmpi_barrier is a list of MPI_Send and MPI_Recv that depends on the    *)
(* rank only; a behaviour is one of the three programs, linked with the    *)
(* same hello_gtmpi.c.  The one byte that is sent is never looked at.      *)
(*                                                                         *)
(* MPI delivers the messages of one sender to one receiver in order, and   *)
(* MPI_Send may return when the message is buffered or only when it has    *)
(* been received: a behaviour has the one or the other.                    *)
(***************************************************************************)
EXTENDS Integers, Sequences, SequencesExt

CONSTANTS
  num_procs,   \* the MPI processes, ranks from 0
  Episodes     \* bound: how often each of them calls gtmpi_barrier

(* With one process the tournament reads rounds[0][1], which is not there. *)
ASSUME NumProcsAssumption == num_procs \in Nat /\ num_procs >= 2
ASSUME EpisodesAssumption == Episodes \in Nat

(* What powers of two are, for the provers, to which 2 ^ i is a name. *)
ASSUME PowersAssumption ==
  2 ^ 0 = 1 /\ \A i \in 0 .. num_procs : 2 ^ (i + 1) = 2 * 2 ^ i

Proc == 0 .. num_procs - 1

VARIABLES
  program,    \* the barrier that is linked
  buffered,   \* whether MPI_Send buffers
  channel,    \* channel[<<p, q>>]: messages from p that q has not received
  sending,    \* processes in an MPI_Send that waits for its receiver
  pc,         \* the operation p is at in its call, 0 outside of the barrier
  cur_bar,    \* cur_bar[p]: calls that p has finished, counted by p
  entered, left   \* history of calls and returns, as in Barrier

vars == <<program, buffered, channel, sending, pc, cur_bar, entered, left>>

-----------------------------------------------------------------------------
(* The lists of operations. *)

Send(q, tag) == [do |-> "send", peer |-> q, tag |-> tag]
Recv(q, tag) == [do |-> "recv", peer |-> q, tag |-> tag]

(* Everybody signals rank 0, which then signals everybody. *)
mutant_counter == [p \in Proc |->
  IF p = 0
    THEN [k \in 1 .. 2 * (num_procs - 1) |-> IF k < num_procs THEN Send(k, 1) ELSE Recv(k - num_procs + 1, 1)]
    ELSE <<Send(0, 1), Recv(0, 1)>>]

counter == [p \in Proc |->
  IF p = 0
    THEN [k \in 1 .. 2 * (num_procs - 1) |-> IF k < num_procs THEN Recv(k, 1) ELSE Send(k - num_procs + 1, 1)]
    ELSE <<Send(0, 1), Recv(0, 1)>>]

ceillog2(val) == CHOOSE i \in 0 .. val : 2 ^ i >= val /\ \A j \in 0 .. i - 1 : 2 ^ j < val

(* In round i a message goes 2^i ranks up and one comes from 2^i below. *)
mutant_dissemination == [p \in Proc |-> [bar \in 0 .. Episodes |->
  LET rounds == ceillog2(num_procs) IN
  [k \in 1 .. 2 * rounds |->
    LET i == (k - 1) \div 2 IN
    IF k % 2 = 1 THEN Send((p + 2 ^ i) % num_procs, i + bar * rounds)
                 ELSE Recv((p + 2 ^ i) % num_procs, i + bar * rounds)]]]

dissemination == [p \in Proc |-> [bar \in 0 .. Episodes |->
  LET rounds == ceillog2(num_procs) IN
  [k \in 1 .. 2 * rounds |->
    LET i == (k - 1) \div 2 IN
    IF k % 2 = 1 THEN Send((p + 2 ^ i) % num_procs, i + bar * rounds)
                 ELSE Recv((p - 2 ^ i + num_procs) % num_procs, i + bar * rounds)]]]

(* gtmpi_init of the tournament: who wins is fixed in advance. *)
role(i, j) ==
  CASE j = 0 -> "dropout"
    [] j > 0 /\ i % 2 ^ j = 0 /\ i + 2 ^ (j - 1) < num_procs /\ 2 ^ j < num_procs -> "winner"
    [] j > 0 /\ i % 2 ^ j = 0 /\ i + 2 ^ (j - 1) >= num_procs -> "bye"
    [] j > 0 /\ i % 2 ^ j = 2 ^ (j - 1) -> "loser"
    [] j > 0 /\ i = 0 /\ i + 2 ^ (j - 1) < num_procs /\ 2 ^ j >= num_procs -> "champion"
    [] OTHER -> "none"

opponent(i, j) == IF role(i, j) = "loser" THEN i - 2 ^ (j - 1) ELSE i + 2 ^ (j - 1)

(* A process goes up while it wins, and stops where it loses.  Then it     *)
(* comes down again and answers, in each of its rounds.                    *)
lastround(p) ==
  CHOOSE j \in 1 .. ceillog2(num_procs) :
    /\ role(p, j) \in {"loser", "champion"}
    /\ \A h \in 1 .. j - 1 : role(p, h) \notin {"loser", "champion"}

Bye(p) == [do |-> "bye", peer |-> p, tag |-> 0]

arrival(p, j) == CASE role(p, j) = "loser" -> Send(opponent(p, j), 0)
                   [] role(p, j) \in {"winner", "champion"} -> Recv(opponent(p, j), 0)
                   [] OTHER -> Bye(p)

mutant_wakeup(p, j) == CASE role(p, j) \in {"winner", "champion"} -> Send(opponent(p, j), 0)
                         [] OTHER -> Bye(p)

wakeup(p, j) == CASE role(p, j) = "loser" -> Recv(opponent(p, j), 0)
                  [] role(p, j) \in {"winner", "champion"} -> Send(opponent(p, j), 0)
                  [] OTHER -> Bye(p)

tournament == [p \in Proc |->
  LET last == lastround(p) IN
  [k \in 1 .. 2 * last |-> IF k <= last THEN arrival(p, k) ELSE wakeup(p, 2 * last + 1 - k)]]

Program == {"counter", "dissemination", "tournament"}
operations(prog, p, bar) == CASE prog = "counter" -> counter[p]
                              [] prog = "dissemination" -> dissemination[p][bar]
                              [] prog = "tournament" -> tournament[p]

(* The list that p goes through in its call. *)
ops(p) == operations(program, p, cur_bar[p])

-----------------------------------------------------------------------------

Init ==
  /\ program \in Program
  /\ buffered \in BOOLEAN
  /\ channel = [c \in Proc \X Proc |-> <<>>]
  /\ sending = {}
  /\ pc = [p \in Proc |-> 0]
  /\ cur_bar = [p \in Proc |-> 0]
  /\ entered = [p \in Proc |-> 0]
  /\ left = [p \in Proc |-> 0]

Call(p) ==
  /\ pc[p] = 0 /\ entered[p] < Episodes
  /\ pc' = [pc EXCEPT ![p] = 1]
  /\ entered' = [entered EXCEPT ![p] = @ + 1]
  /\ UNCHANGED <<program, buffered, channel, sending, cur_bar, left>>

At(p, do) == pc[p] # 0 /\ ops(p)[pc[p]].do = do

(* p has finished an operation and goes on, or returns after the last one. *)
mutant_goon(p) ==
  /\ pc' = [pc EXCEPT ![p] = @ + 1]
  /\ UNCHANGED <<cur_bar, left>>

goon(p) ==
  IF pc[p] < Len(ops(p))
    THEN /\ pc' = [pc EXCEPT ![p] = @ + 1]
         /\ UNCHANGED <<cur_bar, left>>
    ELSE /\ pc' = [pc EXCEPT ![p] = 0]
         /\ cur_bar' = [cur_bar EXCEPT ![p] = @ + 1]
         /\ left' = [left EXCEPT ![p] = @ + 1]

post(p) ==
  LET op == ops(p)[pc[p]] IN
  channel' = [channel EXCEPT ![<<p, op.peer>>] = Append(@, [tag |-> op.tag, ep |-> entered[p]])]

SendBuffered(p) ==
  /\ At(p, "send") /\ buffered
  /\ post(p)
  /\ goon(p)
  /\ UNCHANGED <<program, buffered, sending, entered>>

(* MPI_Send without a buffer posts the message, and returns when it has    *)
(* been received.                                                          *)
SendBegin(p) ==
  /\ At(p, "send") /\ ~buffered /\ p \notin sending
  /\ post(p)
  /\ sending' = sending \cup {p}
  /\ UNCHANGED <<program, buffered, pc, cur_bar, entered, left>>

SendEnd(p) ==
  /\ p \in sending /\ channel[<<p, ops(p)[pc[p]].peer>>] = <<>>
  /\ sending' = sending \ {p}
  /\ goon(p)
  /\ UNCHANGED <<program, buffered, channel, entered>>

(* MPI_Recv takes the first message of its source that has its tag. *)
Matching(p) ==
  LET op == ops(p)[pc[p]]
      c == channel[<<op.peer, p>>]
  IN  {i \in DOMAIN c : c[i].tag = op.tag /\ \A j \in 1 .. i - 1 : c[j].tag # op.tag}

Receive(p) ==
  /\ At(p, "recv")
  /\ \E i \in Matching(p) :
       channel' = [channel EXCEPT ![<<ops(p)[pc[p]].peer, p>>] = RemoveAt(@, i)]
  /\ goon(p)
  /\ UNCHANGED <<program, buffered, sending, entered>>

(* A round of the tournament without an opponent. *)
Pass(p) ==
  /\ At(p, "bye")
  /\ goon(p)
  /\ UNCHANGED <<program, buffered, channel, sending, entered>>

Step(p) == SendBuffered(p) \/ SendBegin(p) \/ SendEnd(p) \/ Receive(p) \/ Pass(p)

Next == \E p \in Proc : Call(p) \/ Step(p)

Spec == Init /\ [][Next]_vars

(* Each process runs, and MPI delivers what has been sent. *)
FairSpec == Spec /\ \A p \in Proc : WF_vars(Step(p))

-----------------------------------------------------------------------------
(* Properties. *)

Message == [tag : Nat, ep : 1 .. Episodes]

(* Types; a process is at an operation of its list. *)
TypeOK ==
  /\ program \in Program
  /\ buffered \in BOOLEAN
  /\ channel \in [Proc \X Proc -> Seq(Message)]
  /\ sending \subseteq Proc
  /\ pc \in [Proc -> Nat] /\ \A p \in Proc : pc[p] <= Len(ops(p))
  /\ cur_bar \in [Proc -> 0 .. Episodes]
  /\ entered \in [Proc -> 0 .. Episodes]
  /\ left \in [Proc -> 0 .. Episodes]

(* Although two of the programs use the same tag for every message and     *)
(* fast processes send for the next episode already, a message is received *)
(* in the episode in which it was sent, and none is left over.             *)
MessagesMatch ==
  \A p, q \in Proc :
    /\ \A i \in DOMAIN channel[<<p, q>>] : channel[<<p, q>>][i].ep \in left[q] + 1 .. left[q] + 2
    /\ At(q, "recv") /\ ops(q)[pc[q]].peer = p
         => \A i \in Matching(q) : channel[<<p, q>>][i].ep = entered[q]

(* The three programs implement the barrier.  They are live when MPI_Send  *)
(* buffers; counter and tournament do not even rely on that.               *)
Abstract == INSTANCE Barrier WITH Thread <- Proc
ImplementsBarrier == Abstract!BSpec
BarrierLiveness ==
  buffered \/ program # "dissemination" =>
    \A p \in Proc : WF_<<entered, left>>(Abstract!Leave(p))

=============================================================================
