----------------------------- MODULE IndexMinPQ -----------------------------
(***************************************************************************)
(* src/proxy-server/indexminpq.c: a binary heap of indices ordered by      *)
(* their keys, as operators on a record [pq, qp, keys]: pq is the heap,    *)
(* qp[i] the place of index i in it, or -1.                                *)
(***************************************************************************)
EXTENDS Integers, Sequences, Loop

CONSTANT IntHalf   \* an int is in -IntHalf .. IntHalf - 1

EmptyPQ(Index) == [pq |-> <<>>, qp |-> [i \in Index |-> -1], keys |-> [i \in Index |-> 0]]

(* keycmp of lru.c and lfu.c: the difference of two keys, as an int. *)
keycmp(x, y) == ((x - y + IntHalf) % (2 * IntHalf)) - IntHalf

greater(q, i, j) == keycmp(q.keys[q.pq[i]], q.keys[q.pq[j]]) > 0

exch(q, i, j) ==
  LET pq == [q.pq EXCEPT ![i] = q.pq[j], ![j] = q.pq[i]] IN
  [q EXCEPT !.pq = pq, !.qp = [@ EXCEPT ![pq[i]] = i, ![pq[j]] = j]]

(* The loops of swim and sink; s holds the queue and the index k.  A loop  *)
(* has no more turns than the heap has places.                             *)
swim_turn(s) ==
  IF s.k > 1 /\ greater(s.q, s.k \div 2, s.k)
    THEN [q |-> exch(s.q, s.k, s.k \div 2), k |-> s.k \div 2] ELSE s

swim(q, k) == Repeat(swim_turn, [q |-> q, k |-> k], Len(q.pq)).q

smaller_child(q, k) ==
  IF 2 * k < Len(q.pq) /\ greater(q, 2 * k, 2 * k + 1) THEN 2 * k + 1 ELSE 2 * k

sink_turn(s) ==
  LET j == smaller_child(s.q, s.k) IN
  IF 2 * s.k <= Len(s.q.pq) /\ greater(s.q, s.k, j)
    THEN [q |-> exch(s.q, s.k, j), k |-> j] ELSE s

sink(q, k) == Repeat(sink_turn, [q |-> q, k |-> k], Len(q.pq)).q

indexminpq_contains(q, i) == q.qp[i] # -1

indexminpq_insert(q, i, key) ==
  swim([pq   |-> Append(q.pq, i),
        qp   |-> [q.qp EXCEPT ![i] = Len(q.pq) + 1],
        keys |-> [q.keys EXCEPT ![i] = key]],
       Len(q.pq) + 1)

indexminpq_minindex(q) == q.pq[1]

indexminpq_delmin(q) ==
  LET last == exch(q, 1, Len(q.pq))
      rest == sink([last EXCEPT !.pq = SubSeq(@, 1, Len(@) - 1)], 1)
  IN  [rest EXCEPT !.qp[q.pq[1]] = -1]

(* indexminpq_increasekey.  Its check of the new key has the wrong sign;   *)
(* it never fails because the callers change the key in place before the   *)
(* call, so that it is compared with itself.                               *)
mutant_no_sink(q, i, key) == [q EXCEPT !.keys[i] = key]

indexminpq_increasekey(q, i, key) == sink([q EXCEPT !.keys[i] = key], q.qp[i])

=============================================================================
