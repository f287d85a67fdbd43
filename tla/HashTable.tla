----------------------------- MODULE HashTable -----------------------------
(***************************************************************************)
(* src/proxy-server/hshtbl.c: a hash table with open addressing and linear *)
(* probing, as operators on a record [keys, items, N].  hv is the hash     *)
(* function; the length of the arrays is M.                                *)
(***************************************************************************)
EXTENDS Integers, Loop

CONSTANTS
  M,      \* slots, at least one
  NULL    \* no key, no item

Slot == 0 .. M - 1

EmptyTable == [keys |-> [j \in Slot |-> NULL], items |-> [j \in Slot |-> NULL], N |-> 0]

(* The slots that a probe for key visits, in order. *)
probes(hv, key) == [k \in 1 .. M |-> (hv[key] + k - 1) % M]

(* Where the probe for key ends: at its slot or at a free one; none when   *)
(* the table is full of other keys.                                        *)
landing(h, hv, key) ==
  LET p == probes(hv, key)
      ends(k) == h.keys[p[k]] \in {key, NULL}
      last == CHOOSE k \in 1 .. M : ends(k) /\ \A i \in 1 .. k - 1 : ~ends(i)
  IN  IF \E k \in 1 .. M : ends(k) THEN {p[last]} ELSE {}

hshtbl_get(h, hv, key) ==
  LET at == landing(h, hv, key) IN
  IF \E j \in at : h.keys[j] = key THEN h.items[CHOOSE j \in at : TRUE] ELSE NULL

(* The caller has seen that there is a free slot. *)
hshtbl_put(h, hv, key, item) ==
  LET j == CHOOSE j \in landing(h, hv, key) : TRUE IN
  [keys  |-> [h.keys EXCEPT ![j] = key],
   items |-> [h.items EXCEPT ![j] = item],
   N     |-> IF h.keys[j] = NULL THEN h.N + 1 ELSE h.N]

mutant_vacate_keeps_N(h, j) ==
  [keys |-> [h.keys EXCEPT ![j] = NULL], items |-> [h.items EXCEPT ![j] = NULL], N |-> h.N]

vacate(h, j) ==
  [keys |-> [h.keys EXCEPT ![j] = NULL], items |-> [h.items EXCEPT ![j] = NULL], N |-> h.N - 1]

(* A turn of the loop in hshtbl_delete: the entry at slot s.j is put again.*)
rehash_turn(hv, s) ==
  IF s.h.keys[s.j] = NULL THEN s
  ELSE [h |-> hshtbl_put(vacate(s.h, s.j), hv, s.h.keys[s.j], s.h.items[s.j]), j |-> (s.j + 1) % M]

(* hshtbl_delete frees the slot and puts the rest of the run back, one     *)
(* entry at a time, so that no probe ends at the hole.                     *)
mutant_no_rehash(h, hv, key) ==
  IF hshtbl_get(h, hv, key) = NULL THEN h
  ELSE vacate(h, CHOOSE j \in landing(h, hv, key) : TRUE)

hshtbl_delete(h, hv, key) ==
  IF hshtbl_get(h, hv, key) = NULL THEN h
  ELSE LET j == CHOOSE j \in landing(h, hv, key) : TRUE
           turn(s) == rehash_turn(hv, s)
       IN  Repeat(turn, [h |-> vacate(h, j), j |-> (j + 1) % M], M).h

=============================================================================
