------------------------------- MODULE Cache -------------------------------
(***************************************************************************)
(* src/proxy-server/lru.c, lfu.c, rnd.c, lrumin.c: four caches that differ *)
(* in the order in which they evict.  Each keeps the entries in an array,  *)
(* the free places of the array in a stack, a hash table from URL to place *)
(* and a queue of the occupied places: a heap by time of the last access   *)
(* (lru) or by number of hits (lfu), a queue dequeued at random (rnd), or  *)
(* one heap by time for each band of sizes (lrumin).                       *)
(* gtcache_set takes one step per turn of its loop of evictions.           *)
(*                                                                         *)
(* As in cache_perform.c, a key is set only after a get has missed it.     *)
(***************************************************************************)
EXTENDS Integers, Sequences, FiniteSets, FiniteSetsExt

CONSTANTS
  Url,              \* the keys
  Sizes,            \* the sizes of values
  capacity, min_entry_size,
  Hashes,           \* hash values, of Url's 0 .. 2 * max_entries - 1
  MaxTime,          \* bound: ticks of the clock (lru, lrumin)
  MaxHits,          \* bound: hits of an entry (lfu)
  IntHalf,          \* half the range of int, in ticks of the clock
  SizeBits,         \* bits of a size_t
  NULL

(* 1 << i *)
shift[i \in 0 .. SizeBits + 1] == IF i = 0 THEN 1 ELSE 2 * shift[i - 1]

max_entries == capacity \div min_entry_size
Id == 0 .. max_entries - 1

ASSUME CapacityAssumption ==
  /\ {capacity, min_entry_size} \subseteq Nat \ {0}
  /\ max_entries > 0 /\ Sizes \subseteq Nat \ {0} /\ Sizes # {}
(* The URLs are ASCII: where char is signed, hshtbl_hv gives a byte from   *)
(* 0x80 on a negative value, and the hash can be a negative slot.          *)
ASSUME HashesAssumption == Hashes \subseteq 0 .. 2 * max_entries - 1
ASSUME NullAssumption == NULL \notin Url \cup Id
ASSUME BoundsAssumption == {MaxTime, MaxHits, IntHalf, SizeBits} \subseteq Nat \ {0}
ASSUME SizeBitsAssumption ==
  capacity < shift[SizeBits] /\ \A size \in Sizes : size < shift[SizeBits]

ASSUME CallAssumption ==
  NULL \notin [url : Url, size : Sizes]
         \cup [url : Url, size : Sizes, eviction_size : 0 .. shift[SizeBits] - 1]

INSTANCE IndexMinPQ
H == INSTANCE HashTable WITH M <- 2 * max_entries

(* lrumin.c sorts sizes into bands; band i ends below 2^(i+1) * min_entry_size.*)
get_band(size) == Min({i \in 1 .. SizeBits : size < shift[i] * min_entry_size}) - 1

(* The driver asks for as many bands as the largest value needs. *)
mutant_num_bands == Min({i \in 1 .. SizeBits + 1 : min_entry_size * shift[i] >= Max(Sizes)})
num_bands == Min({i \in 1 .. SizeBits + 1 : min_entry_size * shift[i - 1] >= Max(Sizes)})

VARIABLES
  policy,    \* which of the four files is linked
  hv,        \* the hash value of every key
  tbl,       \* url_to_id_tbl
  queues,    \* id_by_time_pq, id_by_hits_pq or id_by_rnd: one, or one per band
  free_ids,  \* a stack, its top first
  entries,   \* entries[id]: url and size; the size of a free place is 0
  num_entries, mem_used,
  now,       \* the clock
  call,      \* the gtcache_set in progress, or NULL
  worth      \* history: what the policy says of every cached URL

cache == <<tbl, queues, free_ids, entries, num_entries, mem_used>>
vars == <<policy, hv, cache, now, call, worth>>

FreeEntry == [url |-> NULL, size |-> 0]

Band == IF policy = "lrumin" THEN 0 .. num_bands - 1 ELSE {0}
band_of(size) == IF policy = "lrumin" THEN get_band(size) ELSE 0

(* What gtcache_init leaves. *)
Fresh ==
  [tbl |-> H!EmptyTable, queues |-> [b \in Band |-> EmptyPQ(Id)], free_ids |-> [i \in 1 .. max_entries |-> i - 1],
   entries |-> [id \in Id |-> FreeEntry]]

Init ==
  /\ policy \in {"lru", "lfu", "rnd", "lrumin"}
  /\ hv \in [Url -> Hashes]
  /\ tbl = Fresh.tbl /\ queues = Fresh.queues
  /\ free_ids = Fresh.free_ids /\ entries = Fresh.entries
  /\ num_entries = 0 /\ mem_used = 0
  /\ now = 1
  /\ call = NULL
  /\ worth = [u \in Url |-> 0]

(* gtcache_destroy and another gtcache_init. *)
Reinit ==
  /\ call = NULL
  /\ tbl' = Fresh.tbl /\ queues' = Fresh.queues
  /\ free_ids' = Fresh.free_ids /\ entries' = Fresh.entries
  /\ num_entries' = 0 /\ mem_used' = 0
  /\ worth' = [u \in Url |-> 0]
  /\ UNCHANGED <<policy, hv, now, call>>

(* What gettimeofday may return: two calls may see the same time.  Nobody  *)
(* sets the clock back: a later time is never smaller than an earlier one. *)
Clock == now .. (IF now < MaxTime THEN now + 1 ELSE now)

(* gtcache_get of a cached URL; a miss changes nothing.  The entry gets a  *)
(* new key in its heap: the time, or one hit more.                         *)
place(u) == H!hshtbl_get(tbl, hv, u)

Touch(u, key, t) ==
  /\ call = NULL /\ place(u) # NULL
  /\ LET b == band_of(entries[place(u)].size) IN
     queues' = [queues EXCEPT ![b] = indexminpq_increasekey(@, place(u), key)]
  /\ now' = t
  /\ worth' = [worth EXCEPT ![u] = key]
  /\ UNCHANGED <<policy, hv, tbl, free_ids, entries, num_entries, mem_used, call>>

lru_get(u, t) == policy = "lru" /\ Touch(u, t, t)

lrumin_get(u, t) == policy = "lrumin" /\ Touch(u, t, t)

lfu_get(u) ==
  /\ policy = "lfu" /\ place(u) # NULL
  /\ LET hits == queues[0].keys[place(u)] + 1 IN hits <= MaxHits /\ Touch(u, hits, now)

rnd_get(u) == policy = "rnd" /\ call = NULL /\ place(u) # NULL /\ UNCHANGED vars

BeginSet(u, size) ==
  /\ call = NULL /\ H!hshtbl_get(tbl, hv, u) = NULL
  /\ call' = [url |-> u, size |-> size, eviction_size |-> size]
  /\ UNCHANGED <<policy, hv, cache, now, worth>>

mutant_need_eviction(size) == num_entries >= max_entries
need_eviction(size) == num_entries >= max_entries \/ mem_used + size > capacity

(* Give up the entry at id, which is off the queue of band b: q is left.   *)
mutant_evicts_last(b, id, q) ==
  /\ call # NULL /\ need_eviction(call.size)
  /\ LET last == queues[b].pq[Len(queues[b].pq)] IN
     /\ queues' = [queues EXCEPT ![b].pq = SubSeq(@, 1, Len(@) - 1), ![b].qp[last] = -1]
     /\ tbl' = H!hshtbl_delete(tbl, hv, entries[last].url)
     /\ free_ids' = <<last>> \o free_ids
     /\ entries' = [entries EXCEPT ![last] = FreeEntry]
     /\ mem_used' = mem_used - entries[last].size
     /\ worth' = [worth EXCEPT ![entries[last].url] = 0]
  /\ num_entries' = num_entries - 1
  /\ UNCHANGED <<policy, hv, now>>

Evict(b, id, q) ==
  /\ call # NULL /\ need_eviction(call.size)
  /\ queues' = [queues EXCEPT ![b] = q]
  /\ tbl' = H!hshtbl_delete(tbl, hv, entries[id].url)
  /\ free_ids' = <<id>> \o free_ids
  /\ entries' = [entries EXCEPT ![id] = FreeEntry]
  /\ mem_used' = mem_used - entries[id].size
  /\ num_entries' = num_entries - 1
  /\ worth' = [worth EXCEPT ![entries[id].url] = 0]
  /\ UNCHANGED <<policy, hv, now>>

(* The minimum of a heap; its key is freed. *)
EvictMin(b) ==
  /\ queues[b].pq # <<>>
  /\ LET id == indexminpq_minindex(queues[b]) IN
     Evict(b, id, [indexminpq_delmin(queues[b]) EXCEPT !.keys[id] = 0])

lru_evict == policy = "lru" /\ EvictMin(0) /\ UNCHANGED call

lfu_evict == policy = "lfu" /\ EvictMin(0) /\ UNCHANGED call

(* rand() picks an index, and the last one of the queue moves into the gap.*)
indexrndq_dequeue(q, id) ==
  LET n == Len(q.pq) IN
  [exch(q, q.qp[id], n) EXCEPT !.pq = SubSeq(@, 1, n - 1), !.qp[id] = -1]

rnd_evict(id) ==
  /\ policy = "rnd" /\ queues[0].qp[id] # -1
  /\ Evict(0, id, indexrndq_dequeue(queues[0], id))
  /\ UNCHANGED call

(* The band that lrumin evicts from: the first that is not empty of the    *)
(* larger ones upwards, then of the band of eviction_size downwards.       *)
mutant_search(b) == [k \in 1 .. num_bands |-> IF k <= b + 1 THEN b + 1 - k ELSE k - 1]
mutant_search_no_smaller(b) == [k \in 1 .. num_bands |-> IF b + k < num_bands THEN b + k ELSE b]
search(b) == [k \in 1 .. num_bands |-> IF b + k < num_bands THEN b + k ELSE num_bands - k]

tgt_band ==
  LET order == search(get_band(call.eviction_size))
      filled == {k \in 1 .. num_bands : queues[order[k]].pq # <<>>}
  IN  IF filled = {} THEN {} ELSE {order[Min(filled)]}

lrumin_evict ==
  /\ policy = "lrumin" /\ call # NULL /\ need_eviction(call.size)
  /\ \E b \in tgt_band :
       /\ EvictMin(b)
       /\ LET victim == entries[indexminpq_minindex(queues[b])] IN
          call' = [call EXCEPT !.eviction_size = (@ - victim.size) % shift[SizeBits]]

(* The caches give up when they find nothing to evict. *)
Refuse ==
  /\ call # NULL /\ need_eviction(call.size)
  /\ IF policy = "lrumin" THEN tgt_band = {} ELSE queues[0].pq = <<>>
  /\ call' = NULL
  /\ UNCHANGED <<policy, hv, cache, now, worth>>

Insert(key, t) ==
  /\ call # NULL /\ ~need_eviction(call.size)
  /\ LET id == Head(free_ids)
     IN  /\ entries' = [entries EXCEPT ![id] = [url |-> call.url, size |-> call.size]]
         /\ tbl' = H!hshtbl_put(tbl, hv, call.url, id)
         /\ queues' = [queues EXCEPT ![band_of(call.size)] = indexminpq_insert(@, id, key)]
  /\ worth' = [worth EXCEPT ![call.url] = key]
  /\ free_ids' = Tail(free_ids)
  /\ mem_used' = mem_used + call.size
  /\ num_entries' = num_entries + 1
  /\ now' = t
  /\ call' = NULL
  /\ UNCHANGED <<policy, hv>>

lru_insert(t) == policy = "lru" /\ Insert(t, t)

lrumin_insert(t) == policy = "lrumin" /\ Insert(t, t)

lfu_insert == policy = "lfu" /\ Insert(1, now)

rnd_insert == policy = "rnd" /\ Insert(0, now)

Next ==
  \/ Reinit \/ Refuse
  \/ \E u \in Url, t \in Clock : lru_get(u, t) \/ lrumin_get(u, t)
  \/ \E u \in Url : lfu_get(u) \/ rnd_get(u) \/ \E size \in Sizes : BeginSet(u, size)
  \/ lru_evict \/ lfu_evict \/ lrumin_evict \/ \E id \in Id : rnd_evict(id)
  \/ \E t \in Clock : lru_insert(t) \/ lrumin_insert(t)
  \/ lfu_insert \/ rnd_insert

Spec == Init /\ [][Next]_vars

-----------------------------------------------------------------------------
(* Properties. *)

(* Types; the hash table never holds more keys than the cache has places.  *)
TypeOK ==
  /\ tbl.N \in 0 .. max_entries
  /\ DOMAIN queues = Band
  /\ \A b \in Band : /\ queues[b].pq \in Seq(Id)
                     /\ queues[b].qp \in [Id -> {-1} \cup 1 .. max_entries]
  /\ free_ids \in Seq(Id)
  /\ entries \in [Id -> [url : Url \cup {NULL}, size : Sizes \cup {0}]]
  /\ now \in 1 .. MaxTime
  /\ call \in {NULL} \cup [url : Url, size : Sizes, eviction_size : 0 .. shift[SizeBits] - 1]

Cached(u) == {id \in Id : entries[id].url = u}
InFreeList(id) == {k \in DOMAIN free_ids : free_ids[k] = id}

(* The structures agree after any sequence of sets, gets and evictions: a  *)
(* URL is found exactly when it has a place, in spite of colliding keys    *)
(* and of deletions from the middle of a run; a place is either free,      *)
(* once, or queued, once, and in the band of its entry.                    *)
StructuresAgree ==
  /\ \A u \in Url :
       \/ Cached(u) = {} /\ place(u) = NULL
       \/ Cached(u) = {place(u)}
  /\ \A id \in Id, b \in Band :
       LET queued == {k \in DOMAIN queues[b].pq : queues[b].pq[k] = id} IN
       IF entries[id].url # NULL /\ b = band_of(entries[id].size)
         THEN queued = {queues[b].qp[id]}
         ELSE queued = {} /\ queues[b].qp[id] = -1
  /\ \A id \in Id : Cardinality(InFreeList(id)) = (IF entries[id].url = NULL THEN 1 ELSE 0)
  /\ tbl.N = num_entries

(* "The sum of the sizes of the entries should be no larger than           *)
(* capacity", and gtcache_memused returns that sum (gtcache.h).            *)
MemoryBounded ==
  /\ mem_used = MapThenSumSet(LAMBDA id : entries[id].size, Id)
  /\ mem_used <= capacity
  /\ num_entries = Cardinality({id \in Id : entries[id].size > 0})

(* A heap is a heap of the values the policy goes by: an access moves an   *)
(* entry down only, because a key never gets smaller.  This is for times   *)
(* that keycmp can compare (IntHalf): it is false for times further apart. *)
HeapOrder ==
  \A b \in Band : LET q == queues[b] IN
    /\ \A k \in 2 .. Len(q.pq) : q.keys[q.pq[k \div 2]] <= q.keys[q.pq[k]]
    /\ \A k \in DOMAIN q.pq : q.keys[q.pq[k]] = worth[entries[q.pq[k]].url]

(* lrumin.c looks for its victims only in bands that gtcache_init has      *)
(* allocated: the driver asks for enough of them, and eviction_size, which *)
(* is unsigned and wraps when the last victim is larger than what was      *)
(* still needed, is not used again after that.                             *)
BandAllocated ==
  policy = "lrumin" /\ call # NULL /\ need_eviction(call.size)
    => get_band(call.eviction_size) \in Band

(* The entry evicted is the least recently used one (lru.c), the one with  *)
(* the fewest hits (lfu.c), the least recently used of its band (lrumin.c),*)
(* as long as all times are within half the range of int of each other.    *)
(* That is less than the files promise.  lru.c (lines 6-7) evicts "the     *)
(* entry [...] with the least recent access", however long ago that was;   *)
(* keycmp (line 67) compares times more than 35 minutes apart the wrong way*)
(* round.  lrumin.c (lines 9-15) deletes the least recently used of all    *)
(* entries that are large enough, and the code that of the first such band.*)
size_of(u) == entries[CHOOSE id \in Cached(u) : TRUE].size

EvictsLeast ==
  [][\A u, v \in Url :
       call # NULL
         /\ Cached(u) # {} /\ Cached(u)' = {}
         /\ Cached(v) # {} /\ Cached(v)' # {}
         /\ band_of(size_of(u)) = band_of(size_of(v))
       => worth[u] <= worth[v]]_vars

(* What LRUMIN is for: when an entry of a larger band is cached, one       *)
(* eviction is all it takes to make room, however full the cache is.       *)
LargerVictimSuffices ==
  [][policy = "lrumin" /\ call # NULL /\ num_entries' < num_entries
       /\ (\E id \in Id : entries[id].url # NULL
             /\ get_band(entries[id].size) > get_band(call.eviction_size))
       => ~need_eviction(call.size)']_vars

(* The four caches implement the store that gtcache.h promises, whose      *)
(* contents are what gtcache_get finds: no set, get, eviction or search    *)
(* through colliding keys makes another key appear or disappear, an entry  *)
(* is given up only while there is no room for the value of the call, and  *)
(* a value that fits into the cache is never refused.                      *)
found(u) == LET id == place(u) IN IF id = NULL THEN 0 ELSE entries[id].size

Contents == [u \in Url |-> found(u)]
Pending == IF call = NULL THEN NULL ELSE [url |-> call.url, size |-> call.size]

Store == INSTANCE CacheStore WITH contents <- Contents, memused <- mem_used, pending <- Pending
ImplementsStore == Store!SSpec

=============================================================================
