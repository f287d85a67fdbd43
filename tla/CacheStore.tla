----------------------------- MODULE CacheStore -----------------------------
(***************************************************************************)
(* What the callers of src/proxy-server/gtcache.h can see of a cache,      *)
(* whatever its policy and its data structures: each key has one value or  *)
(* none; a gtcache_set in progress gives up keys, one after another, as    *)
(* long as there is no room and no longer, and then stores its value,      *)
(* unless the value is larger than the whole cache.                        *)
(***************************************************************************)
EXTENDS Integers, FiniteSets

CONSTANTS Url, Sizes, capacity, max_entries, NULL

VARIABLES
  contents,   \* contents[u]: the size of the value that gtcache_get finds, 0 if none
  memused,    \* what gtcache_memused returns
  pending     \* the gtcache_set in progress, or NULL

svars == <<contents, memused, pending>>

Empty == [u \in Url |-> 0]

SInit == contents = Empty /\ memused = 0 /\ pending = NULL

Full == Cardinality({u \in Url : contents[u] # 0}) >= max_entries
Room(size) == memused + size <= capacity /\ ~Full

(* A key is set after gtcache_get has missed it. *)
Set(u, size) ==
  /\ pending = NULL /\ pending' = [url |-> u, size |-> size]
  /\ contents[u] = 0
  /\ UNCHANGED <<contents, memused>>

GiveUp(u) ==
  /\ pending # NULL /\ contents[u] # 0
  /\ memused' = memused - contents[u]
  /\ ~Room(pending.size)
  /\ contents' = [contents EXCEPT ![u] = 0]
  /\ UNCHANGED pending

Keep ==
  /\ pending # NULL /\ pending' = NULL
  /\ Room(pending.size)
  /\ contents' = [contents EXCEPT ![pending.url] = pending.size]
  /\ memused' = memused + pending.size

(* gtcache_set returns 0. *)
Reject ==
  /\ pending # NULL /\ pending' = NULL
  /\ pending.size > capacity /\ contents = Empty
  /\ UNCHANGED <<contents, memused>>

(* gtcache_destroy and another gtcache_init. *)
Clear ==
  /\ pending = NULL
  /\ memused' = 0 /\ contents' = Empty
  /\ UNCHANGED pending

SNext ==
  \/ \E u \in Url : GiveUp(u) \/ \E size \in Sizes : Set(u, size)
  \/ Keep \/ Reject \/ Clear

SSpec == SInit /\ [][SNext]_svars

=============================================================================
