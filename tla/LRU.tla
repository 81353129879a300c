--------------------------------- MODULE LRU ---------------------------------
(***************************************************************************)
(* The bounded cache of internal/cache/lru.go as operators on its value: a *)
(* sequence of entries, the most recently used first, with an expiry that  *)
(* is 0 when the entry never expires.  Every method of LRU is one critical *)
(* section of its mutex, so a call is one step of the module that makes it.*)
(***************************************************************************)
EXTENDS Naturals, SequencesExt

CONSTANT Capacity   \* cap

ASSUME CapacityIsPositive == Capacity \in Nat \ {0}

Holds(c, k) == \E i \in DOMAIN c : c[i].key = k
Place(c, k) == CHOOSE i \in DOMAIN c : c[i].key = k
Entry(c, k) == c[Place(c, k)]
Without(c, k) == IF Holds(c, k) THEN RemoveAt(c, Place(c, k)) ELSE c
Expired_Later(e, t) == e.expiry # 0 /\ t > e.expiry + 1
Expired(e, t) == e.expiry # 0 /\ t > e.expiry

(* Get: an entry that is there and has not expired is a hit and moves to the
   front; an expired one is removed. *)
Hit(c, k, t) == Holds(c, k) /\ ~Expired(Entry(c, k), t)
AfterGet_NotMoved(c, k, t) == IF Hit(c, k, t) THEN c ELSE Without(c, k)
AfterGet(c, k, t) ==
  IF Hit(c, k, t) THEN <<Entry(c, k)>> \o Without(c, k) ELSE Without(c, k)

(* Set: an entry of the same key is replaced; otherwise the last one makes
   room when the cache is full. *)
Evicted(c) == IF Len(c) >= Capacity THEN SubSeq(c, 1, Len(c) - 1) ELSE c
AfterSet(c, k, ttl, t) ==
  LET new == [key |-> k, expiry |-> IF ttl > 0 THEN t + ttl ELSE 0]
  IN <<new>> \o (IF Holds(c, k) THEN Without(c, k) ELSE Evicted(c))
=============================================================================
