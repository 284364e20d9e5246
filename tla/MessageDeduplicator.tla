-------------------------- MODULE MessageDeduplicator --------------------------
(***************************************************************************)
(* The LRU cache of src/core/message/MessageDeduplicator.ts: a sequence of *)
(* entries, the least recently used first.  The key of a message is its    *)
(* id or the hash of its content; of a result only whether it is defined   *)
(* matters.  RpcServer says when these are used.                           *)
(***************************************************************************)
EXTENDS Naturals, Sequences

Entry(key, defined) == [key |-> key, defined |-> defined]

Has(cache, key, defined) == \E i \in DOMAIN cache : cache[i] = Entry(key, defined)

(* cache.delete(), also what get() does to an entry that has expired. *)
Without(cache, key) ==
  IF \E i \in DOMAIN cache : cache[i].key = key
  THEN LET at == CHOOSE i \in DOMAIN cache : cache[i].key = key
       IN  [i \in 1..(Len(cache) - 1) |-> cache[IF i < at THEN i ELSE i + 1]]
  ELSE cache

(* The entry as the most recently used, under a new or its old value.      *)
MovedToEnd(cache, key, defined) == Append(Without(cache, key), Entry(key, defined))

(* set(): the oldest entry goes when there are too many. *)
Set(cache, key, defined, maxSize) ==
  LET longer == MovedToEnd(cache, key, defined) IN
  IF Len(longer) > maxSize THEN Tail(longer) ELSE longer

(* What process() leaves of the cache when it finds the key, *)
Hits(cache, key) ==
  IF Has(cache, key, TRUE) THEN {MovedToEnd(cache, key, TRUE)} ELSE {}

(* and when it does not: it never was there, has been evicted, has expired,*)
(* or its result is undefined and looks like no entry.                     *)
Misses(cache, key) ==
  {Without(cache, key)} \cup
  (IF Has(cache, key, FALSE) THEN {MovedToEnd(cache, key, FALSE)} ELSE {})
=============================================================================
