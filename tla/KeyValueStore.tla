---------------------------- MODULE KeyValueStore ----------------------------
(***************************************************************************)
(* RedisService (src/src/common/redis.service.ts): the store of one-time   *)
(* codes, reset tokens and rate limits, either Redis or the MemoryCache    *)
(* that stands in for it.                                                  *)
(*                                                                         *)
(* Time has no length: a key that carries an expiry expires at any moment  *)
(* after it was given one.  A number is what a value says, a count or the  *)
(* secret it was stored for; counts and secrets start at 1.                *)
(***************************************************************************)
EXTENDS Naturals

CONSTANT Keys

VARIABLES
  store,     \* the entries by key
  backing    \* "redis" or "memory"

Entry == [number : Nat, tries : Nat, ttl : BOOLEAN]
Absent == [number |-> 0, tries |-> 0, ttl |-> FALSE]

Holds(k) == store[k].number # 0

Put(k, entry) == store' = [store EXCEPT ![k] = entry]

\* set(key, value, 'EX', seconds)
SetEx(k, number, tries) ==
  Put(k, [number |-> number, tries |-> tries, ttl |-> TRUE])

Del(k) == Put(k, Absent)

\* Wrong on purpose: the counter of MemoryCache in the place of Redis.
IncrForgetting(k) == Put(k, [store[k] EXCEPT !.number = @ + 1, !.ttl = FALSE])

\* Redis keeps the expiry of a counter, MemoryCache drops it.
Incr(k) ==
  Put(k, [store[k] EXCEPT !.number = @ + 1, !.ttl = @ /\ backing = "redis"])

Expire(k) == Put(k, [store[k] EXCEPT !.ttl = Holds(k)])

\* The entry is pruned, by Redis or at the next look of MemoryCache.
TimesOut(k) == store[k].ttl /\ Del(k)

\* The process ends: what it held in memory is lost.
Restarts ==
  store' = IF backing = "memory" THEN [k \in Keys |-> Absent] ELSE store
=============================================================================
