------------------------------- MODULE KeyCache ------------------------------
(***************************************************************************)
(* The signing keys of an issuer and the copy of them that each replica    *)
(* keeps (_JwksCache, core/security.py). A lookup is synchronous, fetches  *)
(* included, so it is one step; what it makes of a replica's cache is      *)
(* Lookup. Ages are in ticks and stop one past the time to live.           *)
(***************************************************************************)
EXTENDS Integers, FiniteSets, FiniteSetsExt

CONSTANTS Replicas,
          Kids,  \* the keys the issuer may ever use
          Ttl    \* how long a fetched key set is good for

ASSUME KeyAssumption == Ttl \in Nat

VARIABLES cache,    \* cache[r]: the key set replica r fetched, and its age
          retired   \* retired[k]: Unused, Published, or for how long k is withdrawn

keyVars == <<cache, retired>>

Ages == 0..Ttl + 1
Unused == -2
Published == -1
PublishedKeys == {k \in Kids : retired[k] = Published}

KeyInit ==
  /\ cache = [r \in Replicas |-> [keys |-> {}, age |-> Ttl + 1]]
  /\ \E k \in Kids : retired = [j \in Kids |-> IF j = k THEN Published ELSE Unused]

(* _refresh: an issuer that cannot be reached leaves the cache as it is. *)
Refreshed_TriedIsFresh(c, reached) ==
  IF reached THEN [keys |-> PublishedKeys, age |-> 0] ELSE [c EXCEPT !.age = 0]
Refreshed(c, reached) ==
  IF reached THEN [keys |-> PublishedKeys, age |-> 0] ELSE c

(* Must get(kid) fetch before it looks? *)
MustFetch(c, kid) == kid \notin c.keys \/ c.age > Ttl

(* get(kid): fetch on a miss or by age; a key that is still missing is fetched
   for once more, which a failure of the second fetch does not undo. *)
Lookup(c, kid, reached) ==
  LET looked == IF MustFetch(c, kid) THEN Refreshed(c, reached) ELSE c IN
  [cache |-> looked,
   found |-> /\ MustFetch(c, kid) => reached
             /\ kid \in looked.keys]

(* The issuer starts to use a key, and withdraws one while others remain. *)
Publish ==
  \E k \in Kids : /\ retired[k] = Unused
                  /\ retired' = [retired EXCEPT ![k] = Published]
                  /\ UNCHANGED cache
Withdraw ==
  \E k \in PublishedKeys : /\ PublishedKeys # {k}
                           /\ retired' = [retired EXCEPT ![k] = 0]
                           /\ UNCHANGED cache

Older(age) == Min({age + 1, Ttl + 1})

TimePasses ==
  /\ cache' = [r \in Replicas |-> [cache[r] EXCEPT !.age = Older(@)]]
  /\ retired' = [k \in Kids |-> IF retired[k] < 0 THEN retired[k] ELSE Older(retired[k])]

-----------------------------------------------------------------------------
(* A withdrawn key is accepted no longer than the time to live, however often
   a fetch fails meanwhile: what a replica accepts without a fetch is still
   published, or was so when the set was fetched (_JwksCache._refresh keeps the
   keys and their age when the issuer is out of reach). *)
WithdrawnKeysLapse ==
  \A r \in Replicas, k \in Kids :
    ~ MustFetch(cache[r], k) => retired[k] \in Published..cache[r].age
=============================================================================
