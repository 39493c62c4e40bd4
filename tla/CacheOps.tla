------------------------------ MODULE CacheOps ------------------------------
(***************************************************************************)
(* What the methods of cache.Cache (internal/cache/cache.go) do to its map *)
(* `entries', a function from the keys present to records with at least a  *)
(* field `expires'.  Each method holds the cache's lock throughout, so     *)
(* each is one step of whoever calls it.                                   *)
(*                                                                         *)
(* Definitions marked Slip are not the code: they are mistakes it could    *)
(* have made, which the properties of its users notice.                    *)
(***************************************************************************)
EXTENDS Integers, FiniteSets, Functions

(* !time.Now().After(e.ExpiresAt): the instant of expiry is still in.      *)
Live(e, now) == now <= e.expires

(* Slip: Get does not look at the time.                                    *)
HitIgnoresExpiry(entries, key, now) == key \in DOMAIN entries

Hit(entries, key, now) == key \in DOMAIN entries /\ Live(entries[key], now)

Without(entries, keys) == Restrict(entries, DOMAIN entries \ keys)

(* Slip: Set keeps an entry that is there.                                 *)
KeepOld(entries, key, e) ==
    [k \in DOMAIN entries \cup {key} |->
        IF k \in DOMAIN entries THEN entries[k] ELSE e]

Put(entries, key, e) ==
    [k \in DOMAIN entries \cup {key} |-> IF k = key THEN e ELSE entries[k]]

(* evictOne ranges over the map in no particular order and deletes the     *)
(* first expired entry it meets; if there is none, the one that expires    *)
(* first, or any of those.                                                 *)
Expired(entries, now) == {k \in DOMAIN entries : ~Live(entries[k], now)}

Oldest(entries) ==
    {k \in DOMAIN entries :
        \A j \in DOMAIN entries : entries[k].expires <= entries[j].expires}

(* Slip: evictOne deletes whatever comes first.                            *)
AnyVictim(entries, now) == DOMAIN entries

Victims(entries, now) ==
    IF Expired(entries, now) # {} THEN Expired(entries, now) ELSE Oldest(entries)

(* Slip: the new entry is forgotten in the count.                          *)
EvictWhenBeyond(entries, now, maxSize) ==
    IF Cardinality(DOMAIN entries) > maxSize
    THEN {Without(entries, {k}) : k \in Victims(entries, now)}
    ELSE {entries}

(* The maps Set may leave before it inserts.  The key it inserts counts as *)
(* one more even when it is already there.                                 *)
Evict(entries, now, maxSize) ==
    IF Cardinality(DOMAIN entries) >= maxSize /\ DOMAIN entries # {}
    THEN {Without(entries, {k}) : k \in Victims(entries, now)}
    ELSE {entries}

(* The maps Set(key, ...) may leave, e being the new entry.                *)
AfterSet(entries, key, e, now, maxSize) ==
    {Put(m, key, e) : m \in Evict(entries, now, maxSize)}
=============================================================================
