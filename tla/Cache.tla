------------------------------- MODULE Cache --------------------------------
(***************************************************************************)
(* internal/cache/cache.go: a map whose entries expire and whose size is   *)
(* bounded, shared by any number of goroutines under one lock.  Get changes *)
(* nothing: not even the order in which entries are evicted.               *)
(*                                                                         *)
(* Definitions marked Slip are not the code: they are mistakes it could    *)
(* have made, which the properties below notice.                           *)
(***************************************************************************)
EXTENDS CacheOps

CONSTANTS
    Keys,
    Values,
    KeyGroups,  \* the keys under each prefix that is invalidated
    MaxSize,    \* c.maxSize
    TTL,        \* c.ttl
    MaxTime     \* bound: when the clock stops

ASSUME CacheAssumption ==
    /\ KeyGroups \subseteq SUBSET Keys
    /\ {MaxSize, TTL, MaxTime} \subseteq Nat

VARIABLES
    entries,  \* c.entries
    now,
    last      \* history: per key set and not invalidated since, what was
              \*   set and when

vars == <<entries, now, last>>

Init ==
    /\ entries = <<>>
    /\ now = 0
    /\ last = <<>>

(* Slip: the time to live has the wrong sign.                              *)
SetIntoThePast(k, v) ==
    /\ entries' \in AfterSet(entries, k, [value |-> v, expires |-> now - TTL],
                             now, MaxSize)
    /\ last' = Put(last, k, [value |-> v, at |-> now])
    /\ UNCHANGED now

Set(k, v) ==
    /\ entries' \in AfterSet(entries, k, [value |-> v, expires |-> now + TTL],
                             now, MaxSize)
    /\ last' = Put(last, k, [value |-> v, at |-> now])
    /\ UNCHANGED now

Invalidate(k) ==
    /\ entries' = Without(entries, {k})
    /\ last' = Without(last, {k})
    /\ UNCHANGED now

InvalidatePrefix(keys) ==
    /\ entries' = Without(entries, keys)
    /\ last' = Without(last, keys)
    /\ UNCHANGED now

Tick ==
    /\ now < MaxTime
    /\ now' = now + 1
    /\ UNCHANGED <<entries, last>>

Next ==
    \/ \E k \in Keys, v \in Values : Set(k, v)
    \/ \E k \in Keys : Invalidate(k)
    \/ \E keys \in KeyGroups : InvalidatePrefix(keys)
    \/ Tick

Spec == Init /\ [][Next]_vars

-----------------------------------------------------------------------------
(* Properties                                                              *)

Entries == [value : Values, expires : Nat]

TypeOK ==
    /\ DOMAIN entries \subseteq Keys
    /\ \A k \in DOMAIN entries : entries[k] \in Entries
    /\ now \in Nat
    /\ DOMAIN last \subseteq Keys
    /\ \A k \in DOMAIN last : last[k] \in [value : Values, at : Nat]

(* The map never outgrows maxSize (nor one entry, if maxSize is 0), however *)
(* sets of old and new keys, expiries and invalidations follow each other. *)
CapacityBound ==
    Cardinality(DOMAIN entries) <= IF MaxSize = 0 THEN 1 ELSE MaxSize

(* What is in the map is what was last set under its key, has not been     *)
(* invalidated since, and expires TTL after that Set.                      *)
NeverOutdated ==
    \A k \in DOMAIN entries :
        /\ k \in DOMAIN last
        /\ entries[k] = [value |-> last[k].value, expires |-> last[k].at + TTL]

Evicted == DOMAIN entries \ DOMAIN entries'
SetStep == \E k \in Keys, v \in Values : Set(k, v)

(* No Set throws out a live entry while an expired one takes up room, or   *)
(* while an entry that was set earlier is there.                           *)
EvictionOrder ==
    [][SetStep => \A k \in Evicted :
          Live(entries[k], now) =>
              /\ Expired(entries, now) = {}
              /\ \A j \in DOMAIN entries : last[k].at <= last[j].at]_vars
=============================================================================
