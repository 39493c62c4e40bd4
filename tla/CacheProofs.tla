----------------------------- MODULE CacheProofs ----------------------------
(***************************************************************************)
(* The cache never outgrows its bound, for any keys, values, bound and     *)
(* time to live.  The argument: entries has a finite domain; Set grows it  *)
(* by at most one key, after eviction has made room for that key.          *)
(***************************************************************************)
EXTENDS Cache, FiniteSetTheorems, TLAPS

(* A subset of a finite set is finite and no larger.                       *)
LEMMA SubsetOfFinite ==
    ASSUME NEW S, IsFiniteSet(S), NEW T \in SUBSET S
    PROVE  /\ IsFiniteSet(T)
           /\ Cardinality(T) \in Nat
           /\ Cardinality(T) <= Cardinality(S)
  BY FS_Subset, FS_CardinalityType

(* After Set the map holds at most maxSize keys, or one.                   *)
LEMMA SetBound ==
    ASSUME NEW m, IsFiniteSet(DOMAIN m), NEW k, NEW e, NEW t, NEW n \in Nat,
           Cardinality(DOMAIN m) <= (IF n = 0 THEN 1 ELSE n),
           NEW r \in AfterSet(m, k, e, t, n)
    PROVE  /\ IsFiniteSet(DOMAIN r)
           /\ Cardinality(DOMAIN r) <= (IF n = 0 THEN 1 ELSE n)
<1> DEFINE D == DOMAIN m
<1>c. Cardinality(D) \in Nat
  BY FS_CardinalityType
<1>1. PICK q \in Evict(m, t, n) : r = Put(q, k, e)
  BY DEF AfterSet
<1>2. DOMAIN r = DOMAIN q \cup {k}
  BY <1>1 DEF Put
<1>3. CASE Cardinality(D) >= n /\ D # {}
  <2>1. PICK v \in Victims(m, t) : q = Without(m, {v})
    BY <1>1, <1>3 DEF Evict
  <2>2. v \in D
    BY <2>1 DEF Victims, Expired, Oldest
  <2>3. DOMAIN q = D \ {v}
    BY <2>1 DEF Without, Restrict
  <2>4. IsFiniteSet(DOMAIN q) /\ Cardinality(DOMAIN q) = Cardinality(D) - 1
    BY <2>2, <2>3, FS_RemoveElement
  <2>5. /\ IsFiniteSet(DOMAIN r)
        /\ Cardinality(DOMAIN r) \in {Cardinality(DOMAIN q),
                                      Cardinality(DOMAIN q) + 1}
    BY <1>2, <2>4, FS_AddElement
  <2> QED
    BY <1>c, <2>4, <2>5
<1>4. CASE ~(Cardinality(D) >= n /\ D # {})
  <2>1. q = m
    BY <1>1, <1>4 DEF Evict
  <2>2. /\ IsFiniteSet(DOMAIN r)
        /\ Cardinality(DOMAIN r) \in {Cardinality(D), Cardinality(D) + 1}
    BY <1>2, <2>1, FS_AddElement
  <2>3. D = {} => Cardinality(D) = 0
    BY FS_EmptySet
  <2> QED
    BY <1>c, <1>4, <2>2, <2>3
<1> QED
  BY <1>3, <1>4

(* What Set leaves holds old entries and the new one, nothing else.        *)
LEMMA SetContents ==
    ASSUME NEW m, NEW k, NEW e, NEW t, NEW n,
           NEW r \in AfterSet(m, k, e, t, n)
    PROVE  /\ DOMAIN r \subseteq DOMAIN m \cup {k}
           /\ k \in DOMAIN r /\ r[k] = e
           /\ \A j \in DOMAIN r : j # k => j \in DOMAIN m /\ r[j] = m[j]
<1>1. PICK q \in Evict(m, t, n) : r = Put(q, k, e)
  BY DEF AfterSet
<1>2. DOMAIN q \subseteq DOMAIN m /\ \A j \in DOMAIN q : q[j] = m[j]
  <2>1. CASE q = m
    BY <2>1
  <2>2. ASSUME NEW K, q = Without(m, K)
        PROVE  DOMAIN q \subseteq DOMAIN m /\ \A j \in DOMAIN q : q[j] = m[j]
    <3>1. DOMAIN q = DOMAIN m \ K /\ \A j \in DOMAIN q : q[j] = m[j]
      BY <2>2 DEF Without, Restrict
    <3> QED
      BY <3>1
  <2>3. q = m \/ \E K : q = Without(m, K)
    BY <1>1 DEF Evict
  <2> QED
    BY <2>1, <2>2, <2>3
<1>3. /\ DOMAIN r = DOMAIN q \cup {k}
      /\ r[k] = e
      /\ \A j \in DOMAIN q : j # k => r[j] = q[j]
  BY <1>1 DEF Put
<1> QED
  BY <1>2, <1>3

-----------------------------------------------------------------------------

(* The inductive invariant: the bound alone says nothing of an infinite    *)
(* domain, whose Cardinality is undefined.                                 *)
Bounded == IsFiniteSet(DOMAIN entries) /\ CapacityBound

(* The cache holds at most MaxSize entries (one if MaxSize is 0) in every  *)
(* reachable state of cache.go.                                            *)
THEOREM CapacityBoundHolds == Spec => []CapacityBound
<1>1. Init => Bounded
  <2> SUFFICES ASSUME Init PROVE Bounded
    OBVIOUS
  <2>1. DOMAIN entries = {}
    BY DEF Init
  <2> QED
    BY <2>1, FS_EmptySet, CacheAssumption DEF Bounded, CapacityBound
<1>2. Bounded /\ [Next]_vars => Bounded'
  <2> SUFFICES ASSUME Bounded, [Next]_vars PROVE Bounded'
    OBVIOUS
  <2> USE CacheAssumption
  <2>s. ASSUME NEW K, entries' = Without(entries, K) PROVE Bounded'
    <3>1. DOMAIN entries' \in SUBSET DOMAIN entries
      BY <2>s DEF Without, Restrict
    <3>2. /\ IsFiniteSet(DOMAIN entries')
          /\ Cardinality(DOMAIN entries') \in Nat
          /\ Cardinality(DOMAIN entries') <= Cardinality(DOMAIN entries)
          /\ Cardinality(DOMAIN entries) \in Nat
      BY <3>1, SubsetOfFinite, FS_CardinalityType DEF Bounded
    <3> QED
      BY <3>2 DEF Bounded, CapacityBound
  <2>1. ASSUME NEW k \in Keys, NEW v \in Values, Set(k, v) PROVE Bounded'
    BY <2>1, SetBound DEF Set, Bounded, CapacityBound
  <2>2. ASSUME NEW k \in Keys, Invalidate(k) PROVE Bounded'
    BY <2>2, <2>s DEF Invalidate
  <2>3. ASSUME NEW keys \in KeyGroups, InvalidatePrefix(keys) PROVE Bounded'
    BY <2>3, <2>s DEF InvalidatePrefix
  <2>4. CASE Tick
    BY <2>4 DEF Tick, Bounded, CapacityBound
  <2>5. CASE UNCHANGED vars
    BY <2>5 DEF vars, Bounded, CapacityBound
  <2> QED
    BY <2>1, <2>2, <2>3, <2>4, <2>5 DEF Next
<1>3. Bounded => CapacityBound
  BY DEF Bounded
<1> QED
  BY <1>1, <1>2, <1>3, PTL DEF Spec

(* Keys, entries and clock keep their types.                               *)
THEOREM TypeCorrect == Spec => []TypeOK
<1>1. Init => TypeOK
  BY DEF Init, TypeOK
<1>2. TypeOK /\ [Next]_vars => TypeOK'
  <2> SUFFICES ASSUME TypeOK, [Next]_vars PROVE TypeOK'
    OBVIOUS
  <2>s. ASSUME NEW K, entries' = Without(entries, K), last' = Without(last, K),
               now' = now
        PROVE  TypeOK'
    <3>1. /\ DOMAIN entries' = DOMAIN entries \ K
          /\ \A k \in DOMAIN entries' : entries'[k] = entries[k]
      BY <2>s DEF Without, Restrict
    <3>2. /\ DOMAIN last' = DOMAIN last \ K
          /\ \A k \in DOMAIN last' : last'[k] = last[k]
      BY <2>s DEF Without, Restrict
    <3> QED
      BY <2>s, <3>1, <3>2 DEF TypeOK
  <2>1. ASSUME NEW k \in Keys, NEW v \in Values, Set(k, v) PROVE TypeOK'
    <3> DEFINE e == [value |-> v, expires |-> now + TTL]
               l == [value |-> v, at |-> now]
    <3>1. e \in Entries /\ l \in [value : Values, at : Nat]
      BY CacheAssumption DEF TypeOK, Entries
    <3>5. entries' \in AfterSet(entries, k, e, now, MaxSize) /\ last' = Put(last, k, l)
      BY <2>1 DEF Set
    <3> HIDE DEF e, l
    <3>2. /\ DOMAIN entries' \subseteq DOMAIN entries \cup {k}
          /\ entries'[k] = e
          /\ \A j \in DOMAIN entries' :
                j # k => j \in DOMAIN entries /\ entries'[j] = entries[j]
      BY <3>5, SetContents
    <3>3. /\ DOMAIN last' = DOMAIN last \cup {k}
          /\ last'[k] = l
          /\ \A j \in DOMAIN last : j # k => last'[j] = last[j]
      BY <3>5 DEF Put
    <3>4. now' \in Nat
      BY <2>1 DEF Set, TypeOK
    <3> QED
      BY <3>1, <3>2, <3>3, <3>4 DEF TypeOK
  <2>2. ASSUME NEW k \in Keys, Invalidate(k) PROVE TypeOK'
    BY <2>2, <2>s DEF Invalidate
  <2>3. ASSUME NEW keys \in KeyGroups, InvalidatePrefix(keys) PROVE TypeOK'
    BY <2>3, <2>s DEF InvalidatePrefix
  <2>4. CASE Tick
    BY <2>4 DEF Tick, TypeOK
  <2>5. CASE UNCHANGED vars
    BY <2>5 DEF vars, TypeOK
  <2> QED
    BY <2>1, <2>2, <2>3, <2>4, <2>5 DEF Next
<1> QED
  BY <1>1, <1>2, PTL DEF Spec

(* A hit returns what was last set under the key and not invalidated since: *)
(* neither eviction nor prefix invalidation ever uncovers an older value.   *)
THEOREM NeverOutdatedHolds == Spec => []NeverOutdated
<1>1. Init => NeverOutdated
  BY DEF Init, NeverOutdated
<1>2. NeverOutdated /\ [Next]_vars => NeverOutdated'
  <2> SUFFICES ASSUME NeverOutdated, [Next]_vars PROVE NeverOutdated'
    OBVIOUS
  <2>s. ASSUME NEW K, entries' = Without(entries, K), last' = Without(last, K)
        PROVE  NeverOutdated'
    <3>1. /\ DOMAIN entries' = DOMAIN entries \ K
          /\ \A k \in DOMAIN entries' : entries'[k] = entries[k]
      BY <2>s DEF Without, Restrict
    <3>2. /\ DOMAIN last' = DOMAIN last \ K
          /\ \A k \in DOMAIN last' : last'[k] = last[k]
      BY <2>s DEF Without, Restrict
    <3> QED
      BY <3>1, <3>2 DEF NeverOutdated
  <2>1. ASSUME NEW k \in Keys, NEW v \in Values, Set(k, v) PROVE NeverOutdated'
    <3> DEFINE e == [value |-> v, expires |-> now + TTL]
               l == [value |-> v, at |-> now]
    <3>1. entries' \in AfterSet(entries, k, e, now, MaxSize) /\ last' = Put(last, k, l)
      BY <2>1 DEF Set
    <3>2. e = [value |-> l.value, expires |-> l.at + TTL]
      OBVIOUS
    <3> HIDE DEF e, l
    <3>3. /\ entries'[k] = e
          /\ \A j \in DOMAIN entries' :
                j # k => j \in DOMAIN entries /\ entries'[j] = entries[j]
      BY <3>1, SetContents
    <3>4. /\ DOMAIN last' = DOMAIN last \cup {k}
          /\ last'[k] = l
          /\ \A j \in DOMAIN last : j # k => last'[j] = last[j]
      BY <3>1 DEF Put
    <3> QED
      BY <3>2, <3>3, <3>4 DEF NeverOutdated
  <2>2. ASSUME NEW k \in Keys, Invalidate(k) PROVE NeverOutdated'
    BY <2>2, <2>s DEF Invalidate
  <2>3. ASSUME NEW keys \in KeyGroups, InvalidatePrefix(keys)
        PROVE  NeverOutdated'
    BY <2>3, <2>s DEF InvalidatePrefix
  <2>4. CASE Tick
    BY <2>4 DEF Tick, NeverOutdated
  <2>5. CASE UNCHANGED vars
    BY <2>5 DEF vars, NeverOutdated
  <2> QED
    BY <2>1, <2>2, <2>3, <2>4, <2>5 DEF Next
<1> QED
  BY <1>1, <1>2, PTL DEF Spec

(* Set evicts a live entry only if nothing is expired and no entry was set  *)
(* before it: with NeverOutdated, the order of expiry is the order of sets. *)
THEOREM EvictionOrderHolds == Spec => EvictionOrder
<1>1. ASSUME TypeOK, NeverOutdated, SetStep,
             NEW k \in Evicted, Live(entries[k], now)
      PROVE  /\ Expired(entries, now) = {}
             /\ \A j \in DOMAIN entries : last[k].at <= last[j].at
  <2>1. PICK x \in Keys, v \in Values : Set(x, v)
    BY <1>1 DEF SetStep
  <2> DEFINE e == [value |-> v, expires |-> now + TTL]
  <2>2. PICK q \in Evict(entries, now, MaxSize) : entries' = Put(q, x, e)
    BY <2>1 DEF Set, AfterSet
  <2>3. k \in DOMAIN entries /\ k \notin DOMAIN q
    <3> HIDE DEF e
    <3> QED
      BY <2>2 DEF Evicted, Put
  <2>4. PICK y \in Victims(entries, now) : q = Without(entries, {y})
    BY <2>2, <2>3 DEF Evict
  <2>5. k \in Victims(entries, now)
    BY <2>3, <2>4 DEF Without, Restrict
  <2>6. k \notin Expired(entries, now)
    BY <1>1 DEF Expired
  <2>7. Expired(entries, now) = {} /\ k \in Oldest(entries)
    BY <2>5, <2>6 DEF Victims
  <2>8. ASSUME NEW j \in DOMAIN entries PROVE last[k].at <= last[j].at
    <3>1. entries[k].expires <= entries[j].expires
      BY <2>7 DEF Oldest
    <3>2. /\ k \in DOMAIN last /\ j \in DOMAIN last
          /\ entries[k].expires = last[k].at + TTL
          /\ entries[j].expires = last[j].at + TTL
      BY <1>1, <2>3 DEF NeverOutdated
    <3>3. last[k].at \in Nat /\ last[j].at \in Nat /\ TTL \in Nat
      BY <1>1, <3>2, CacheAssumption DEF TypeOK
    <3> QED
      BY <3>1, <3>2, <3>3
  <2> QED
    BY <2>7, <2>8
<1>2. TypeOK /\ NeverOutdated /\ [Next]_vars =>
        [SetStep => \A k \in Evicted :
            Live(entries[k], now) =>
                /\ Expired(entries, now) = {}
                /\ \A j \in DOMAIN entries : last[k].at <= last[j].at]_vars
  BY <1>1
<1> QED
  BY <1>2, TypeCorrect, NeverOutdatedHolds, PTL DEF Spec, EvictionOrder
=============================================================================
