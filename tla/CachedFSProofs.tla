--------------------------- MODULE CachedFSProofs ---------------------------
(***************************************************************************)
(* Invariants of CachedFS, and of the NFS mount's caches on top of it, for *)
(* any number of clients, any tree, any number of changes and any sizes    *)
(* and times to live.                                                      *)
(*                                                                         *)
(* What is said of CachedFS holds with the mount's layer (NFSSafety) and   *)
(* without it (Safety): the one thing the layer does to CachedFS's state   *)
(* is to mark some answers as having raced (Marks).                        *)
(*                                                                         *)
(* The argument about stale metadata is about the answers held for a key:  *)
(* the one in the cache and those on their way into it.  A step changes    *)
(* them in one of three ways (HeldOrigin): it marks one, it reads a new    *)
(* one, which is up to date, or it moves one.  Whoever invalidates the key *)
(* leaves only marked ones (DropRaces).                                    *)
(***************************************************************************)
EXTENDS NFSFileSystem, SequenceTheorems, TLAPS

(* What the flights of singleflight depend on.                             *)
FlightTypes ==
    /\ leader \in [Keys -> Clients \cup {Nobody}]
    /\ pc \in [Clients -> {"idle", "miss", "ask", "join", "fill", "land",
                           "return", "request", "changed", "invalidate"}]
    /\ key \in [Clients -> Keys \cup {NoKey}]
    /\ \A c \in Clients :
          pc[c] \in {"miss", "ask", "join", "fill", "land"} => key[c] \in Keys

FlightInv == FlightTypes /\ OneFlightPerKey

LEMMA FlightInit == Init => FlightInv
BY CachedFSAssumption DEF Init, FlightInv, FlightTypes, OneFlightPerKey

(* Steps of a client outside its flight.                                   *)
LEMMA FlightOutside ==
    ASSUME FlightInv, NEW c \in Clients, NEW there, pc' = [pc EXCEPT ![c] = there],
           there \in {"idle", "return", "request", "changed", "invalidate"},
           pc[c] \in {"idle", "return", "request", "changed", "invalidate"},
           UNCHANGED leader,
           NEW k \in Keys \cup {NoKey}, key' = [key EXCEPT ![c] = k] \/ key' = key
    PROVE  FlightInv'
BY DEF FlightInv, FlightTypes, OneFlightPerKey

LEMMA FlightLookup ==
    ASSUME FlightInv, NEW c \in Clients, NEW k \in Reads, Lookup(c, k)
    PROVE  FlightInv'
<1>1. k \in Keys
    BY CachedFSAssumption
<1>2. pc[c] = "idle" /\ key' = [key EXCEPT ![c] = k] /\ leader' = leader
    BY DEF Lookup, storeVars
<1>3. CASE pc' = [pc EXCEPT ![c] = "return"]
    BY <1>1, <1>2, <1>3, FlightOutside
<1>4. CASE pc' = [pc EXCEPT ![c] = "miss"]
    BY <1>1, <1>2, <1>4 DEF FlightInv, FlightTypes, OneFlightPerKey
<1> QED  BY <1>3, <1>4 DEF Lookup, Goto

LEMMA FlightLead ==
    ASSUME FlightInv, NEW c \in Clients, Lead(c)
    PROVE  FlightInv'
<1>1. /\ pc[c] = "miss" /\ key[c] \in Keys /\ leader[key[c]] = Nobody
      /\ leader' = [leader EXCEPT ![key[c]] = c]
      /\ pc' = [pc EXCEPT ![c] = "ask"] /\ key' = key
    BY DEF Lead, Goto, FlightInv, FlightTypes
<1>2. FlightTypes'
    BY <1>1 DEF FlightInv, FlightTypes
<1>3. OneFlightPerKey'
    BY <1>1, CachedFSAssumption DEF FlightInv, FlightTypes, OneFlightPerKey
<1> QED  BY <1>2, <1>3 DEF FlightInv

LEMMA FlightJoin ==
    ASSUME FlightInv, NEW c \in Clients, Join(c)
    PROVE  FlightInv'
BY DEF Join, Goto, storeVars, readVars, FlightInv, FlightTypes, OneFlightPerKey

(* The leader goes on within its flight.                                   *)
LEMMA FlightInside ==
    ASSUME FlightInv, NEW c \in Clients, NEW there, pc' = [pc EXCEPT ![c] = there],
           there \in {"ask", "fill", "land"}, pc[c] \in {"ask", "fill", "land"},
           UNCHANGED <<leader, key>>
    PROVE  FlightInv'
BY DEF FlightInv, FlightTypes, OneFlightPerKey

LEMMA FlightLand ==
    ASSUME FlightInv, NEW c \in Clients, Land(c)
    PROVE  FlightInv'
<1> DEFINE together == {c} \cup {d \in Clients : pc[d] = "join" /\ key[d] = key[c]}
<1>1. /\ pc[c] = "land" /\ key[c] \in Keys
      /\ leader' = [leader EXCEPT ![key[c]] = Nobody]
      /\ pc' = [d \in Clients |-> IF d \in together THEN "return" ELSE pc[d]]
      /\ key' = key
    BY DEF Land, FlightInv, FlightTypes
<1>2. FlightTypes'
    BY <1>1 DEF FlightInv, FlightTypes
<1>3. OneFlightPerKey'
    <2>1. ASSUME NEW d \in Clients, pc'[d] = "join"
          PROVE  leader'[key'[d]] # Nobody
        <3>1. pc[d] = "join" /\ key[d] # key[c] /\ key[d] \in Keys
            BY <1>1, <2>1 DEF FlightInv, FlightTypes
        <3> QED  BY <1>1, <3>1 DEF FlightInv, FlightTypes, OneFlightPerKey
    <2>2. ASSUME NEW d \in Clients, NEW k \in Keys
          PROVE  leader'[k] = d
                    <=> (pc'[d] \in {"ask", "fill", "land"} /\ key'[d] = k)
        <3>1. leader[k] = d <=> (pc[d] \in {"ask", "fill", "land"} /\ key[d] = k)
            BY DEF FlightInv, OneFlightPerKey
        <3>2. leader[key[c]] = c
            BY <1>1 DEF FlightInv, OneFlightPerKey
        <3>3. CASE k = key[c]
            BY <1>1, <3>1, <3>2, <3>3, CachedFSAssumption
            DEF FlightInv, FlightTypes
        <3>4. CASE k # key[c]
            BY <1>1, <3>1, <3>4 DEF FlightInv, FlightTypes
        <3> QED  BY <3>3, <3>4
    <2> QED  BY <2>1, <2>2 DEF OneFlightPerKey
<1> QED  BY <1>2, <1>3 DEF FlightInv

LEMMA FlightStep == FlightInv /\ [Next]_vars => FlightInv'
<1> SUFFICES ASSUME FlightInv, [Next]_vars  PROVE FlightInv'
    OBVIOUS
<1>1. ASSUME UNCHANGED <<leader, pc, key>>  PROVE FlightInv'
    BY <1>1 DEF FlightInv, FlightTypes, OneFlightPerKey
<1>2. ASSUME NEW c \in Clients, Step(c) \/ GiveUp(c)  PROVE FlightInv'
    <2>1. CASE FetchReturns(c) \/ Fill(c) \/ FetchFails(c)
        BY <2>1, FlightInside
        DEF FetchReturns, Fill, FetchFails, Goto, storeVars, readVars
    <2>2. CASE Return(c)
        BY <2>2, FlightOutside DEF Return, Goto, storeVars
    <2>3. CASE ChangeReturns(c) \/ FinishChange(c) \/ ChangeFails(c)
        <3>1. /\ UNCHANGED <<leader, key>>
              /\ \/ pc[c] \in {"request", "changed"} /\ pc' = [pc EXCEPT ![c] = "idle"]
                 \/ pc[c] = "changed" /\ pc' = [pc EXCEPT ![c] = "invalidate"]
                 \/ pc[c] = "invalidate" /\ pc' = [pc EXCEPT ![c] = "idle"]
            BY <2>3
            DEF ChangeReturns, FinishChange, ChangeFails, Goto, storeVars, readVars
        <3> QED  BY <3>1, FlightOutside
    <2>4. CASE Invalidate(c)
        BY <1>1, <2>4 DEF Invalidate
    <2> QED
        BY <1>2, <2>1, <2>2, <2>3, <2>4, FlightLead, FlightJoin, FlightLand
        DEF Step, GiveUp
<1>3. ASSUME NEW c \in Clients, NEW paths \in Changes, StartChange(c, paths)
      PROVE  FlightInv'
    BY <1>3, FlightOutside DEF StartChange, Goto, storeVars, readVars
<1>4. ASSUME NEW c \in Clients, RemoteChanges(c)  PROVE FlightInv'
    BY <1>4, FlightOutside DEF RemoteChanges, Goto, storeVars, readVars
<1>5. ASSUME NEW c \in Clients, RemoteReads(c)  PROVE FlightInv'
    BY <1>1, <1>5 DEF RemoteReads, storeVars
<1>6. CASE \/ \E paths \in Changes : ExternalChange(paths)
           \/ \E e \in events : ApplyEvent(e) \/ MissEvent(e)
           \/ StartWatch \/ StopWatch \/ Tick \/ UNCHANGED vars
    <2>1. UNCHANGED <<leader, pc, key>>
        BY <1>6
        DEF ExternalChange, ApplyEvent, MissEvent, StartWatch, StopWatch, Tick,
            vars, storeVars, readVars
    <2> QED  BY <1>1, <2>1
<1> QED
    BY <1>2, <1>3, <1>4, <1>5, <1>6, FlightLookup DEF Next

-----------------------------------------------------------------------------
(* Types                                                                   *)

Answers == [version : Nat, readAt : Nat, raced : BOOLEAN, ok : BOOLEAN]
Entries == [answer : Answers, expires : Nat]

IsStore(m) ==
    /\ m = [kind \in Kinds |-> m[kind]]
    /\ \A kind \in Kinds :
          /\ DOMAIN m[kind] \subseteq Paths
          /\ \A p \in DOMAIN m[kind] : m[kind][p] \in Entries

RemoteTypes ==
    /\ version \in [Keys -> Nat] /\ changes \in Nat
    /\ \A k \in Keys : version[k] <= changes
    /\ \A e \in events : e \in [number : Nat, todo : Seq(SUBSET Keys)]

StoreTypes ==
    /\ IsStore(cache)
    /\ answer \in [Clients -> Answers]
    /\ now \in Nat

WriteTypes ==
    /\ acked \in [Keys -> Nat] /\ floor \in [Clients -> Nat]
    /\ askedAt \in [Clients -> Nat]
    /\ change \in [Clients -> [paths : Changes \cup {<<>>}, number : Nat]]
    /\ \A c \in Clients :
          pc[c] \in {"request", "changed", "invalidate"} => change[c].paths \in Changes
    /\ todo \in [Clients -> Seq(SUBSET Keys)]

(* Before the watch starts nothing is cached and nobody asks; whoever has  *)
(* not been answered has no answer, and what is to be cached is one.       *)
NothingYet ==
    /\ watch = "off" =>
          /\ \A kind \in Kinds : DOMAIN cache[kind] = {}
          /\ \A c \in Clients : pc[c] = "idle"
    /\ \A c \in Clients :
          pc[c] \notin {"ask", "fill", "land", "return"} => ~answer[c].ok
    /\ \A c \in Clients :
          /\ pc[c] = "fill" => answer[c].ok
          /\ pc[c] = "return" => key[c] \in Keys

CachedTypes ==
    FlightInv /\ RemoteTypes /\ StoreTypes /\ WriteTypes /\ NothingYet

-----------------------------------------------------------------------------
(* The answers held for a key, and what is said of them                    *)

Held(k) ==
    {cache[k[1]][k[2]].answer : x \in {p \in DOMAIN cache[k[1]] : p = k[2]}}
        \cup {answer[c] : c \in {d \in Clients : /\ pc[d] \in {"ask", "fill", "land"}
                                                /\ key[d] = k /\ answer[d].ok}}

(* None misses change n, except those that raced.                          *)
NotOlder(k, n) == \A a \in Held(k) : a.raced \/ a.version >= n

(* A handler has yet to invalidate k.                                      *)
Pending(k) == \E e \in events : \E i \in DOMAIN e.todo : k \in e.todo[i]

WatchInv ==
    watch = "on" => \A k \in Tracked : Pending(k) \/ NotOlder(k, version[k])

(* A change that is done is in what is held; of a change that is being     *)
(* finished, what is not is still to be invalidated.                       *)
DoneShows ==
    /\ \A k \in Keys : acked[k] <= version[k]
    /\ \A k \in Tracked : NotOlder(k, acked[k])

ChangesShow ==
    \A c \in Clients :
        /\ pc[c] \in {"changed", "invalidate"} =>
              \A k \in Keys \cap Affected(change[c].paths) : change[c].number <= version[k]
        /\ pc[c] = "invalidate" =>
              \A k \in Tracked \cap Affected(change[c].paths) :
                  \/ \E i \in DOMAIN todo[c] : k \in todo[c][i]
                  \/ NotOlder(k, change[c].number)

FloorsHold ==
    \A c \in Clients :
        pc[c] \in {"miss", "ask", "join", "fill", "land"} => floor[c] <= acked[key[c]]

WritesInv == DoneShows /\ ChangesShow /\ FloorsHold /\ OnlyRacesMissWrites

(* An answer is sent within Timeout of being asked for, and cached for no  *)
(* longer than the time to live.                                           *)
AgeInv ==
    /\ \A k \in Keys : k[2] \in DOMAIN cache[k[1]] =>
          cache[k[1]][k[2]].expires
             <= cache[k[1]][k[2]].answer.readAt + Timeout + TTLOf(k[1])
    /\ \A c \in Clients : pc[c] = "ask" =>
          /\ askedAt[c] <= now /\ now <= askedAt[c] + Timeout
          /\ answer[c].ok => askedAt[c] <= answer[c].readAt
    /\ \A c \in Clients : (pc[c] \in {"fill", "land"} /\ answer[c].ok) =>
          now <= answer[c].readAt + Timeout
    /\ StalenessBounded

-----------------------------------------------------------------------------
(* The mount's own caches                                                  *)

NFSTypes ==
    /\ IsStore(nfs)
    /\ done \in [Keys -> Nat]
    /\ drops \in [Clients -> [keys : Seq(Keys), names : SUBSET Keys, number : Nat]]

NFSHeld(k) ==
    {nfs[k[1]][k[2]].answer : x \in {p \in DOMAIN nfs[k[1]] : p = k[2]}}
        \cup {answer[c] : c \in {d \in Clients : /\ pc[d] = "return"
                                                /\ key[d] = k /\ answer[d].ok}}

NFSNotOlder(k, n) == \A a \in NFSHeld(k) : a.raced \/ a.version >= n

Occurs(x, s) == \E i \in DOMAIN s : x = s[i]

NFSDoneShows ==
    \A k \in Tracked : done[k] <= acked[k] /\ NFSNotOlder(k, done[k])

DropsShow ==
    \A c \in Clients : ~Ready(c) =>
        \A k \in Tracked \cap drops[c].names :
            /\ drops[c].number <= acked[k]
            /\ \/ Occurs(k, drops[c].keys)
               \/ NFSNotOlder(k, drops[c].number)

NFSAgeInv ==
    \A k \in Keys : k[2] \in DOMAIN nfs[k[1]] =>
        nfs[k[1]][k[2]].expires
           <= nfs[k[1]][k[2]].answer.readAt + Timeout + TTLOf(k[1]) + NFSTTLOf(k[1])

-----------------------------------------------------------------------------
(* Parents are in the tree, and what is invalidated for a change covers    *)
(* what the change affects, as far as that is promised.                    *)
LEMMA ParentType == \A p \in Paths : Parent(p) \in Paths
BY CachedFSAssumption DEF Parent

LEMMA PathCovers ==
    ASSUME NEW p \in Paths
    PROVE  /\ InvalidatePath(p) \in Seq(SUBSET Keys)
           /\ Len(InvalidatePath(p)) = 2
           /\ InvalidatePath(p)[1] = {"stat"} \X ({p} \cup Below(p))
           /\ InvalidatePath(p)[2] = {"dir"} \X ({p, Parent(p)} \cup Below(p))
<1>1. /\ {"stat"} \X ({p} \cup Below(p)) \in SUBSET Keys
      /\ {"dir"} \X ({p, Parent(p)} \cup Below(p)) \in SUBSET Keys
    BY ParentType DEF Below, Keys, Kinds
<1> QED  BY <1>1 DEF InvalidatePath

LEMMA ConcatTwo ==
    ASSUME NEW S, NEW s \in Seq(S), NEW t \in Seq(S), Len(s) = 2, Len(t) = 2
    PROVE  /\ s \o t \in Seq(S) /\ Len(s \o t) = 4
           /\ (s \o t)[1] = s[1] /\ (s \o t)[2] = s[2]
           /\ (s \o t)[3] = t[1] /\ (s \o t)[4] = t[2]
<1>1. /\ s \o t \in Seq(S)
      /\ Len(s \o t) = Len(s) + Len(t)
      /\ \A i \in 1 .. Len(s) + Len(t) :
            (s \o t)[i] = IF i <= Len(s) THEN s[i] ELSE t[i - Len(s)]
    BY ConcatProperties, Zenon
<1> DEFINE r == s \o t
<1>2. /\ r \in Seq(S) /\ Len(r) = 4
      /\ \A i \in 1 .. 4 : r[i] = IF i <= 2 THEN s[i] ELSE t[i - 2]
    BY <1>1
<1> HIDE DEF r
<1>3. r[1] = s[1] /\ r[2] = s[2] /\ r[3] = t[1] /\ r[4] = t[2]
    BY <1>2
<1> QED  BY <1>2, <1>3 DEF r

LEMMA InvalidateCovers ==
    ASSUME NEW paths \in Changes
    PROVE  /\ InvalidateAll(paths) \in Seq(SUBSET Keys)
           /\ \A k \in Tracked \cap Affected(paths) :
                 \E i \in DOMAIN InvalidateAll(paths) : k \in InvalidateAll(paths)[i]
<1>1. CASE paths \in {<<p>> : p \in Paths}
    <2>1. PICK p \in Paths : paths = <<p>>
        BY <1>1
    <2>2. InvalidateAll(paths) = InvalidatePath(p)
        BY <2>1 DEF InvalidateAll
    <2>3. Affected(paths) = Kinds \X ({p, Parent(p)} \cup Below(p))
        BY <2>1 DEF Affected, ToSet
    <2>4. \A k \in Tracked \cap Affected(paths) :
              k \in InvalidatePath(p)[1] \/ k \in InvalidatePath(p)[2]
        BY <2>3, PathCovers DEF Tracked, Kinds, Keys
    <2> QED  BY <2>2, <2>4, PathCovers
<1>2. CASE paths \in Paths \X Paths
    <2>1. PICK p \in Paths, q \in Paths : paths = <<p, q>>
        BY <1>2
    <2>2. InvalidateAll(paths) = InvalidatePath(p) \o InvalidatePath(q)
        BY <2>1 DEF InvalidateAll
    <2>3. Affected(paths) = (Kinds \X ({p, Parent(p)} \cup Below(p)))
                              \cup (Kinds \X ({q, Parent(q)} \cup Below(q)))
        BY <2>1 DEF Affected, ToSet
    <2>4. \A k \in Tracked \cap Affected(paths) :
              \/ k \in InvalidatePath(p)[1] \/ k \in InvalidatePath(p)[2]
              \/ k \in InvalidatePath(q)[1] \/ k \in InvalidatePath(q)[2]
        BY <2>3, PathCovers DEF Tracked, Kinds, Keys
    <2> DEFINE s == InvalidatePath(p)
               t == InvalidatePath(q)
    <2>5. /\ s \in Seq(SUBSET Keys) /\ Len(s) = 2
          /\ t \in Seq(SUBSET Keys) /\ Len(t) = 2
        BY PathCovers
    <2> HIDE DEF s, t
    <2>6. s \o t \in Seq(SUBSET Keys) /\ Len(s \o t) = 4
        BY <2>5, ConcatTwo
    <2>7. /\ (s \o t)[1] = s[1] /\ (s \o t)[2] = s[2]
          /\ (s \o t)[3] = t[1] /\ (s \o t)[4] = t[2]
        BY <2>5, ConcatTwo
    <2>8. \A i \in 1 .. 4 : i \in DOMAIN (s \o t)
        BY <2>6
    <2>9. ASSUME NEW k, k \in s[1] \/ k \in s[2] \/ k \in t[1] \/ k \in t[2]
          PROVE  \E i \in DOMAIN (s \o t) : k \in (s \o t)[i]
        BY <2>7, <2>8, <2>9
    <2>10. \A k \in Tracked \cap Affected(paths) :
              k \in s[1] \/ k \in s[2] \/ k \in t[1] \/ k \in t[2]
        BY <2>4 DEF s, t
    <2>11. InvalidateAll(paths) = s \o t
        BY <2>2 DEF s, t
    <2> QED  BY <2>6, <2>9, <2>10, <2>11
<1> QED  BY <1>1, <1>2, CachedFSAssumption

LEMMA KeyPair ==
    \A k \in Keys : k[1] \in Kinds /\ k[2] \in Paths /\ k = <<k[1], k[2]>>
BY DEF Keys

LEMMA AffectedType == \A paths \in Changes : Affected(paths) \subseteq Keys
<1> SUFFICES ASSUME NEW paths \in Changes  PROVE Affected(paths) \subseteq Keys
    OBVIOUS
<1>1. ToSet(paths) \subseteq Paths
    BY CachedFSAssumption DEF ToSet
<1> QED  BY <1>1, ParentType DEF Affected, Keys, Below

-----------------------------------------------------------------------------
(* What a step does to a store                                             *)

LEMMA SetStore ==
    ASSUME NEW m, NEW p, NEW e, NEW t, NEW n, NEW r \in AfterSet(m, p, e, t, n)
    PROVE  /\ DOMAIN r \subseteq DOMAIN m \cup {p}
           /\ r[p] = e
           /\ \A q \in DOMAIN r : q # p => q \in DOMAIN m /\ r[q] = m[q]
<1>1. PICK s \in Evict(m, t, n) : r = Put(s, p, e)
    BY DEF AfterSet
<1>2. DOMAIN s \subseteq DOMAIN m /\ \A q \in DOMAIN s : s[q] = m[q]
    <2>1. ASSUME NEW K, s = Without(m, K)
          PROVE  DOMAIN s \subseteq DOMAIN m /\ \A q \in DOMAIN s : s[q] = m[q]
        BY <2>1 DEF Without, Restrict
    <2>2. s = m \/ \E K : s = Without(m, K)
        BY <1>1 DEF Evict
    <2> QED  BY <2>1, <2>2
<1> QED  BY <1>1, <1>2 DEF Put

LEMMA DropStore ==
    ASSUME StoreTypes, NEW K, Drop(K)
    PROVE  /\ IsStore(cache')
           /\ answer' \in [Clients -> Answers]
           /\ \A kind \in Kinds : DOMAIN cache'[kind] \subseteq DOMAIN cache[kind]
           /\ \A k \in Keys : k[2] \in DOMAIN cache'[k[1]] =>
                 /\ k \notin K
                 /\ k[2] \in DOMAIN cache[k[1]]
                 /\ cache'[k[1]][k[2]] = cache[k[1]][k[2]]
           /\ \A c \in Clients :
                 /\ \/ answer'[c] = answer[c]
                    \/ answer'[c].raced /\ pc[c] \in {"ask", "fill", "land"}
                 /\ answer'[c].ok = answer[c].ok
                 /\ answer'[c].readAt = answer[c].readAt
                 /\ answer'[c].version = answer[c].version
                 /\ (answer'[c].ok /\ key[c] \in K /\ pc[c] \in {"ask", "fill", "land"})
                       => answer'[c].raced
<1>1. \A kind \in Kinds :
        LET L == {p \in Paths : <<kind, p>> \in K} IN
        /\ DOMAIN cache'[kind] = DOMAIN cache[kind] \ L
        /\ \A p \in DOMAIN cache'[kind] : cache'[kind][p] = cache[kind][p]
    <2> TAKE kind \in Kinds
    <2> DEFINE L == {p \in Paths : <<kind, p>> \in K}
    <2>1. cache'[kind] = Without(cache[kind], L)
        BY DEF Drop
    <2> HIDE DEF L
    <2>2. /\ DOMAIN cache'[kind] = DOMAIN cache[kind] \ L
          /\ \A p \in DOMAIN cache'[kind] : cache'[kind][p] = cache[kind][p]
        BY <2>1 DEF Without, Restrict
    <2> QED  BY <2>2 DEF L
<1>2. cache' = [kind \in Kinds |-> cache'[kind]]
    BY DEF Drop
<1>3. IsStore(cache')
    BY <1>1, <1>2 DEF StoreTypes, IsStore
<1>4. ASSUME NEW k \in Keys, k[2] \in DOMAIN cache'[k[1]]
      PROVE  /\ k \notin K /\ k[2] \in DOMAIN cache[k[1]]
             /\ cache'[k[1]][k[2]] = cache[k[1]][k[2]]
    BY <1>1, <1>4, KeyPair
<1>5. \A c \in Clients :
         /\ \/ answer'[c] = answer[c]
            \/ /\ answer'[c] = [answer[c] EXCEPT !.raced = TRUE]
               /\ pc[c] \in {"ask", "fill", "land"}
         /\ (answer'[c].ok /\ key[c] \in K /\ pc[c] \in {"ask", "fill", "land"})
               => answer'[c].raced
    BY DEF Drop, StoreTypes, Answers
<1>6. answer' \in [Clients -> Answers]
    BY DEF Drop, StoreTypes, Answers
<1>7. \A c \in Clients : answer[c] \in Answers
    BY DEF StoreTypes
<1>8. \A c \in Clients :
         /\ \/ answer'[c] = answer[c]
            \/ answer'[c].raced /\ pc[c] \in {"ask", "fill", "land"}
         /\ answer'[c].ok = answer[c].ok
         /\ answer'[c].readAt = answer[c].readAt
         /\ answer'[c].version = answer[c].version
    BY <1>5, <1>7 DEF Answers
<1>9. \A kind \in Kinds : DOMAIN cache'[kind] \subseteq DOMAIN cache[kind]
    BY <1>1
<1> QED  BY <1>3, <1>4, <1>5, <1>6, <1>8, <1>9

LEMMA SetInStore ==
    ASSUME NEW m, IsStore(m), NEW kind \in Kinds, NEW p \in Paths,
           NEW e \in Entries, NEW t, NEW n,
           NEW r \in AfterSet(m[kind], p, e, t, n),
           NEW m2, m2 = [x \in Kinds |-> m2[x]],
           m2[kind] = r, \A x \in Kinds : x # kind => m2[x] = m[x]
    PROVE  /\ IsStore(m2)
           /\ \A k \in Keys : k[2] \in DOMAIN m2[k[1]] =>
                 \/ k = <<kind, p>> /\ m2[k[1]][k[2]] = e
                 \/ /\ k[2] \in DOMAIN m[k[1]]
                    /\ m2[k[1]][k[2]] = m[k[1]][k[2]]
<1>1. /\ DOMAIN r \subseteq DOMAIN m[kind] \cup {p}
      /\ r[p] = e
      /\ \A q \in DOMAIN r : q # p => q \in DOMAIN m[kind] /\ r[q] = m[kind][q]
    BY SetStore
<1>2. IsStore(m2)
    BY <1>1 DEF IsStore
<1> QED  BY <1>1, <1>2, KeyPair


-----------------------------------------------------------------------------
(* Types are kept                                                          *)

(* What the mount's layer does to the state of CachedFS.                   *)
Marks ==
    /\ UNCHANGED <<remoteVars, watch, storeVars, now, pc, key, askedAt, writeVars,
                   floor>>
    /\ answer' \in [Clients -> Answers]
    /\ \A c \in Clients :
          \/ answer'[c] = answer[c]
          \/ pc[c] = "return" /\ answer'[c] = [answer[c] EXCEPT !.raced = TRUE]

CachedStep == [Next]_vars \/ Marks

LEMMA TailType ==
    ASSUME NEW S, NEW s \in Seq(S), s # <<>>
    PROVE  /\ Tail(s) \in Seq(S) /\ Len(Tail(s)) = Len(s) - 1
           /\ \A x : (\E i \in DOMAIN s : x = s[i])
                        <=> x = Head(s) \/ \E i \in DOMAIN Tail(s) : x = Tail(s)[i]
<1>1. /\ Tail(s) \in Seq(S) /\ Len(Tail(s)) = Len(s) - 1
      /\ Len(s) \in Nat \ {0} /\ Head(s) = s[1]
      /\ DOMAIN s = 1 .. Len(s) /\ DOMAIN Tail(s) = 1 .. (Len(s) - 1)
      /\ \A i \in 1 .. (Len(s) - 1) : Tail(s)[i] = s[i + 1]
    OBVIOUS
<1>2. ASSUME NEW i \in DOMAIN s, i # 1
      PROVE  i - 1 \in DOMAIN Tail(s) /\ Tail(s)[i - 1] = s[i]
    BY <1>1, <1>2
<1>3. ASSUME NEW i \in DOMAIN Tail(s)
      PROVE  i + 1 \in DOMAIN s /\ s[i + 1] = Tail(s)[i]
    BY <1>1, <1>3
<1>4. 1 \in DOMAIN s
    BY <1>1
<1> QED  BY <1>1, <1>2, <1>3, <1>4

LEMMA ApplyTypes ==
    ASSUME RemoteTypes, NEW paths \in Changes, Apply(paths)
    PROVE  /\ RemoteTypes'
           /\ changes' = changes + 1
           /\ \A k \in Keys : /\ version[k] <= version'[k]
                              /\ version'[k] \in {version[k], changes'}
                              /\ k \in Affected(paths) => version'[k] = changes'
<1>1. /\ changes' = changes + 1
      /\ version' = [k \in Keys |-> IF k \in Affected(paths) THEN changes'
                                                             ELSE version[k]]
      /\ \A e \in events' :
            e \in events \/ e = [number |-> changes', todo |-> InvalidateAll(paths)]
    BY DEF Apply
<1>2. changes' \in Nat /\ version' \in [Keys -> Nat]
    BY <1>1 DEF RemoteTypes
<1>3. \A e \in events' : e \in [number : Nat, todo : Seq(SUBSET Keys)]
    BY <1>1, <1>2, InvalidateCovers DEF RemoteTypes
<1>4. \A k \in Keys : /\ version[k] <= version'[k] /\ version'[k] <= changes'
                      /\ version'[k] \in {version[k], changes'}
                      /\ k \in Affected(paths) => version'[k] = changes'
    BY <1>1 DEF RemoteTypes
<1> QED  BY <1>1, <1>2, <1>3, <1>4 DEF RemoteTypes

LEMMA EventTail ==
    ASSUME NEW e \in [number : Nat, todo : Seq(SUBSET Keys)],
           NEW x \in 1 .. (Len(e.todo) - 1)
    PROVE  /\ [e EXCEPT !.todo = Tail(@)] \in [number : Nat, todo : Seq(SUBSET Keys)]
           /\ e.todo # <<>>
           /\ [e EXCEPT !.todo = Tail(@)].todo = Tail(e.todo)
<1>1. e.todo \in Seq(SUBSET Keys) /\ e.todo # <<>>
    OBVIOUS
<1> QED  BY <1>1, TailType

(* What a step does to the remote, and to the events on their way.         *)
LEMMA RemoteStep ==
    ASSUME CachedTypes, CachedStep
    PROVE  \/ UNCHANGED remoteVars
           \/ \E paths \in Changes : Apply(paths) /\ UNCHANGED watch
           \/ \E e \in events : ApplyEvent(e) \/ MissEvent(e)
<1>1. ASSUME NEW c \in Clients, RemoteChanges(c)
      PROVE  \E paths \in Changes : Apply(paths) /\ UNCHANGED watch
    BY <1>1 DEF RemoteChanges, CachedTypes, WriteTypes
<1>2. ASSUME NEW paths \in Changes, ExternalChange(paths)
      PROVE  Apply(paths) /\ UNCHANGED watch
    BY <1>2 DEF ExternalChange
<1>3. ASSUME NEW c \in Clients, Step(c) \/ GiveUp(c)
      PROVE  UNCHANGED remoteVars
    BY <1>3 DEF Step, GiveUp, Lead, Join, FetchReturns, Fill, Land, Return,
       ChangeReturns, Invalidate, FinishChange, FetchFails, ChangeFails
<1>4. ASSUME NEW c \in Clients, \/ \E k \in Reads : Lookup(c, k)
                                \/ \E paths \in Changes : StartChange(c, paths)
                                \/ RemoteReads(c)
      PROVE  UNCHANGED remoteVars
    BY <1>4 DEF Lookup, StartChange, RemoteReads
<1>5. ASSUME StartWatch \/ StopWatch \/ Tick \/ UNCHANGED vars \/ Marks
      PROVE  UNCHANGED remoteVars
    BY <1>5 DEF StartWatch, StopWatch, Tick, vars, Marks
<1> QED  BY <1>1, <1>2, <1>3, <1>4, <1>5 DEF CachedStep, Next

LEMMA RemoteTypesStep ==
    ASSUME CachedTypes, CachedStep
    PROVE  RemoteTypes'
<1>1. ASSUME NEW paths \in Changes, Apply(paths)
      PROVE  RemoteTypes'
    BY <1>1, ApplyTypes DEF CachedTypes
<1>2. ASSUME NEW e \in events, ApplyEvent(e)
      PROVE  RemoteTypes'
    <2>1. e \in [number : Nat, todo : Seq(SUBSET Keys)]
        BY DEF CachedTypes, RemoteTypes
    <2>2. \A f \in events' : f \in [number : Nat, todo : Seq(SUBSET Keys)]
        BY <1>2, <2>1, EventTail DEF ApplyEvent, CachedTypes, RemoteTypes
    <2> QED  BY <1>2, <2>2 DEF ApplyEvent, CachedTypes, RemoteTypes
<1>3. CASE UNCHANGED remoteVars \/ \E e \in events : MissEvent(e)
    BY <1>3 DEF remoteVars, MissEvent, CachedTypes, RemoteTypes
<1> QED  BY <1>1, <1>2, <1>3, RemoteStep

(* What Lookup finds, and what Fill leaves.                                *)
LEMMA LookupEffect ==
    ASSUME CachedTypes, NEW c \in Clients, NEW k \in Reads, Lookup(c, k)
    PROVE  /\ k \in Keys /\ pc[c] = "idle" /\ watch # "off"
           /\ key' = [key EXCEPT ![c] = k]
           /\ floor' = [floor EXCEPT ![c] = acked[k]]
           /\ UNCHANGED <<remoteVars, watch, storeVars, now, askedAt, writeVars>>
           /\ \/ /\ Hit(cache[k[1]], k[2], now)
                 /\ k[2] \in DOMAIN cache[k[1]]
                 /\ answer' = [answer EXCEPT ![c] = cache[k[1]][k[2]].answer]
                 /\ pc' = [pc EXCEPT ![c] = "return"]
              \/ UNCHANGED answer /\ pc' = [pc EXCEPT ![c] = "miss"]
BY CachedFSAssumption DEF Lookup, Goto, Hit

LEMMA FillEffect ==
    ASSUME CachedTypes, NEW c \in Clients, Fill(c)
    PROVE  /\ key[c] \in Keys /\ pc[c] = "fill"
           /\ pc' = [pc EXCEPT ![c] = "land"]
           /\ UNCHANGED <<remoteVars, watch, leader, now, readVars, writeVars, floor>>
           /\ IsStore(cache')
           /\ \A k \in Keys : k[2] \in DOMAIN cache'[k[1]] =>
                 \/ /\ k = key[c]
                    /\ cache'[k[1]][k[2]].answer = answer[c]
                    /\ cache'[k[1]][k[2]].expires = now + TTLOf(k[1])
                 \/ /\ k[2] \in DOMAIN cache[k[1]]
                    /\ cache'[k[1]][k[2]] = cache[k[1]][k[2]]
<1> DEFINE kind  == key[c][1]
           entry == [answer |-> answer[c], expires |-> now + TTLOf(kind)]
<1>1. /\ pc[c] = "fill" /\ pc' = [pc EXCEPT ![c] = "land"]
      /\ UNCHANGED <<remoteVars, watch, leader, now, readVars, writeVars, floor>>
    BY DEF Fill, Goto
<1>2. key[c] \in Keys /\ kind \in Kinds /\ key[c][2] \in Paths
    BY <1>1, KeyPair DEF CachedTypes, FlightInv, FlightTypes
<1>3. entry \in Entries
    BY <1>2, CachedFSAssumption DEF CachedTypes, StoreTypes, Entries, TTLOf
<1>4. PICK m \in AfterSet(cache[kind], key[c][2], entry, now, MaxOf(kind)) :
            cache' = [cache EXCEPT ![kind] = m]
    BY DEF Fill
<1>5. entry.answer = answer[c] /\ entry.expires = now + TTLOf(kind)
    OBVIOUS
<1>6. IsStore(cache)
    BY DEF CachedTypes, StoreTypes
<1> DEFINE p == key[c][2]
<1> HIDE DEF entry, p, kind
<1>7. /\ m \in AfterSet(cache[kind], p, entry, now, MaxOf(kind))
      /\ kind \in Kinds /\ p \in Paths
    BY <1>2, <1>4 DEF p, kind
<1>8. /\ IsStore(cache')
      /\ \A k \in Keys : k[2] \in DOMAIN cache'[k[1]] =>
            \/ k = <<kind, p>> /\ cache'[k[1]][k[2]] = entry
            \/ /\ k[2] \in DOMAIN cache[k[1]]
               /\ cache'[k[1]][k[2]] = cache[k[1]][k[2]]
    <2>1. /\ cache' = [x \in Kinds |-> cache'[x]]
          /\ cache'[kind] = m /\ \A x \in Kinds : x # kind => cache'[x] = cache[x]
        BY <1>4, <1>6, <1>7 DEF IsStore
    <2> QED  BY <1>3, <1>6, <1>7, <2>1, SetInStore
<1> QED  BY <1>1, <1>2, <1>5, <1>8, KeyPair DEF kind, p

LEMMA StoreTypesStep ==
    ASSUME CachedTypes, CachedStep
    PROVE  StoreTypes'
<1>1. ASSUME UNCHANGED <<cache, answer, now>>  PROVE StoreTypes'
    BY <1>1 DEF CachedTypes, StoreTypes, IsStore
<1>2. ASSUME NEW c \in Clients, NEW k \in Reads, Lookup(c, k)
      PROVE  StoreTypes'
    <2>1. k \in Keys
        BY CachedFSAssumption
    <2>2. UNCHANGED <<cache, now>>
        BY <1>2 DEF Lookup, storeVars
    <2>3. answer' \in [Clients -> Answers]
        <3>1. CASE UNCHANGED answer
            BY <3>1 DEF CachedTypes, StoreTypes
        <3>2. CASE /\ k[2] \in DOMAIN cache[k[1]]
                   /\ answer' = [answer EXCEPT ![c] = cache[k[1]][k[2]].answer]
            <4>1. cache[k[1]][k[2]] \in Entries
                BY <2>1, <3>2, KeyPair DEF CachedTypes, StoreTypes, IsStore
            <4> QED  BY <3>2, <4>1 DEF CachedTypes, StoreTypes, Entries
        <3> QED  BY <1>2, <3>1, <3>2, LookupEffect
    <2> QED  BY <2>2, <2>3 DEF CachedTypes, StoreTypes, IsStore
<1>3. ASSUME UNCHANGED <<cache, now>>, answer' \in [Clients -> Answers]
      PROVE  StoreTypes'
    BY <1>3 DEF CachedTypes, StoreTypes, IsStore
<1>4. ASSUME NEW K, Drop(K), UNCHANGED now
      PROVE  StoreTypes'
    BY <1>4, DropStore DEF CachedTypes, StoreTypes
<1>5. ASSUME NEW c \in Clients, Step(c) \/ GiveUp(c)
      PROVE  StoreTypes'
    <2>1. CASE Lead(c) \/ Join(c) \/ FetchReturns(c) \/ ChangeReturns(c)
               \/ FinishChange(c) \/ ChangeFails(c)
        BY <1>1, <2>1 DEF Lead, Join, FetchReturns, ChangeReturns, FinishChange,
           ChangeFails, storeVars, readVars
    <2>2. CASE Return(c) \/ FetchFails(c)
        <3>1. answer' = [answer EXCEPT ![c] = NoAnswer] /\ UNCHANGED <<cache, now>>
            BY <2>2 DEF Return, FetchFails, storeVars
        <3>2. NoAnswer \in Answers
            BY DEF NoAnswer, Answers
        <3> QED  BY <1>3, <3>1, <3>2 DEF CachedTypes, StoreTypes
    <2>3. CASE Land(c)
        BY <1>3, <2>3 DEF Land, CachedTypes, StoreTypes
    <2>4. CASE Fill(c)
        BY <2>4, FillEffect DEF CachedTypes, StoreTypes, readVars
    <2>5. CASE Invalidate(c)
        BY <1>4, <2>5 DEF Invalidate
    <2> QED  BY <1>5, <2>1, <2>2, <2>3, <2>4, <2>5 DEF Step, GiveUp
<1>6. ASSUME NEW c \in Clients, RemoteReads(c)
      PROVE  StoreTypes'
    <2>1. key[c] \in Keys
        BY <1>6 DEF RemoteReads, CachedTypes, FlightInv, FlightTypes
    <2>2. [version |-> version[key[c]], readAt |-> now, raced |-> FALSE, ok |-> TRUE]
             \in Answers
        BY <2>1 DEF CachedTypes, RemoteTypes, StoreTypes, Answers
    <2>3. answer' \in [Clients -> Answers] /\ UNCHANGED <<cache, now>>
        BY <1>6, <2>2 DEF RemoteReads, CachedTypes, StoreTypes, storeVars
    <2> QED  BY <1>3, <2>3
<1>7. CASE \E e \in events : ApplyEvent(e)
    BY <1>4, <1>7 DEF ApplyEvent
<1>8. CASE Tick
    BY <1>8 DEF Tick, CachedTypes, StoreTypes, IsStore, storeVars, readVars
<1>9. CASE Marks
    BY <1>3, <1>9 DEF Marks, storeVars
<1>10. CASE \/ \E c \in Clients : \/ \E paths \in Changes : StartChange(c, paths)
                                  \/ RemoteChanges(c)
            \/ \E paths \in Changes : ExternalChange(paths)
            \/ \E e \in events : MissEvent(e)
            \/ StartWatch \/ StopWatch \/ UNCHANGED vars
    BY <1>1, <1>10
    DEF StartChange, RemoteChanges, ExternalChange, MissEvent, StartWatch, StopWatch,
        vars, storeVars, readVars
<1> QED
    BY <1>2, <1>5, <1>6, <1>7, <1>8, <1>9, <1>10 DEF CachedStep, Next


LEMMA WriteTypesStep ==
    ASSUME CachedTypes, CachedStep
    PROVE  WriteTypes'
<1> USE DEF CachedTypes, FlightInv, FlightTypes, StoreTypes
<1>1. ASSUME UNCHANGED <<acked, floor, askedAt, change, todo>>,
             \A c \in Clients : pc'[c] \in {"request", "changed", "invalidate"}
                                   => pc[c] \in {"request", "changed", "invalidate"}
      PROVE  WriteTypes'
    BY <1>1 DEF WriteTypes
<1>2. ASSUME NEW c \in Clients, NEW k \in Reads, Lookup(c, k)
      PROVE  WriteTypes'
    <2>1. /\ UNCHANGED <<acked, askedAt, change, todo>>
          /\ floor' = [floor EXCEPT ![c] = acked[k]]
          /\ k \in Keys
          /\ pc' \in {[pc EXCEPT ![c] = "return"], [pc EXCEPT ![c] = "miss"]}
        BY <1>2, CachedFSAssumption DEF Lookup, Goto, writeVars
    <2> QED  BY <2>1 DEF WriteTypes
<1>3. ASSUME NEW c \in Clients, NEW paths \in Changes, StartChange(c, paths)
      PROVE  WriteTypes'
    <2>1. /\ UNCHANGED <<acked, floor, askedAt, todo>>
          /\ change' = [change EXCEPT ![c] = [NoChange EXCEPT !.paths = paths]]
          /\ pc' = [pc EXCEPT ![c] = "request"]
        BY <1>3 DEF StartChange, Goto, readVars
    <2>2. [NoChange EXCEPT !.paths = paths] = [paths |-> paths, number |-> 0]
        BY DEF NoChange
    <2> QED  BY <2>1, <2>2 DEF WriteTypes
<1>4. ASSUME NEW c \in Clients, RemoteChanges(c)
      PROVE  WriteTypes'
    <2>1. /\ UNCHANGED <<acked, floor, askedAt, todo>>
          /\ change' = [change EXCEPT ![c].number = changes']
          /\ pc[c] = "request" /\ pc' = [pc EXCEPT ![c] = "changed"]
        BY <1>4 DEF RemoteChanges, Goto, readVars
    <2>2. changes' \in Nat
        BY RemoteTypesStep DEF RemoteTypes
    <2> QED  BY <2>1, <2>2 DEF WriteTypes
<1>5. ASSUME NEW c \in Clients, Step(c) \/ GiveUp(c)
      PROVE  WriteTypes'
    <2>1. CASE Join(c) \/ FetchReturns(c) \/ FetchFails(c) \/ Fill(c)
        <3>1. /\ UNCHANGED <<acked, floor, askedAt, change, todo>>
              /\ pc' \in {[pc EXCEPT ![c] = "join"], [pc EXCEPT ![c] = "fill"],
                          [pc EXCEPT ![c] = "land"]}
            BY <2>1 DEF Join, FetchReturns, FetchFails, Fill, Goto, readVars, writeVars
        <3> QED  BY <1>1, <3>1
    <2>2. CASE Land(c)
        BY <1>1, <2>2 DEF Land, writeVars
    <2>3. CASE Lead(c)
        <3>1. /\ UNCHANGED <<acked, floor, change, todo>>
              /\ askedAt' = [askedAt EXCEPT ![c] = now]
              /\ pc' = [pc EXCEPT ![c] = "ask"]
            BY <2>3 DEF Lead, Goto, writeVars
        <3> QED  BY <3>1 DEF WriteTypes
    <2>4. CASE Return(c)
        <3>1. /\ UNCHANGED <<acked, change, todo>>
              /\ askedAt' = [askedAt EXCEPT ![c] = 0]
              /\ floor' = [floor EXCEPT ![c] = 0]
              /\ pc' = [pc EXCEPT ![c] = "idle"]
            BY <2>4 DEF Return, Goto, writeVars
        <3> QED  BY <3>1 DEF WriteTypes
    <2>5. CASE ChangeFails(c)
        <3>1. /\ UNCHANGED <<acked, floor, askedAt, todo>>
              /\ change' = [change EXCEPT ![c] = [paths |-> <<>>, number |-> 0]]
              /\ pc' = [pc EXCEPT ![c] = "idle"]
            BY <2>5 DEF ChangeFails, Goto, readVars, NoChange
        <3> QED  BY <3>1 DEF WriteTypes
    <2>6. CASE ChangeReturns(c)
        <3>1. /\ UNCHANGED <<acked, floor, askedAt, change>>
              /\ pc[c] = "changed" /\ pc' = [pc EXCEPT ![c] = "invalidate"]
              /\ todo' = [todo EXCEPT ![c] = InvalidateAll(change[c].paths)]
            BY <2>6 DEF ChangeReturns, Goto, readVars
        <3>2. InvalidateAll(change[c].paths) \in Seq(SUBSET Keys)
            BY <3>1, InvalidateCovers DEF WriteTypes
        <3> QED  BY <3>1, <3>2 DEF WriteTypes
    <2>7. CASE Invalidate(c)
        <3>1. /\ UNCHANGED <<pc, acked, floor, askedAt, change>>
              /\ todo[c] # <<>> /\ todo' = [todo EXCEPT ![c] = Tail(todo[c])]
            BY <2>7 DEF Invalidate
        <3>2. Tail(todo[c]) \in Seq(SUBSET Keys)
            BY <3>1, TailType DEF WriteTypes
        <3> QED  BY <3>1, <3>2 DEF WriteTypes
    <2>8. CASE FinishChange(c)
        <3>1. /\ UNCHANGED <<floor, askedAt, todo>>
              /\ change' = [change EXCEPT ![c] = [paths |-> <<>>, number |-> 0]]
              /\ pc' = [pc EXCEPT ![c] = "idle"]
              /\ acked' = [k \in Keys |->
                    IF k \in Affected(change[c].paths) /\ change[c].number > acked[k]
                    THEN change[c].number ELSE acked[k]]
            BY <2>8 DEF FinishChange, Goto, readVars, NoChange
        <3>2. change[c].number \in Nat
            BY DEF WriteTypes
        <3>3. acked' \in [Keys -> Nat]
            BY <3>1, <3>2 DEF WriteTypes
        <3> QED  BY <3>1, <3>3 DEF WriteTypes
    <2> QED
        BY <1>5, <2>1, <2>2, <2>3, <2>4, <2>5, <2>6, <2>7, <2>8 DEF Step, GiveUp
<1>6. CASE \/ \E c \in Clients : RemoteReads(c)
           \/ \E paths \in Changes : ExternalChange(paths)
           \/ \E e \in events : ApplyEvent(e) \/ MissEvent(e)
           \/ StartWatch \/ StopWatch \/ Tick \/ UNCHANGED vars \/ Marks
    BY <1>1, <1>6
    DEF RemoteReads, ExternalChange, ApplyEvent, MissEvent, StartWatch, StopWatch,
        Tick, Marks, vars, readVars, writeVars
<1> QED
    BY <1>2, <1>3, <1>4, <1>5, <1>6 DEF CachedStep, Next


LEMMA NothingYetStep ==
    ASSUME CachedTypes, CachedStep
    PROVE  NothingYet'
<1> USE DEF CachedTypes, FlightInv, FlightTypes, StoreTypes
<1>1. ASSUME UNCHANGED <<watch, cache, pc, key>>,
             \A c \in Clients : \/ answer'[c].ok = answer[c].ok
                                \/ pc[c] = "ask"
      PROVE  NothingYet'
    BY <1>1 DEF NothingYet
<1>2. ASSUME NEW c \in Clients, NEW k \in Reads, Lookup(c, k)
      PROVE  NothingYet'
    BY <1>2, LookupEffect DEF NothingYet, storeVars
<1>3. ASSUME NEW c \in Clients, NEW there \in {"idle", "request", "changed", "invalidate"},
             pc' = [pc EXCEPT ![c] = there], watch # "off",
             pc[c] \in {"idle", "request", "changed", "invalidate"},
             UNCHANGED <<watch, cache, key, answer>>
      PROVE  NothingYet'
    BY <1>3 DEF NothingYet
<1>4. ASSUME NEW c \in Clients, NEW there \in {"ask", "fill", "land", "join"},
             pc' = [pc EXCEPT ![c] = there], pc[c] \in {"miss", "ask", "fill"},
             there = "join" => pc[c] = "miss", there = "fill" => answer'[c].ok,
             UNCHANGED <<watch, key>>,
             answer' \in {answer, [answer EXCEPT ![c] = NoAnswer]}
      PROVE  NothingYet'
    BY <1>4 DEF NothingYet, NoAnswer
<1>5. ASSUME NEW c \in Clients, Step(c) \/ GiveUp(c)
      PROVE  NothingYet'
    <2>1. CASE Lead(c) \/ Join(c) \/ FetchReturns(c) \/ FetchFails(c) \/ Fill(c)
        BY <1>4, <2>1
        DEF Lead, Join, FetchReturns, FetchFails, Fill, Goto, storeVars, readVars
    <2>2. CASE Land(c)
        <3>1. /\ UNCHANGED <<watch, cache, key>> /\ pc[c] = "land"
              /\ \A d \in Clients :
                    \/ pc'[d] = pc[d] /\ answer'[d] = answer[d]
                    \/ pc'[d] = "return" /\ pc[d] \in {"join", "land"}
            BY <2>2 DEF Land
        <3> QED  BY <3>1 DEF NothingYet
    <2>3. CASE Return(c)
        <3>1. /\ UNCHANGED <<watch, cache>> /\ pc[c] = "return"
              /\ pc' = [pc EXCEPT ![c] = "idle"]
              /\ key' = [key EXCEPT ![c] = NoKey]
              /\ answer' = [answer EXCEPT ![c] = NoAnswer]
            BY <2>3 DEF Return, Goto, storeVars
        <3>2. ~NoAnswer.ok
            BY DEF NoAnswer
        <3> QED  BY <3>1, <3>2 DEF NothingYet
    <2>4. CASE ChangeReturns(c) \/ FinishChange(c) \/ ChangeFails(c)
        <3>1. pc[c] \in {"request", "changed", "invalidate"}
            BY <2>4 DEF ChangeReturns, FinishChange, ChangeFails
        <3>2. watch # "off"
            BY <3>1 DEF NothingYet
        <3> QED
            BY <1>3, <2>4, <3>1, <3>2
            DEF ChangeReturns, FinishChange, ChangeFails, Goto, storeVars, readVars
    <2>5. CASE Invalidate(c)
        <3>1. /\ UNCHANGED <<watch, pc, key>> /\ watch # "off"
              /\ \A d \in Clients : answer'[d].ok = answer[d].ok
            BY <2>5, DropStore DEF Invalidate, NothingYet
        <3> QED  BY <3>1 DEF NothingYet
    <2> QED  BY <1>5, <2>1, <2>2, <2>3, <2>4, <2>5 DEF Step, GiveUp
<1>6. ASSUME NEW e \in events, ApplyEvent(e)
      PROVE  NothingYet'
    <2>1. /\ UNCHANGED <<watch, pc, key>>
          /\ \A d \in Clients : answer'[d].ok = answer[d].ok
        BY <1>6, DropStore DEF ApplyEvent
    <2>2. \A kind \in Kinds : DOMAIN cache[kind] = {} => DOMAIN cache'[kind] = {}
        BY <1>6, DropStore DEF ApplyEvent
    <2> QED  BY <2>1, <2>2 DEF NothingYet
<1>7. CASE \/ \E c \in Clients : \/ \E paths \in Changes : StartChange(c, paths)
                                 \/ RemoteChanges(c)
    BY <1>3, <1>7
    DEF StartChange, RemoteChanges, Goto, storeVars, readVars, NothingYet
<1>8. CASE StartWatch \/ StopWatch
    BY <1>8 DEF StartWatch, StopWatch, storeVars, readVars, NothingYet
<1>9. CASE \/ \E c \in Clients : RemoteReads(c)
           \/ Marks
    BY <1>1, <1>9 DEF RemoteReads, Marks, storeVars, Answers
<1>10. CASE \/ \E paths \in Changes : ExternalChange(paths)
            \/ \E e \in events : MissEvent(e)
            \/ Tick \/ UNCHANGED vars
    BY <1>1, <1>10 DEF ExternalChange, MissEvent, Tick, vars, storeVars, readVars
<1> QED
    BY <1>2, <1>5, <1>6, <1>7, <1>8, <1>9, <1>10 DEF CachedStep, Next

LEMMA CachedTypesInit == Init => CachedTypes
<1> SUFFICES ASSUME Init  PROVE CachedTypes
    OBVIOUS
<1>1. RemoteTypes
    BY DEF Init, RemoteTypes
<1>2. StoreTypes
    BY DEF Init, StoreTypes, IsStore, NoAnswer, Answers
<1>3. WriteTypes
    BY DEF Init, WriteTypes, NoChange
<1>4. NothingYet
    BY DEF Init, NothingYet, NoAnswer
<1> QED  BY <1>1, <1>2, <1>3, <1>4, FlightInit DEF CachedTypes

LEMMA CachedTypesStep ==
    ASSUME CachedTypes, CachedStep
    PROVE  CachedTypes'
<1>1. FlightInv'
    <2>1. CASE [Next]_vars
        BY <2>1, FlightStep DEF CachedTypes
    <2>2. CASE Marks
        BY <2>2 DEF Marks, storeVars, CachedTypes, FlightInv, FlightTypes, OneFlightPerKey
    <2> QED  BY <2>1, <2>2 DEF CachedStep
<1> QED
    BY <1>1, RemoteTypesStep, StoreTypesStep, WriteTypesStep, NothingYetStep
    DEF CachedTypes


-----------------------------------------------------------------------------
(* What is held for a key                                                  *)

LEMMA HeldIs ==
    ASSUME NEW k, NEW a
    PROVE  a \in Held(k) <=>
              \/ k[2] \in DOMAIN cache[k[1]] /\ a = cache[k[1]][k[2]].answer
              \/ \E c \in Clients : /\ pc[c] \in {"ask", "fill", "land"}
                                    /\ key[c] = k /\ answer[c].ok /\ a = answer[c]
BY DEF Held

LEMMA HeldOrigin ==
    ASSUME CachedTypes, CachedStep, NEW k \in Keys, NEW a \in Held(k)'
    PROVE  a.raced \/ a \in Held(k) \/ a.version = version[k]
<1> USE DEF CachedTypes, FlightInv, FlightTypes, StoreTypes
<1> DEFINE InCache == k[2] \in DOMAIN cache'[k[1]] /\ a = cache'[k[1]][k[2]].answer
           With(c) == /\ pc'[c] \in {"ask", "fill", "land"}
                      /\ key'[c] = k /\ answer'[c].ok /\ a = answer'[c]
           Origin == a.raced \/ a \in Held(k) \/ a.version = version[k]
<1>1. InCache \/ \E c \in Clients : With(c)
    BY DEF Held
<1>2. ASSUME UNCHANGED cache, InCache  PROVE a \in Held(k)
    BY <1>2, HeldIs
<1>3. ASSUME NEW c \in Clients, With(c), answer'[c] = answer[c], key'[c] = key[c],
             pc[c] \in {"ask", "fill", "land"}
      PROVE  a \in Held(k)
    BY <1>3, HeldIs
<1>4. ASSUME UNCHANGED <<cache, key, answer>>,
             \A c \in Clients : pc'[c] \in {"ask", "fill", "land"}
                => pc[c] \in {"ask", "fill", "land"} \/ ~answer[c].ok
      PROVE  Origin
    BY <1>1, <1>2, <1>3, <1>4
<1>5. ASSUME NEW K, Drop(K), UNCHANGED <<pc, key>>  PROVE Origin
    <2>1. CASE InCache
        BY <1>5, <2>1, DropStore, HeldIs
    <2>2. ASSUME NEW c \in Clients, With(c)  PROVE Origin
        BY <1>3, <1>5, <2>2, DropStore
    <2> QED  BY <1>1, <2>1, <2>2
<1>6. ASSUME NEW c \in Clients, NEW r \in Reads, Lookup(c, r)  PROVE Origin
    <2>1. /\ UNCHANGED cache
          /\ \A d \in Clients : d # c => UNCHANGED <<pc[d], key[d], answer[d]>>
          /\ pc'[c] \in {"return", "miss"}
        BY <1>6, LookupEffect DEF storeVars
    <2> QED  BY <1>1, <1>2, <1>3, <2>1
<1>7. ASSUME NEW c \in Clients, RemoteReads(c)  PROVE Origin
    <2>1. /\ UNCHANGED <<cache, key, pc>>
          /\ \A d \in Clients : d # c => UNCHANGED answer[d]
          /\ answer'[c].version = version[key[c]]
        BY <1>7 DEF RemoteReads, storeVars
    <2>2. ASSUME With(c)  PROVE a.version = version[k]
        BY <2>1, <2>2
    <2> QED  BY <1>1, <1>2, <1>3, <2>1, <2>2
<1>8. ASSUME NEW c \in Clients, Step(c) \/ GiveUp(c)  PROVE Origin
    <2>1. CASE Lead(c) \/ Join(c) \/ FetchReturns(c)
               \/ ChangeReturns(c) \/ FinishChange(c) \/ ChangeFails(c)
        <3>1. /\ UNCHANGED <<cache, key, answer>>
              /\ \A d \in Clients : d # c => pc'[d] = pc[d]
              /\ pc'[c] \in {"ask", "fill", "land"} => pc[c] \in {"ask", "miss"}
            BY <2>1
            DEF Lead, Join, FetchReturns, ChangeReturns, FinishChange, ChangeFails,
                Goto, storeVars, readVars
        <3> QED  BY <1>4, <3>1 DEF NothingYet
    <2>2. CASE FetchFails(c) \/ Return(c)
        <3>1. /\ UNCHANGED cache /\ ~answer'[c].ok
              /\ \A d \in Clients : d # c => UNCHANGED <<pc[d], key[d], answer[d]>>
            BY <2>2 DEF FetchFails, Return, Goto, storeVars, NoAnswer
        <3> QED  BY <1>1, <1>2, <1>3, <3>1
    <2>3. CASE Land(c)
        <3>1. /\ UNCHANGED <<cache, key>>
              /\ \A d \in Clients : pc'[d] = "return" \/ UNCHANGED <<pc[d], answer[d]>>
            BY <2>3 DEF Land
        <3> QED  BY <1>1, <1>2, <1>3, <3>1
    <2>4. CASE Fill(c)
        <3>1. CASE InCache
            <4>1. \/ a = answer[c] /\ k = key[c]
                  \/ k[2] \in DOMAIN cache[k[1]] /\ a = cache[k[1]][k[2]].answer
                BY <2>4, <3>1, FillEffect
            <4>2. pc[c] = "fill" /\ answer[c].ok
                BY <2>4 DEF Fill, NothingYet
            <4> QED  BY <4>1, <4>2, HeldIs
        <3>2. ASSUME NEW d \in Clients, With(d)  PROVE Origin
            BY <1>3, <2>4, <3>2, FillEffect DEF readVars
        <3> QED  BY <1>1, <3>1, <3>2
    <2>5. CASE Invalidate(c)
        BY <1>5, <2>5 DEF Invalidate
    <2> QED  BY <1>8, <2>1, <2>2, <2>3, <2>4, <2>5 DEF Step, GiveUp
<1>9. CASE \E e \in events : ApplyEvent(e)
    BY <1>5, <1>9 DEF ApplyEvent
<1>10. CASE \/ \E c \in Clients : \/ \E paths \in Changes : StartChange(c, paths)
                                  \/ RemoteChanges(c)
    <2>1. PICK c \in Clients : \/ \E paths \in Changes : StartChange(c, paths)
                               \/ RemoteChanges(c)
        BY <1>10
    <2>2. /\ UNCHANGED <<cache, key, answer>>
          /\ \A d \in Clients : d # c => pc'[d] = pc[d]
          /\ pc'[c] \in {"request", "changed"}
        BY <2>1 DEF StartChange, RemoteChanges, Goto, storeVars, readVars
    <2> QED  BY <1>4, <2>2
<1>11. CASE \/ \E paths \in Changes : ExternalChange(paths)
            \/ \E e \in events : MissEvent(e)
            \/ StartWatch \/ StopWatch \/ Tick \/ UNCHANGED vars
    BY <1>4, <1>11
    DEF ExternalChange, MissEvent, StartWatch, StopWatch, Tick, vars, storeVars, readVars
<1>12. CASE Marks
    <2>1. /\ UNCHANGED <<cache, pc, key>>
          /\ \A c \in Clients : answer'[c] = answer[c] \/ pc[c] = "return"
        BY <1>12 DEF Marks, storeVars
    <2> QED  BY <1>1, <1>2, <1>3, <2>1
<1> QED
    BY <1>6, <1>7, <1>8, <1>9, <1>10, <1>11, <1>12 DEF CachedStep, Next

(* Whoever invalidates a key leaves no unmarked answer for it.             *)
LEMMA DropRaces ==
    ASSUME CachedTypes, NEW K, Drop(K), UNCHANGED <<pc, key>>,
           NEW k \in Keys \cap K, NEW a \in Held(k)'
    PROVE  a.raced
<1>1. \/ k[2] \in DOMAIN cache'[k[1]] /\ a = cache'[k[1]][k[2]].answer
      \/ \E c \in Clients : /\ pc'[c] \in {"ask", "fill", "land"}
                            /\ key'[c] = k /\ answer'[c].ok /\ a = answer'[c]
    BY DEF Held
<1> QED  BY <1>1, DropStore DEF CachedTypes

LEMMA NotOlderStep ==
    ASSUME CachedTypes, CachedStep, NEW k \in Keys, NEW n \in Nat,
           n <= version[k], NotOlder(k, n)
    PROVE  NotOlder(k, n)'
<1> SUFFICES ASSUME NEW a \in Held(k)', ~a.raced  PROVE a.version >= n
    BY DEF NotOlder
<1>1. CASE a \in Held(k)
    BY <1>1 DEF NotOlder
<1>2. CASE a.version = version[k]
    BY <1>2 DEF CachedTypes, RemoteTypes
<1> QED  BY <1>1, <1>2, HeldOrigin

LEMMA NotOlderDropped ==
    ASSUME CachedTypes, NEW K, Drop(K), UNCHANGED <<pc, key>>,
           NEW k \in Keys \cap K, NEW n
    PROVE  NotOlder(k, n)'
BY DropRaces DEF NotOlder


-----------------------------------------------------------------------------
(* While the watch is on, stale metadata is about to be dropped            *)

LEMMA ApplyPending ==
    ASSUME NEW paths \in Changes, Apply(paths), watch = "on"
    PROVE  /\ \A k \in Tracked \cap Affected(paths) : Pending(k)'
           /\ \A k : Pending(k) => Pending(k)'
<1> DEFINE e == [number |-> changes', todo |-> InvalidateAll(paths)]
<1>1. events' = events \cup {e}
    BY DEF Apply
<1>2. ASSUME NEW k \in Tracked \cap Affected(paths)
      PROVE  Pending(k)'
    <2>1. PICK i \in DOMAIN InvalidateAll(paths) : k \in InvalidateAll(paths)[i]
        BY InvalidateCovers
    <2>2. e \in events' /\ e.todo = InvalidateAll(paths)
        BY <1>1
    <2> HIDE DEF e
    <2> QED  BY <2>1, <2>2 DEF Pending
<1>3. ASSUME NEW k, Pending(k)
      PROVE  Pending(k)'
    BY <1>1, <1>3 DEF Pending
<1> QED  BY <1>2, <1>3

LEMMA EventPending ==
    ASSUME CachedTypes, NEW e \in events, ApplyEvent(e), NEW k \in Keys, Pending(k)
    PROVE  Pending(k)' \/ NotOlder(k, version[k])'
<1>1. PICK f \in events : \E i \in DOMAIN f.todo : k \in f.todo[i]
    BY DEF Pending
<1>2. CASE f # e
    BY <1>1, <1>2 DEF ApplyEvent, Pending
<1>3. CASE f = e
    <2>1. e \in [number : Nat, todo : Seq(SUBSET Keys)] /\ e.todo # <<>>
        BY <1>1, <1>3 DEF CachedTypes, RemoteTypes
    <2>2. k \in Head(e.todo) \/ \E i \in DOMAIN Tail(e.todo) : k \in Tail(e.todo)[i]
        <3>1. PICK i \in DOMAIN e.todo : k \in e.todo[i]
            BY <1>1, <1>3
        <3> DEFINE s == e.todo
        <3>2. s \in Seq(SUBSET Keys) /\ s # <<>>
            BY <2>1
        <3> HIDE DEF s
        <3>3. \A x : (\E j \in DOMAIN s : x = s[j])
                        => x = Head(s) \/ \E j \in DOMAIN Tail(s) : x = Tail(s)[j]
            BY <3>2, TailType
        <3> QED  BY <3>1, <3>3 DEF s
    <2>3. CASE k \in Head(e.todo)
        BY <2>3, NotOlderDropped DEF ApplyEvent
    <2>4. ASSUME NEW i \in DOMAIN Tail(e.todo), k \in Tail(e.todo)[i]
          PROVE  Pending(k)'
        <3>1. 1 \in 1 .. (Len(e.todo) - 1)
            BY <2>1, <2>4, TailType
        <3>2. /\ [e EXCEPT !.todo = Tail(@)] \in events'
              /\ [e EXCEPT !.todo = Tail(@)].todo = Tail(e.todo)
            BY <2>1, <3>1, EventTail DEF ApplyEvent
        <3> QED  BY <2>4, <3>2 DEF Pending
    <2> QED  BY <2>2, <2>3, <2>4
<1> QED  BY <1>2, <1>3

LEMMA HeldNothingYet ==
    ASSUME CachedTypes, StartWatch, NEW k \in Keys
    PROVE  Held(k)' = {}
<1>1. /\ DOMAIN cache'[k[1]] = {}
      /\ \A c \in Clients : pc'[c] = "idle"
    BY KeyPair DEF StartWatch, storeVars, CachedTypes, NothingYet
<1> QED  BY <1>1 DEF Held

LEMMA WatchStep ==
    ASSUME CachedTypes, CachedStep
    PROVE  watch' # watch => StartWatch \/ StopWatch
BY DEF CachedStep, Next, Step, GiveUp, Lookup, StartChange, RemoteReads,
   RemoteChanges, Lead, Join, FetchReturns, Fill, Land, Return, ChangeReturns,
   Invalidate, FinishChange, FetchFails, ChangeFails, ExternalChange, ApplyEvent,
   MissEvent, Tick, Marks, vars

LEMMA WatchInvStep ==
    ASSUME CachedTypes, CachedStep, WatchInv
    PROVE  WatchInv'
<1> SUFFICES ASSUME watch' = "on", NEW k \in Tracked
             PROVE  Pending(k)' \/ NotOlder(k, version[k])'
    BY DEF WatchInv
<1>k. k \in Keys /\ version[k] \in Nat
    BY DEF Tracked, CachedTypes, RemoteTypes
<1>1. CASE watch # "on"
    <2>1. StartWatch
        BY <1>1, WatchStep DEF StopWatch
    <2> QED  BY <1>k, <2>1, HeldNothingYet DEF NotOlder
<1>2. CASE watch = "on" /\ NotOlder(k, version[k]) /\ version'[k] = version[k]
    <2>1. NotOlder(k, version[k])' <=> \A a \in Held(k)' : a.raced \/ a.version >= version[k]
        BY <1>2 DEF NotOlder
    <2> DEFINE n == version[k]
    <2>2. n \in Nat /\ n <= version[k] /\ NotOlder(k, n)
        BY <1>k, <1>2
    <2>3. \A a \in Held(k) : a.raced \/ a.version >= n
        BY <1>2 DEF NotOlder
    <2>4. \A a \in Held(k)' : a.raced \/ a.version >= n
        BY <1>k, <2>3, HeldOrigin
    <2> QED  BY <2>1, <2>4
<1>3. CASE watch = "on" /\ Pending(k)
    <2>1. CASE UNCHANGED remoteVars
        BY <1>3, <2>1 DEF remoteVars, Pending
    <2>2. CASE \E paths \in Changes : Apply(paths)
        BY <1>3, <2>2, ApplyPending
    <2>3. CASE \E e \in events : ApplyEvent(e)
        BY <1>k, <1>3, <2>3, EventPending
    <2> QED  BY <1>3, <2>1, <2>2, <2>3, RemoteStep DEF MissEvent
<1>4. CASE watch = "on" /\ version'[k] # version[k]
    <2>1. PICK paths \in Changes : Apply(paths)
        BY <1>4, RemoteStep DEF remoteVars, ApplyEvent, MissEvent
    <2>2. k \in Affected(paths)
        BY <1>k, <1>4, <2>1 DEF Apply
    <2> QED  BY <1>4, <2>1, <2>2, ApplyPending
<1> QED  BY <1>1, <1>2, <1>3, <1>4 DEF WatchInv


-----------------------------------------------------------------------------
(* What a step does to a client                                            *)

(* Steps that leave the changes of clients and what is acked alone.        *)
LEMMA NoChangeStep ==
    ASSUME CachedTypes, CachedStep,
           ~ \E c \in Clients :
                \/ \E paths \in Changes : StartChange(c, paths)
                \/ RemoteChanges(c) \/ ChangeFails(c)
                \/ ChangeReturns(c) \/ Invalidate(c) \/ FinishChange(c)
    PROVE  /\ UNCHANGED writeVars
           /\ \A c \in Clients : pc'[c] \in {"changed", "invalidate"} => pc'[c] = pc[c]
<1> USE DEF CachedTypes, FlightInv, FlightTypes
<1>1. ASSUME NEW c \in Clients, NEW k \in Reads, Lookup(c, k)
      PROVE  /\ UNCHANGED writeVars
             /\ \A d \in Clients : pc'[d] \in {"changed", "invalidate"} => pc'[d] = pc[d]
    BY <1>1, LookupEffect
<1>2. ASSUME NEW c \in Clients,
             \/ Lead(c) \/ Join(c) \/ FetchReturns(c) \/ Fill(c) \/ Land(c) \/ Return(c)
             \/ FetchFails(c) \/ RemoteReads(c)
      PROVE  /\ UNCHANGED writeVars
             /\ \A d \in Clients : pc'[d] \in {"changed", "invalidate"} => pc'[d] = pc[d]
    BY <1>2 DEF Lead, Join, FetchReturns, Fill, Land, Return, FetchFails, RemoteReads, Goto
<1>3. CASE \/ \E paths \in Changes : ExternalChange(paths)
           \/ \E e \in events : ApplyEvent(e) \/ MissEvent(e)
           \/ StartWatch \/ StopWatch \/ Tick \/ UNCHANGED vars \/ Marks
    BY <1>3 DEF ExternalChange, ApplyEvent, MissEvent, StartWatch, StopWatch, Tick,
       vars, Marks
<1> QED  BY <1>1, <1>2, <1>3 DEF CachedStep, Next, Step, GiveUp

LEMMA ChangeStep ==
    ASSUME CachedTypes, CachedStep, NEW c \in Clients,
           pc'[c] \in {"changed", "invalidate"}
    PROVE  \/ pc'[c] = pc[c] /\ UNCHANGED <<change[c], todo[c]>>
           \/ RemoteChanges(c) \/ ChangeReturns(c) \/ Invalidate(c)
<1> USE DEF CachedTypes, FlightInv, FlightTypes, WriteTypes
<1>1. CASE ~ \E d \in Clients :
                \/ \E paths \in Changes : StartChange(d, paths)
                \/ RemoteChanges(d) \/ ChangeFails(d)
                \/ ChangeReturns(d) \/ Invalidate(d) \/ FinishChange(d)
    BY <1>1, NoChangeStep DEF writeVars
<1>2. ASSUME NEW d \in Clients,
             \/ \E paths \in Changes : StartChange(d, paths)
             \/ RemoteChanges(d) \/ ChangeFails(d)
             \/ ChangeReturns(d) \/ Invalidate(d) \/ FinishChange(d)
      PROVE  d # c => pc'[c] = pc[c] /\ UNCHANGED <<change[c], todo[c]>>
    BY <1>2 DEF StartChange, RemoteChanges, ChangeFails, ChangeReturns, Invalidate,
       FinishChange, Goto
<1>3. CASE (\E paths \in Changes : StartChange(c, paths)) \/ ChangeFails(c)
              \/ FinishChange(c)
    BY <1>3 DEF StartChange, ChangeFails, FinishChange, Goto
<1> QED  BY <1>1, <1>2, <1>3

LEMMA AckedStep ==
    ASSUME CachedTypes, CachedStep
    PROVE  UNCHANGED acked \/ \E c \in Clients : FinishChange(c)
<1>1. CASE ~ \E d \in Clients :
                \/ \E paths \in Changes : StartChange(d, paths)
                \/ RemoteChanges(d) \/ ChangeFails(d)
                \/ ChangeReturns(d) \/ Invalidate(d) \/ FinishChange(d)
    BY <1>1, NoChangeStep DEF writeVars
<1>2. ASSUME NEW d \in Clients,
             \/ \E paths \in Changes : StartChange(d, paths)
             \/ RemoteChanges(d) \/ ChangeFails(d)
             \/ ChangeReturns(d) \/ Invalidate(d)
      PROVE  UNCHANGED acked
    BY <1>2 DEF StartChange, RemoteChanges, ChangeFails, ChangeReturns, Invalidate
<1> QED  BY <1>1, <1>2

(* A lookup keeps its key and its floor until it is over.                  *)
LEMMA LookupStep ==
    ASSUME CachedTypes, CachedStep, NEW c \in Clients,
           pc'[c] \in {"miss", "ask", "join", "fill", "land", "return"}
    PROVE  \/ /\ UNCHANGED <<key[c], floor[c]>>
              /\ pc[c] \in {"miss", "ask", "join", "fill", "land", "return"}
              /\ pc'[c] # "return" => pc[c] # "return"
           \/ \E k \in Reads : Lookup(c, k)
<1> USE DEF CachedTypes, FlightInv, FlightTypes, WriteTypes
<1>1. ASSUME NEW d \in Clients, NEW k \in Reads, Lookup(d, k), d # c
      PROVE  UNCHANGED <<key[c], floor[c], pc[c]>>
    <2>1. /\ key' = [key EXCEPT ![d] = k] /\ floor' = [floor EXCEPT ![d] = acked[k]]
          /\ pc' \in {[pc EXCEPT ![d] = "return"], [pc EXCEPT ![d] = "miss"]}
        BY <1>1 DEF Lookup, Goto
    <2> QED  BY <1>1, <2>1
<1>2. ASSUME NEW d \in Clients, Return(d)
      PROVE  UNCHANGED <<key[c], floor[c], pc[c]>>
    BY <1>2 DEF Return, Goto
<1>3. ASSUME NEW d \in Clients,
             \/ Lead(d) \/ Join(d) \/ FetchReturns(d) \/ Fill(d) \/ Land(d)
             \/ FetchFails(d) \/ RemoteReads(d)
      PROVE  /\ UNCHANGED <<key[c], floor[c]>>
             /\ pc[c] \in {"miss", "ask", "join", "fill", "land", "return"}
             /\ pc'[c] # "return" => pc[c] # "return"
    BY <1>3 DEF Lead, Join, FetchReturns, Fill, Land, FetchFails, RemoteReads, Goto,
       readVars
<1>4. ASSUME NEW d \in Clients,
             \/ \E paths \in Changes : StartChange(d, paths)
             \/ RemoteChanges(d) \/ ChangeFails(d)
             \/ ChangeReturns(d) \/ Invalidate(d) \/ FinishChange(d)
      PROVE  UNCHANGED <<key[c], floor[c], pc[c]>>
    BY <1>4 DEF StartChange, RemoteChanges, ChangeFails, ChangeReturns, Invalidate,
       FinishChange, Goto, readVars
<1>5. CASE \/ \E paths \in Changes : ExternalChange(paths)
           \/ \E e \in events : ApplyEvent(e) \/ MissEvent(e)
           \/ StartWatch \/ StopWatch \/ Tick \/ UNCHANGED vars \/ Marks
    BY <1>5 DEF ExternalChange, ApplyEvent, MissEvent, StartWatch, StopWatch, Tick,
       vars, Marks, readVars
<1> QED  BY <1>1, <1>2, <1>3, <1>4, <1>5 DEF CachedStep, Next, Step, GiveUp

(* Where the answers come from that lookups return.                        *)
LEMMA ReturnStep ==
    ASSUME CachedTypes, CachedStep, NEW c \in Clients, pc'[c] = "return"
    PROVE  \/ /\ pc[c] = "return" /\ UNCHANGED now
              /\ answer'[c] = answer[c] \/ answer'[c].raced
              /\ answer'[c].ok = answer[c].ok
              /\ answer'[c].readAt = answer[c].readAt
              /\ answer'[c].version = answer[c].version
           \/ \E d \in Clients :
                 /\ pc[d] = "land" /\ key[d] = key[c] /\ UNCHANGED <<key[c], now>>
                 /\ pc[c] \in {"land", "join"} /\ answer'[c] = answer[d]
           \/ \E k \in Reads : Lookup(c, k)
<1> USE DEF CachedTypes, FlightInv, FlightTypes, StoreTypes
<1>s. answer[c] \in Answers
    OBVIOUS
<1>1. ASSUME NEW d \in Clients, NEW k \in Reads, Lookup(d, k), d # c
      PROVE  UNCHANGED <<now, pc[c], answer[c]>>
    BY <1>1, LookupEffect
<1>2. ASSUME NEW d \in Clients,
             \/ Lead(d) \/ Join(d) \/ FetchReturns(d) \/ Fill(d)
             \/ FetchFails(d) \/ RemoteReads(d) \/ Return(d)
      PROVE  UNCHANGED <<now, pc[c], answer[c]>>
    BY <1>2 DEF Lead, Join, FetchReturns, Fill, FetchFails, RemoteReads, Return, Goto,
       readVars
<1>3. ASSUME NEW d \in Clients, Land(d)
      PROVE  \/ UNCHANGED <<now, pc[c], answer[c]>>
             \/ /\ pc[d] = "land" /\ key[d] = key[c] /\ UNCHANGED <<key[c], now>>
                /\ pc[c] \in {"land", "join"} /\ answer'[c] = answer[d]
    BY <1>3 DEF Land
<1>4. ASSUME NEW d \in Clients,
             \/ \E paths \in Changes : StartChange(d, paths)
             \/ RemoteChanges(d) \/ ChangeFails(d)
             \/ ChangeReturns(d) \/ FinishChange(d)
      PROVE  UNCHANGED <<now, pc[c], answer[c]>>
    BY <1>4 DEF StartChange, RemoteChanges, ChangeFails, ChangeReturns,
       FinishChange, Goto, readVars
<1>5. ASSUME NEW K, Drop(K), UNCHANGED <<pc, now>>
      PROVE  UNCHANGED <<now, pc[c], answer[c]>>
    BY <1>5, DropStore
<1>6. CASE \/ \E d \in Clients : Invalidate(d)
           \/ \E e \in events : ApplyEvent(e)
    BY <1>5, <1>6 DEF Invalidate, ApplyEvent
<1>7. CASE \/ \E paths \in Changes : ExternalChange(paths)
           \/ \E e \in events : MissEvent(e)
           \/ StartWatch \/ StopWatch \/ UNCHANGED vars
    BY <1>7 DEF ExternalChange, MissEvent, StartWatch, StopWatch, vars, readVars
<1>8. CASE Tick
    BY <1>8 DEF Tick
<1>9. CASE Marks
    BY <1>s, <1>9 DEF Marks, Answers
<1> QED
    BY <1>1, <1>2, <1>3, <1>4, <1>6, <1>7, <1>8, <1>9 DEF CachedStep, Next, Step, GiveUp


LEMMA VersionsGrow ==
    ASSUME CachedTypes, CachedStep, NEW k \in Keys
    PROVE  version[k] <= version'[k] /\ version'[k] \in Nat
<1>1. CASE UNCHANGED version
    BY <1>1 DEF CachedTypes, RemoteTypes
<1>2. CASE \E paths \in Changes : Apply(paths)
    BY <1>2, ApplyTypes DEF CachedTypes, RemoteTypes
<1> QED  BY <1>1, <1>2, RemoteStep DEF remoteVars, ApplyEvent, MissEvent

-----------------------------------------------------------------------------
(* A change that is done is seen                                           *)

(* FinishChange reports no more than the remote has, and nothing that what *)
(* is held may miss.                                                       *)
LEMMA FinishShows ==
    ASSUME CachedTypes, WritesInv, NEW c \in Clients, FinishChange(c), NEW k \in Keys
    PROVE  /\ acked[k] <= acked'[k] /\ acked'[k] <= version[k]
           /\ k \in Tracked => NotOlder(k, acked'[k])
<1> DEFINE paths == change[c].paths
           n     == change[c].number
<1>1. /\ pc[c] = "invalidate" /\ todo[c] = <<>>
      /\ acked'[k] = IF k \in Affected(paths) /\ n > acked[k] THEN n ELSE acked[k]
    BY DEF FinishChange
<1>2. /\ acked[k] <= version[k] /\ acked[k] \in Nat /\ n \in Nat
      /\ k \in Tracked => NotOlder(k, acked[k])
    BY DEF WritesInv, DoneShows, CachedTypes, WriteTypes
<1>3. CASE acked'[k] = acked[k]
    BY <1>2, <1>3
<1>4. CASE k \in Affected(paths) /\ n > acked[k]
    <2>1. n <= version[k]
        BY <1>1, <1>4 DEF WritesInv, ChangesShow
    <2>2. ASSUME k \in Tracked  PROVE NotOlder(k, n)
        BY <1>1, <1>4, <2>2 DEF WritesInv, ChangesShow
    <2> QED  BY <1>1, <1>2, <1>4, <2>1, <2>2
<1> QED  BY <1>1, <1>3, <1>4

LEMMA AckedGrows ==
    ASSUME CachedTypes, CachedStep, WritesInv, NEW k \in Keys
    PROVE  /\ acked[k] <= acked'[k] /\ acked'[k] <= version[k]
           /\ k \in Tracked => NotOlder(k, acked'[k])
<1>1. CASE UNCHANGED acked
    BY <1>1 DEF WritesInv, DoneShows, CachedTypes, WriteTypes
<1> QED  BY <1>1, AckedStep, FinishShows

LEMMA DoneShowsStep ==
    ASSUME CachedTypes, CachedStep, WritesInv
    PROVE  DoneShows'
<1>1. ASSUME NEW k \in Keys
      PROVE  acked'[k] <= version'[k]
    <2>1. acked'[k] \in Nat /\ version[k] \in Nat
        BY CachedTypesStep DEF CachedTypes, RemoteTypes, WriteTypes
    <2> QED  BY <2>1, AckedGrows, VersionsGrow
<1>2. ASSUME NEW k \in Tracked
      PROVE  NotOlder(k, acked[k])'
    <2>1. k \in Keys
        BY DEF Tracked
    <2>2. acked'[k] \in Nat
        BY <2>1, CachedTypesStep DEF CachedTypes, WriteTypes
    <2>3. PICK n \in Nat : n = acked'[k]
        BY <2>2
    <2>4. NotOlder(k, n)'
        BY <2>1, <2>3, AckedGrows, NotOlderStep
    <2> QED  BY <2>3, <2>4 DEF NotOlder
<1> QED  BY <1>1, <1>2 DEF DoneShows

LEMMA ChangesShowStep ==
    ASSUME CachedTypes, CachedStep, WritesInv
    PROVE  ChangesShow'
<1>1. ASSUME NEW c \in Clients, pc'[c] \in {"changed", "invalidate"},
             NEW k \in Keys \cap Affected(change'[c].paths)
      PROVE  change'[c].number <= version'[k]
    <2>1. CASE RemoteChanges(c)
        <3>1. /\ change[c].paths \in Changes /\ Apply(change[c].paths)
              /\ change'[c].paths = change[c].paths /\ change'[c].number = changes'
            BY <2>1 DEF RemoteChanges, CachedTypes, WriteTypes
        <3>2. version'[k] = changes' /\ changes' \in Nat
            BY <1>1, <3>1, ApplyTypes DEF CachedTypes, RemoteTypes
        <3> QED  BY <3>1, <3>2
    <2>2. CASE pc[c] \in {"changed", "invalidate"} /\ UNCHANGED change[c]
        <3>1. change[c].number <= version[k] /\ change[c].number \in Nat
            BY <1>1, <2>2 DEF WritesInv, ChangesShow, CachedTypes, WriteTypes
        <3>2. version[k] \in Nat
            BY DEF CachedTypes, RemoteTypes
        <3> QED  BY <2>2, <3>1, <3>2, VersionsGrow
    <2> QED  BY <1>1, <2>1, <2>2, ChangeStep DEF ChangeReturns, Invalidate
<1>2. ASSUME NEW c \in Clients, pc'[c] = "invalidate",
             NEW k \in Tracked, k \in Affected(change'[c].paths)
      PROVE  \/ \E i \in DOMAIN todo'[c] : k \in todo'[c][i]
             \/ NotOlder(k, change[c].number)'
    <2>k. k \in Keys
        BY DEF Tracked
    <2>n. change[c].number \in Nat
        BY DEF CachedTypes, WriteTypes
    <2>1. CASE ChangeReturns(c)
        <3>1. /\ change[c].paths \in Changes /\ UNCHANGED change
              /\ todo'[c] = InvalidateAll(change[c].paths)
            BY <2>1 DEF ChangeReturns, CachedTypes, WriteTypes
        <3> QED  BY <1>2, <3>1, InvalidateCovers
    <2>2. ASSUME pc[c] = "invalidate", UNCHANGED change[c], NotOlder(k, change[c].number)
          PROVE  NotOlder(k, change[c].number)'
        <3>1. PICK n \in Nat : n = change[c].number
            BY <2>n
        <3>2. n <= version[k]
            BY <1>2, <2>k, <2>2, <3>1 DEF WritesInv, ChangesShow
        <3>3. NotOlder(k, n)'
            BY <2>k, <2>2, <3>1, <3>2, NotOlderStep
        <3> QED  BY <2>2, <3>1, <3>3 DEF NotOlder
    <2>3. CASE pc[c] = "invalidate" /\ UNCHANGED <<change[c], todo[c]>>
        BY <1>2, <2>2, <2>3 DEF WritesInv, ChangesShow
    <2>4. CASE Invalidate(c)
        <3>1. /\ pc[c] = "invalidate" /\ UNCHANGED <<pc, key, change>>
              /\ todo[c] \in Seq(SUBSET Keys) /\ todo[c] # <<>>
              /\ Drop(Head(todo[c])) /\ todo'[c] = Tail(todo[c])
            BY <2>4 DEF Invalidate, CachedTypes, WriteTypes
        <3>2. CASE NotOlder(k, change[c].number)
            BY <2>2, <3>1, <3>2
        <3>3. ASSUME NEW i \in DOMAIN todo[c], k \in todo[c][i]
              PROVE  \/ \E j \in DOMAIN todo'[c] : k \in todo'[c][j]
                     \/ NotOlder(k, change[c].number)'
            <4>1. PICK s \in Seq(SUBSET Keys) : s = todo[c] /\ s # <<>>
                BY <3>1
            <4>2. \A x : (\E j \in DOMAIN s : x = s[j])
                            => x = Head(s) \/ \E j \in DOMAIN Tail(s) : x = Tail(s)[j]
                <5>1. s # <<>>
                    BY <4>1
                <5> QED  BY <5>1, TailType
            <4>3. k \in Head(s) \/ \E j \in DOMAIN Tail(s) : k \in Tail(s)[j]
                BY <3>3, <4>1, <4>2
            <4>4. CASE k \in Head(s)
                BY <2>k, <3>1, <4>1, <4>4, DropRaces DEF NotOlder
            <4> QED  BY <3>1, <4>1, <4>3, <4>4
        <3> QED  BY <1>2, <3>1, <3>2, <3>3 DEF WritesInv, ChangesShow
    <2> QED  BY <1>2, <2>1, <2>3, <2>4, ChangeStep
        DEF RemoteChanges, Goto, CachedTypes, FlightInv, FlightTypes
<1> QED  BY <1>1, <1>2 DEF ChangesShow

LEMMA FloorsHoldStep ==
    ASSUME CachedTypes, CachedStep, WritesInv
    PROVE  FloorsHold'
<1> SUFFICES ASSUME NEW c \in Clients, pc'[c] \in {"miss", "ask", "join", "fill", "land"}
             PROVE  floor'[c] <= acked'[key'[c]]
    BY DEF FloorsHold
<1>1. CASE \E k \in Reads : Lookup(c, k)
    <2>1. PICK k \in Reads : Lookup(c, k)
        BY <1>1
    <2>2. key'[c] = k /\ floor'[c] = acked[k] /\ k \in Keys
        BY <2>1, LookupEffect DEF CachedTypes, FlightInv, FlightTypes, WriteTypes
    <2> QED  BY <2>2, AckedGrows
<1>2. CASE /\ UNCHANGED <<key[c], floor[c]>>
           /\ pc[c] \in {"miss", "ask", "join", "fill", "land"}
    <2>1. PICK k \in Keys : k = key[c]
        BY <1>2 DEF CachedTypes, FlightInv, FlightTypes
    <2>2. /\ floor[c] <= acked[k] /\ acked[k] \in Nat /\ floor[c] \in Nat
          /\ acked'[k] \in Nat
        BY <1>2, <2>1, CachedTypesStep
        DEF WritesInv, FloorsHold, CachedTypes, WriteTypes
    <2> QED  BY <1>2, <2>1, <2>2, AckedGrows
<1> QED  BY <1>1, <1>2, LookupStep


LEMMA OnlyRacesMissWritesStep ==
    ASSUME CachedTypes, CachedStep, WritesInv
    PROVE  OnlyRacesMissWrites'
<1> SUFFICES ASSUME NEW c \in Clients, pc'[c] = "return", key'[c] \in Tracked,
                    answer'[c].ok
             PROVE  answer'[c].version >= floor'[c] \/ answer'[c].raced
    BY DEF OnlyRacesMissWrites
<1> USE DEF CachedTypes, FlightInv, FlightTypes, StoreTypes, WriteTypes
<1>1. ASSUME NEW k \in Reads, Lookup(c, k)
      PROVE  answer'[c].version >= floor'[c] \/ answer'[c].raced
    <2>1. /\ k \in Keys /\ key'[c] = k /\ floor'[c] = acked[k]
          /\ k[2] \in DOMAIN cache[k[1]]
          /\ answer'[c] = cache[k[1]][k[2]].answer
        BY <1>1, LookupEffect
    <2>2. answer'[c] \in Held(k)
        BY <2>1, HeldIs
    <2> QED  BY <2>1, <2>2 DEF WritesInv, DoneShows, NotOlder
<1>2. CASE ~\E k \in Reads : Lookup(c, k)
    <2>1. UNCHANGED <<key[c], floor[c]>>
        BY <1>2, LookupStep
    <2>2. CASE /\ pc[c] = "return"
               /\ answer'[c] = answer[c] \/ answer'[c].raced
               /\ answer'[c].ok = answer[c].ok
        BY <2>1, <2>2 DEF WritesInv, OnlyRacesMissWrites
    <2>3. ASSUME NEW d \in Clients, pc[d] = "land", key[d] = key[c],
                 pc[c] \in {"land", "join"}, answer'[c] = answer[d]
          PROVE  answer'[c].version >= floor'[c] \/ answer'[c].raced
        <3>1. PICK k \in Tracked : k = key[c]
            BY <2>1
        <3>2. k \in Keys
            BY DEF Tracked
        <3>3. answer[d] \in Held(k)
            BY <2>3, <3>1, HeldIs
        <3>4. answer[d].raced \/ answer[d].version >= acked[k]
            BY <3>1, <3>3 DEF WritesInv, DoneShows, NotOlder
        <3>5. floor[c] <= acked[k] /\ floor[c] \in Nat /\ acked[k] \in Nat
              /\ answer[d].version \in Nat
            BY <2>3, <3>1, <3>2 DEF WritesInv, FloorsHold, Answers
        <3> QED  BY <2>1, <2>3, <3>4, <3>5
    <2> QED  BY <1>2, <2>2, <2>3, ReturnStep
<1> QED  BY <1>1, <1>2

LEMMA WritesInvStep ==
    ASSUME CachedTypes, CachedStep, WritesInv
    PROVE  WritesInv'
BY DoneShowsStep, ChangesShowStep, FloorsHoldStep, OnlyRacesMissWritesStep
DEF WritesInv


-----------------------------------------------------------------------------
(* No answer outlives its time                                             *)

(* Where the entries of the cache come from.                               *)
LEMMA EntryOrigin ==
    ASSUME CachedTypes, CachedStep, NEW k \in Keys, k[2] \in DOMAIN cache'[k[1]]
    PROVE  \/ /\ k[2] \in DOMAIN cache[k[1]]
              /\ cache'[k[1]][k[2]] = cache[k[1]][k[2]]
           \/ \E c \in Clients :
                 /\ pc[c] = "fill" /\ key[c] = k
                 /\ cache'[k[1]][k[2]].answer = answer[c]
                 /\ cache'[k[1]][k[2]].expires = now + TTLOf(k[1])
<1>1. ASSUME NEW c \in Clients, Fill(c)
      PROVE  \/ /\ k[2] \in DOMAIN cache[k[1]]
                /\ cache'[k[1]][k[2]] = cache[k[1]][k[2]]
             \/ /\ pc[c] = "fill" /\ key[c] = k
                /\ cache'[k[1]][k[2]].answer = answer[c]
                /\ cache'[k[1]][k[2]].expires = now + TTLOf(k[1])
    BY <1>1, FillEffect
<1>2. ASSUME NEW K, Drop(K)
      PROVE  /\ k[2] \in DOMAIN cache[k[1]]
             /\ cache'[k[1]][k[2]] = cache[k[1]][k[2]]
    BY <1>2, DropStore DEF CachedTypes
<1>3. ASSUME NEW c \in Clients,
             \/ Lead(c) \/ Join(c) \/ FetchReturns(c) \/ Land(c) \/ Return(c)
             \/ ChangeReturns(c) \/ FinishChange(c) \/ GiveUp(c)
             \/ RemoteReads(c) \/ RemoteChanges(c)
      PROVE  UNCHANGED cache
    BY <1>3 DEF Lead, Join, FetchReturns, Land, Return, ChangeReturns, FinishChange,
       GiveUp, FetchFails, ChangeFails, RemoteReads, RemoteChanges, storeVars
<1>4. ASSUME \/ \E c \in Clients : \/ \E r \in Reads : Lookup(c, r)
                                   \/ \E paths \in Changes : StartChange(c, paths)
             \/ \E paths \in Changes : ExternalChange(paths)
             \/ \E e \in events : MissEvent(e)
             \/ StartWatch \/ StopWatch \/ Tick \/ UNCHANGED vars \/ Marks
      PROVE  UNCHANGED cache
    BY <1>4 DEF Lookup, StartChange, ExternalChange, MissEvent, StartWatch, StopWatch,
       Tick, vars, Marks, storeVars
<1> QED
    BY <1>1, <1>2, <1>3, <1>4 DEF CachedStep, Next, Step, Invalidate, ApplyEvent

(* How a flight goes on.                                                   *)
LEMMA AskStep ==
    ASSUME CachedTypes, CachedStep, NEW c \in Clients, pc'[c] \in {"ask", "fill", "land"}
    PROVE  \/ /\ UNCHANGED <<now, pc[c], askedAt[c]>>
              /\ answer'[c].ok = answer[c].ok
              /\ answer'[c].readAt = answer[c].readAt
           \/ Tick \/ Lead(c) \/ RemoteReads(c) \/ FetchReturns(c) \/ Fill(c)
           \/ FetchFails(c)
<1> USE DEF CachedTypes, FlightInv, FlightTypes, StoreTypes, WriteTypes
<1>1. ASSUME NEW d \in Clients, NEW k \in Reads, Lookup(d, k)
      PROVE  UNCHANGED <<now, pc[c], askedAt[c], answer[c]>>
    <2>1. /\ UNCHANGED <<now, askedAt>> /\ pc'[d] \in {"return", "miss"}
          /\ d # c => UNCHANGED <<pc[c], answer[c]>>
        BY <1>1, LookupEffect
    <2> QED  BY <2>1
<1>2. ASSUME NEW d \in Clients,
             \/ Join(d) \/ Return(d) \/ ChangeReturns(d) \/ FinishChange(d)
             \/ ChangeFails(d) \/ RemoteChanges(d)
             \/ \E paths \in Changes : StartChange(d, paths)
      PROVE  UNCHANGED <<now, pc[c], askedAt[c], answer[c]>>
    BY <1>2 DEF Join, Return, ChangeReturns, FinishChange, ChangeFails, RemoteChanges,
       StartChange, Goto, readVars
<1>3. ASSUME NEW d \in Clients, d # c,
             \/ Lead(d) \/ RemoteReads(d) \/ FetchReturns(d) \/ Fill(d) \/ FetchFails(d)
      PROVE  UNCHANGED <<now, pc[c], askedAt[c], answer[c]>>
    BY <1>3 DEF Lead, RemoteReads, FetchReturns, Fill, FetchFails, Goto, readVars
<1>4. ASSUME NEW d \in Clients, Land(d)
      PROVE  UNCHANGED <<now, pc[c], askedAt[c], answer[c]>>
    BY <1>4 DEF Land
<1>5. CASE \/ \E d \in Clients : Invalidate(d)
           \/ \E e \in events : ApplyEvent(e)
    <2>1. /\ \E K : Drop(K)
          /\ UNCHANGED <<now, pc, askedAt>>
        BY <1>5 DEF Invalidate, ApplyEvent
    <2> QED  BY <2>1, DropStore
<1>6. CASE \/ \E paths \in Changes : ExternalChange(paths)
           \/ \E e \in events : MissEvent(e)
           \/ StartWatch \/ StopWatch \/ UNCHANGED vars
    BY <1>6 DEF ExternalChange, MissEvent, StartWatch, StopWatch, vars, readVars
<1>7. CASE Marks
    BY <1>7 DEF Marks
<1> QED
    BY <1>1, <1>2, <1>3, <1>4, <1>5, <1>6, <1>7 DEF CachedStep, Next, Step, GiveUp

LEMMA FlightAgeStep ==
    ASSUME CachedTypes, CachedStep, AgeInv, NEW c \in Clients,
           pc'[c] \in {"ask", "fill", "land"}
    PROVE  /\ pc'[c] = "ask" =>
                 /\ askedAt'[c] <= now' /\ now' <= askedAt'[c] + Timeout
                 /\ answer'[c].ok => askedAt'[c] <= answer'[c].readAt
           /\ (pc'[c] # "ask" /\ answer'[c].ok) => now' <= answer'[c].readAt + Timeout
<1> USE CachedFSAssumption
    DEF CachedTypes, FlightInv, FlightTypes, StoreTypes, WriteTypes, AgeInv
<1>1. CASE /\ UNCHANGED <<now, pc[c], askedAt[c]>>
           /\ answer'[c].ok = answer[c].ok
           /\ answer'[c].readAt = answer[c].readAt
    BY <1>1
<1>2. CASE Tick
    <2>1. /\ UNCHANGED <<pc, askedAt, answer>> /\ pc[c] = "ask"
          /\ now < askedAt[c] + Timeout /\ now' = now + 1
        BY <1>2 DEF Tick, readVars
    <2>2. /\ askedAt[c] \in Nat /\ Timeout \in Nat /\ now \in Nat
          /\ askedAt[c] <= now /\ answer[c].ok => askedAt[c] <= answer[c].readAt
        BY <2>1
    <2> QED  BY <2>1, <2>2
<1>3. CASE Lead(c)
    <2>1. /\ pc[c] = "miss" /\ UNCHANGED <<now, answer>>
          /\ pc'[c] = "ask" /\ askedAt'[c] = now
        BY <1>3 DEF Lead, Goto
    <2>2. ~answer[c].ok
        BY <2>1 DEF NothingYet
    <2>3. now \in Nat /\ Timeout \in Nat
        OBVIOUS
    <2> QED  BY <2>1, <2>2, <2>3
<1>4. CASE RemoteReads(c)
    BY <1>4 DEF RemoteReads
<1>5. CASE FetchReturns(c)
    <2>1. /\ pc[c] = "ask" /\ answer[c].ok /\ UNCHANGED <<now, answer>>
          /\ pc'[c] = "fill"
        BY <1>5 DEF FetchReturns, Goto, readVars
    <2>2. answer[c].readAt \in Nat
        BY DEF Answers
    <2> QED  BY <2>1, <2>2
<1>6. CASE Fill(c)
    BY <1>6 DEF Fill, Goto, readVars
<1>7. CASE FetchFails(c)
    BY <1>7 DEF FetchFails, Goto, NoAnswer
<1> QED  BY <1>1, <1>2, <1>3, <1>4, <1>5, <1>6, <1>7, AskStep

LEMMA AgeInvStep ==
    ASSUME CachedTypes, CachedStep, AgeInv
    PROVE  AgeInv'
<1> USE CachedFSAssumption
<1>1. ASSUME NEW k \in Keys, k[2] \in DOMAIN cache'[k[1]]
      PROVE  cache'[k[1]][k[2]].expires
                <= cache'[k[1]][k[2]].answer.readAt + Timeout + TTLOf(k[1])
    <2>1. CASE /\ k[2] \in DOMAIN cache[k[1]]
               /\ cache'[k[1]][k[2]] = cache[k[1]][k[2]]
        BY <2>1 DEF AgeInv
    <2>2. ASSUME NEW c \in Clients, pc[c] = "fill",
                 cache'[k[1]][k[2]].answer = answer[c],
                 cache'[k[1]][k[2]].expires = now + TTLOf(k[1])
          PROVE  cache'[k[1]][k[2]].expires
                    <= cache'[k[1]][k[2]].answer.readAt + Timeout + TTLOf(k[1])
        <3>1. answer[c].readAt \in Nat /\ now \in Nat /\ TTLOf(k[1]) \in Nat
            BY DEF CachedTypes, StoreTypes, Answers, TTLOf
        <3>2. now <= answer[c].readAt + Timeout
            BY <2>2 DEF AgeInv, CachedTypes, NothingYet
        <3> QED  BY <2>2, <3>1, <3>2
    <2> QED  BY <1>1, <2>1, <2>2, EntryOrigin
<1>2. ASSUME NEW c \in Clients, pc'[c] = "return", answer'[c].ok
      PROVE  now' <= answer'[c].readAt + Timeout + TTLOf(key'[c][1])
    <2>1. ASSUME NEW k \in Reads, Lookup(c, k)
          PROVE  now' <= answer'[c].readAt + Timeout + TTLOf(key'[c][1])
        <3>1. /\ k \in Keys /\ key'[c] = k /\ now' = now
              /\ k[2] \in DOMAIN cache[k[1]] /\ now <= cache[k[1]][k[2]].expires
              /\ answer'[c] = cache[k[1]][k[2]].answer
            BY <1>2, <2>1, LookupEffect
            DEF CachedTypes, FlightInv, FlightTypes, StoreTypes, Hit, Live
        <3>2. cache[k[1]][k[2]].expires
                 <= cache[k[1]][k[2]].answer.readAt + Timeout + TTLOf(k[1])
            BY <3>1 DEF AgeInv
        <3>3. /\ cache[k[1]][k[2]] \in Entries
              /\ now \in Nat /\ TTLOf(k[1]) \in Nat
            BY <3>1, KeyPair DEF CachedTypes, StoreTypes, IsStore, TTLOf
        <3>4. /\ cache[k[1]][k[2]].expires \in Nat
              /\ cache[k[1]][k[2]].answer.readAt \in Nat
            BY <3>3 DEF Entries, Answers
        <3>5. PICK x \in Nat, y \in Nat :
                    /\ x = cache[k[1]][k[2]].expires
                    /\ y = cache[k[1]][k[2]].answer.readAt
            BY <3>4
        <3>6. now <= y + Timeout + TTLOf(k[1])
            <4>1. now <= x /\ x <= y + Timeout + TTLOf(k[1])
                BY <3>1, <3>2, <3>5
            <4> QED  BY <3>3, <4>1
        <3> QED  BY <3>1, <3>5, <3>6
    <2>2. CASE ~\E k \in Reads : Lookup(c, k)
        <3>1. UNCHANGED key[c]
            BY <1>2, <2>2, LookupStep
        <3>2. CASE /\ pc[c] = "return" /\ UNCHANGED now
                   /\ answer'[c].ok = answer[c].ok
                   /\ answer'[c].readAt = answer[c].readAt
            BY <1>2, <3>1, <3>2 DEF AgeInv, StalenessBounded
        <3>3. ASSUME NEW d \in Clients, pc[d] = "land", UNCHANGED now,
                     answer'[c] = answer[d]
              PROVE  now' <= answer'[c].readAt + Timeout + TTLOf(key'[c][1])
            <4>1. /\ now <= answer[d].readAt + Timeout
                  /\ answer[d].readAt \in Nat /\ now \in Nat /\ TTLOf(key[c][1]) \in Nat
                BY <1>2, <3>3 DEF AgeInv, CachedTypes, StoreTypes, Answers, TTLOf
            <4> QED  BY <3>1, <3>3, <4>1
        <3> QED  BY <1>2, <2>2, <3>2, <3>3, ReturnStep
    <2> QED  BY <2>1, <2>2
<1> QED  BY <1>1, <1>2, FlightAgeStep DEF AgeInv, StalenessBounded


-----------------------------------------------------------------------------
(* The mount's layer                                                       *)

(* A step of the mount is one of CachedFS, or marks answers.               *)
LEMMA NFSCases ==
    ASSUME [NFSNext]_allVars
    PROVE  \/ UNCHANGED nfsVars
           \/ \E c \in Clients : NFSFill(c) \/ NFSFinish(c) \/ NFSInvalidate(c)
BY DEF NFSNext, NFSStep, NFSLookup, NFSStartChange, allVars, nfsVars

LEMMA NFSMarks ==
    ASSUME CachedTypes, NEW c \in Clients, NFSInvalidate(c)
    PROVE  Marks
<1>1. \A d \in Clients : answer[d] \in Answers
    BY DEF CachedTypes, StoreTypes
<1>2. PICK k : k = Head(drops[c].keys)
    OBVIOUS
<1>3. answer' = [d \in Clients |->
                   IF answer[d].ok /\ key[d] = k /\ pc[d] = "return"
                   THEN [answer[d] EXCEPT !.raced = TRUE] ELSE answer[d]]
    BY <1>2 DEF NFSInvalidate
<1>4. answer' \in [Clients -> Answers]
    BY <1>1, <1>3 DEF Answers
<1>5. \A d \in Clients :
          \/ answer'[d] = answer[d]
          \/ pc[d] = "return" /\ answer'[d] = [answer[d] EXCEPT !.raced = TRUE]
    BY <1>3
<1>6. UNCHANGED <<remoteVars, watch, storeVars, now, pc, key, askedAt, writeVars, floor>>
    BY DEF NFSInvalidate
<1> QED  BY <1>4, <1>5, <1>6 DEF Marks

LEMMA NFSIsCached ==
    ASSUME CachedTypes, [NFSNext]_allVars
    PROVE  CachedStep
<1>1. ASSUME NEW c \in Clients, NFSInvalidate(c)  PROVE CachedStep
    BY <1>1, NFSMarks DEF CachedStep
<1>2. ASSUME NEW c \in Clients, \/ \E k \in Reads : NFSLookup(c, k)
                                \/ \E paths \in Changes : NFSStartChange(c, paths)
                                \/ NFSFill(c) \/ NFSFinish(c) \/ Within(c)
      PROVE  Next
    BY <1>2 DEF Next, Step, Within, NFSLookup, NFSStartChange, NFSFill, NFSFinish
<1>3. ASSUME Beyond \/ Tick  PROVE Next
    BY <1>3 DEF Next, Beyond
<1>4. ASSUME UNCHANGED allVars  PROVE UNCHANGED vars
    BY <1>4 DEF allVars
<1> QED  BY <1>1, <1>2, <1>3, <1>4 DEF NFSNext, NFSStep, CachedStep

LEMMA ConcatElements ==
    ASSUME NEW S, NEW s \in Seq(S), NEW t \in Seq(S)
    PROVE  /\ s \o t \in Seq(S)
           /\ \A x : Occurs(x, s) \/ Occurs(x, t) => Occurs(x, s \o t)
<1>1. /\ s \o t \in Seq(S)
      /\ Len(s \o t) = Len(s) + Len(t)
      /\ \A i \in 1 .. Len(s) + Len(t) :
            (s \o t)[i] = IF i <= Len(s) THEN s[i] ELSE t[i - Len(s)]
    BY ConcatProperties, Zenon
<1> DEFINE r == s \o t
<1>2. /\ r \in Seq(S) /\ DOMAIN r = 1 .. Len(s) + Len(t)
      /\ \A i \in 1 .. Len(s) + Len(t) :
            r[i] = IF i <= Len(s) THEN s[i] ELSE t[i - Len(s)]
    BY <1>1
<1>3. Len(s) \in Nat /\ Len(t) \in Nat /\ DOMAIN s = 1 .. Len(s) /\ DOMAIN t = 1 .. Len(t)
    OBVIOUS
<1> HIDE DEF r
<1>4. ASSUME NEW i \in DOMAIN s  PROVE \E j \in DOMAIN r : s[i] = r[j]
    BY <1>2, <1>3
<1>5. ASSUME NEW i \in DOMAIN t  PROVE \E j \in DOMAIN r : t[i] = r[j]
    <2>1. Len(s) + i \in DOMAIN r /\ r[Len(s) + i] = t[i]
        BY <1>2, <1>3
    <2> QED  BY <2>1
<1>6. \A x : Occurs(x, s) \/ Occurs(x, t) => Occurs(x, r)
    BY <1>4, <1>5 DEF Occurs
<1> QED  BY <1>2, <1>6 DEF r

(* What is dropped for a change is what it names, which the change affects. *)
LEMMA DropsNames ==
    ASSUME NEW paths \in Changes, NEW mkdir \in BOOLEAN
    PROVE  /\ NFSDrops(paths, mkdir) \in Seq(Keys)
           /\ Names(paths, mkdir) \subseteq Keys \cap Affected(paths)
           /\ \A k \in Names(paths, mkdir) :
                 Occurs(k, NFSDrops(paths, mkdir))
<1> DEFINE s == IF mkdir THEN <<>> ELSE [i \in DOMAIN paths |-> <<"stat", paths[i]>>]
           t == Listings(paths)
<1>1. /\ paths \in Seq(Paths)
      /\ ToSet(paths) = {paths[i] : i \in DOMAIN paths}
    <2>1. (\E p \in Paths : paths = <<p>>) \/ \E p \in Paths, q \in Paths : paths = <<p, q>>
        BY CachedFSAssumption
    <2>2. ASSUME NEW p \in Paths, paths = <<p>>  PROVE paths \in Seq(Paths)
        BY <2>2
    <2>3. ASSUME NEW p \in Paths, NEW q \in Paths, paths = <<p, q>>
          PROVE  paths \in Seq(Paths)
        BY <2>3
    <2> QED  BY <2>1, <2>2, <2>3 DEF ToSet
<1>2. \A i \in DOMAIN paths : paths[i] \in Paths
    BY <1>1
<1>3. s \in Seq(Keys) /\ t \in Seq(Keys)
    <2>1. DOMAIN paths = 1 .. Len(paths) /\ Len(paths) \in Nat
        BY <1>1
    <2>2. \A i \in 1 .. Len(paths) : /\ <<"stat", paths[i]>> \in Keys
                                     /\ <<"dir", Parent(paths[i])>> \in Keys
        BY <1>2, <2>1, ParentType DEF Keys, Kinds
    <2> DEFINE f == [i \in 1 .. Len(paths) |-> <<"stat", paths[i]>>]
               g == [i \in 1 .. Len(paths) |-> <<"dir", Parent(paths[i])>>]
    <2>3. f \in [1 .. Len(paths) -> Keys] /\ g \in [1 .. Len(paths) -> Keys]
        BY <2>2
    <2> HIDE DEF f, g
    <2>4. f \in Seq(Keys) /\ g \in Seq(Keys)
        BY <2>1, <2>3, SeqDef
    <2>5. s \in {<<>>, f} /\ t = g
        BY <2>1 DEF Listings, f, g
    <2>6. <<>> \in Seq(Keys)
        OBVIOUS
    <2> HIDE DEF s, t
    <2> QED  BY <2>4, <2>5, <2>6
<1>4. NFSDrops(paths, mkdir) = s \o t
    BY DEF NFSDrops
<1>5. ASSUME NEW k \in Names(paths, mkdir)
      PROVE  /\ k \in Keys \cap Affected(paths)
             /\ Occurs(k, s) \/ Occurs(k, t)
    <2>1. PICK i \in DOMAIN paths :
                \/ ~mkdir /\ k = <<"stat", paths[i]>>
                \/ k = <<"dir", Parent(paths[i])>>
        BY <1>1 DEF Names
    <2>2. k \in Affected(paths)
        BY <1>1, <2>1 DEF Affected, Kinds
    <2>3. CASE ~mkdir /\ k = <<"stat", paths[i]>>
        BY <2>2, <2>3, AffectedType DEF Occurs
    <2>4. CASE k = <<"dir", Parent(paths[i])>>
        BY <2>2, <2>4, AffectedType DEF Listings, Occurs
    <2> QED  BY <2>1, <2>3, <2>4
<1> HIDE DEF s, t
<1>6. /\ s \o t \in Seq(Keys)
      /\ \A x : Occurs(x, s) \/ Occurs(x, t) => Occurs(x, s \o t)
    BY <1>3, ConcatElements
<1> QED  BY <1>4, <1>5, <1>6


LEMMA TailOccurs ==
    ASSUME NEW S, NEW s \in Seq(S), s # <<>>
    PROVE  \A x : Occurs(x, s) <=> x = Head(s) \/ Occurs(x, Tail(s))
BY TailType DEF Occurs

LEMMA NFSFillEffect ==
    ASSUME CachedTypes, NFSTypes, NEW c \in Clients, NFSFill(c)
    PROVE  /\ pc[c] = "return" /\ key[c] \in Keys
           /\ UNCHANGED <<drops, done>>
           /\ IsStore(nfs')
           /\ \A k \in Keys : k[2] \in DOMAIN nfs'[k[1]] =>
                 \/ /\ k = key[c] /\ answer[c].ok
                    /\ nfs'[k[1]][k[2]].answer = answer[c]
                    /\ nfs'[k[1]][k[2]].expires = now + NFSTTLOf(k[1])
                 \/ /\ k[2] \in DOMAIN nfs[k[1]]
                    /\ nfs'[k[1]][k[2]] = nfs[k[1]][k[2]]
<1> DEFINE kind  == key[c][1]
           p     == key[c][2]
           entry == [answer |-> answer[c], expires |-> now + NFSTTLOf(kind)]
<1>1. pc[c] = "return" /\ key[c] \in Keys /\ UNCHANGED <<drops, done>>
    BY DEF NFSFill, Return, CachedTypes, NothingYet
<1>2. kind \in Kinds /\ p \in Paths /\ IsStore(nfs)
    BY <1>1, KeyPair DEF NFSTypes
<1>3. /\ entry \in Entries
      /\ entry.answer = answer[c] /\ entry.expires = now + NFSTTLOf(kind)
    BY <1>2, NFSAssumption DEF CachedTypes, StoreTypes, Entries, NFSTTLOf
<1>4. CASE ~answer[c].ok
    BY <1>1, <1>2, <1>4 DEF NFSFill
<1>5. CASE answer[c].ok
    <2>1. PICK m \in AfterSet(nfs[kind], p, entry, now, NFSMax) :
                nfs' = [nfs EXCEPT ![kind] = m]
        BY <1>5 DEF NFSFill
    <2> HIDE DEF entry, p, kind
    <2>2. /\ nfs' = [x \in Kinds |-> nfs'[x]]
          /\ nfs'[kind] = m /\ \A x \in Kinds : x # kind => nfs'[x] = nfs[x]
        BY <1>2, <2>1 DEF IsStore
    <2>3. /\ IsStore(nfs')
          /\ \A k \in Keys : k[2] \in DOMAIN nfs'[k[1]] =>
                \/ k = <<kind, p>> /\ nfs'[k[1]][k[2]] = entry
                \/ /\ k[2] \in DOMAIN nfs[k[1]]
                   /\ nfs'[k[1]][k[2]] = nfs[k[1]][k[2]]
        BY <1>2, <1>3, <2>1, <2>2, SetInStore
    <2> QED  BY <1>1, <1>3, <1>5, <2>3, KeyPair DEF kind, p
<1> QED  BY <1>4, <1>5

LEMMA NFSInvalidateEffect ==
    ASSUME CachedTypes, NFSTypes, NEW c \in Clients, NFSInvalidate(c),
           NEW h, h = Head(drops[c].keys)
    PROVE  /\ h \in Keys /\ ~Ready(c)
           /\ \A x : Occurs(x, drops[c].keys)
                        <=> x = h \/ Occurs(x, Tail(drops[c].keys))
           /\ Len(drops[c].keys) = 1 => \A x : ~Occurs(x, Tail(drops[c].keys))
           /\ Tail(drops[c].keys) \in Seq(Keys)
           /\ IsStore(nfs')
           /\ \A k \in Keys : k[2] \in DOMAIN nfs'[k[1]] =>
                 /\ k # h
                 /\ k[2] \in DOMAIN nfs[k[1]]
                 /\ nfs'[k[1]][k[2]] = nfs[k[1]][k[2]]
<1>1. PICK s \in Seq(Keys) : s = drops[c].keys
    BY DEF NFSTypes
<1>2. s # <<>> /\ h = Head(s) /\ ~Ready(c)
    BY <1>1 DEF NFSInvalidate, Ready
<1>3. /\ h \in Keys /\ Tail(s) \in Seq(Keys) /\ Len(Tail(s)) = Len(s) - 1
      /\ \A x : Occurs(x, s) <=> x = h \/ Occurs(x, Tail(s))
    <2>1. s # <<>>
        BY <1>2
    <2>2. Tail(s) \in Seq(Keys) /\ Len(Tail(s)) = Len(s) - 1
        BY <2>1, TailType
    <2>3. \A x : Occurs(x, s) <=> x = Head(s) \/ Occurs(x, Tail(s))
        BY <2>1, TailOccurs
    <2>4. Head(s) \in Keys
        BY <2>1
    <2> QED  BY <1>2, <2>2, <2>3, <2>4
<1>4. ASSUME Len(s) = 1
      PROVE  \A x : ~Occurs(x, Tail(s))
    <2> DEFINE t == Tail(s)
    <2>1. t \in Seq(Keys) /\ Len(t) = 0
        BY <1>3, <1>4
    <2> HIDE DEF t
    <2>2. DOMAIN t = {}
        BY <2>1
    <2>3. \A x : ~Occurs(x, t)
        BY <2>2 DEF Occurs
    <2> QED  BY <2>3 DEF t
<1>5. IsStore(nfs) /\ h[1] \in Kinds /\ h[2] \in Paths
    BY <1>3, KeyPair DEF NFSTypes
<1>6. nfs' = [nfs EXCEPT ![h[1]] = Without(nfs[h[1]], {h[2]})]
    BY <1>1, <1>2 DEF NFSInvalidate
<1>7. PICK m : m = Without(nfs[h[1]], {h[2]})
    OBVIOUS
<1>8. /\ DOMAIN m = DOMAIN nfs[h[1]] \ {h[2]}
      /\ \A p \in DOMAIN m : m[p] = nfs[h[1]][p]
    BY <1>7 DEF Without, Restrict
<1>9. /\ nfs' = [x \in Kinds |-> nfs'[x]]
      /\ nfs'[h[1]] = m /\ \A x \in Kinds : x # h[1] => nfs'[x] = nfs[x]
    BY <1>5, <1>6, <1>7 DEF IsStore
<1>10. IsStore(nfs')
    BY <1>5, <1>8, <1>9 DEF IsStore
<1>11. \A k \in Keys : k[2] \in DOMAIN nfs'[k[1]] =>
          /\ k # h
          /\ k[2] \in DOMAIN nfs[k[1]]
          /\ nfs'[k[1]][k[2]] = nfs[k[1]][k[2]]
    BY <1>5, <1>8, <1>9, KeyPair
<1> QED  BY <1>1, <1>2, <1>3, <1>4, <1>10, <1>11

(* What a step does to what a client has left to drop.                     *)
LEMMA DropsStep ==
    ASSUME CachedTypes, NFSTypes, [NFSNext]_allVars, NEW c \in Clients
    PROVE  /\ drops'[c] \in [keys : Seq(Keys), names : SUBSET Keys, number : Nat]
           /\ \/ UNCHANGED drops[c]
              \/ NFSFinish(c) /\ change[c].paths \in Changes
                    /\ \E mkdir \in BOOLEAN :
                          drops'[c] = [keys   |-> NFSDrops(change[c].paths, mkdir),
                                       names  |-> Names(change[c].paths, mkdir),
                                       number |-> change[c].number]
              \/ NFSInvalidate(c) /\ drops'[c].keys = <<>>
              \/ /\ NFSInvalidate(c) /\ drops'[c].keys = Tail(drops[c].keys)
                 /\ drops'[c].names = drops[c].names
                 /\ drops'[c].number = drops[c].number
<1> USE DEF NFSTypes
<1>1. ASSUME NFSFinish(c)
      PROVE  /\ drops'[c] \in [keys : Seq(Keys), names : SUBSET Keys, number : Nat]
             /\ change[c].paths \in Changes
             /\ \E mkdir \in BOOLEAN :
                   drops'[c] = [keys   |-> NFSDrops(change[c].paths, mkdir),
                                names  |-> Names(change[c].paths, mkdir),
                                number |-> change[c].number]
    <2>1. change[c].paths \in Changes /\ change[c].number \in Nat
        BY <1>1 DEF NFSFinish, FinishChange, CachedTypes, WriteTypes
    <2>2. PICK mkdir \in BOOLEAN :
                drops' = [drops EXCEPT ![c] =
                            [keys   |-> NFSDrops(change[c].paths, mkdir),
                             names  |-> Names(change[c].paths, mkdir),
                             number |-> change[c].number]]
        BY <1>1 DEF NFSFinish
    <2> QED  BY <2>1, <2>2, DropsNames
<1>2. ASSUME NFSInvalidate(c)
      PROVE  /\ drops'[c] \in [keys : Seq(Keys), names : SUBSET Keys, number : Nat]
             /\ \/ drops'[c].keys = <<>>
                \/ /\ drops'[c].keys = Tail(drops[c].keys)
                   /\ drops'[c].names = drops[c].names
                   /\ drops'[c].number = drops[c].number
    <2>1. Tail(drops[c].keys) \in Seq(Keys)
        BY <1>2, NFSInvalidateEffect
    <2>2. drops'[c] = IF Len(drops[c].keys) = 1
                      THEN NoDrops ELSE [drops[c] EXCEPT !.keys = Tail(drops[c].keys)]
        <3>1. CASE Len(drops[c].keys) = 1
            <4>1. drops' = [drops EXCEPT ![c] = NoDrops]
                BY <1>2, <3>1 DEF NFSInvalidate
            <4> QED  BY <3>1, <4>1
        <3>2. CASE Len(drops[c].keys) # 1
            <4>1. drops' = [drops EXCEPT ![c] = [drops[c] EXCEPT !.keys = Tail(drops[c].keys)]]
                BY <1>2, <3>2 DEF NFSInvalidate
            <4> QED  BY <3>2, <4>1
        <3> QED  BY <3>1, <3>2
    <2>3. CASE drops'[c] = NoDrops
        BY <2>3 DEF NoDrops
    <2>4. CASE drops'[c] = [drops[c] EXCEPT !.keys = Tail(drops[c].keys)]
        BY <2>1, <2>4
    <2> QED  BY <2>2, <2>3, <2>4
<1>3. ASSUME NEW d \in Clients, d # c, NFSFinish(d) \/ NFSInvalidate(d)
      PROVE  UNCHANGED drops[c]
    BY <1>3 DEF NFSFinish, NFSInvalidate
<1>4. ASSUME UNCHANGED nfsVars \/ \E d \in Clients : NFSFill(d)
      PROVE  UNCHANGED drops[c]
    BY <1>4 DEF nfsVars, NFSFill
<1>5. drops[c] \in [keys : Seq(Keys), names : SUBSET Keys, number : Nat]
    OBVIOUS
<1> QED  BY <1>1, <1>2, <1>3, <1>4, <1>5, NFSCases

LEMMA NFSTypesStep ==
    ASSUME CachedTypes, NFSTypes, [NFSNext]_allVars
    PROVE  NFSTypes'
<1>1. IsStore(nfs')
    <2>1. CASE UNCHANGED nfsVars \/ \E c \in Clients : NFSFinish(c)
        BY <2>1 DEF nfsVars, NFSFinish, NFSTypes
    <2> QED  BY <2>1, NFSCases, NFSFillEffect, NFSInvalidateEffect
<1>2. done' \in [Keys -> Nat]
    <2>1. CASE UNCHANGED nfsVars \/ \E c \in Clients : NFSFinish(c) \/ NFSFill(c)
        BY <2>1 DEF nfsVars, NFSFinish, NFSFill, NFSTypes
    <2>2. ASSUME NEW c \in Clients, NFSInvalidate(c)
          PROVE  done' \in [Keys -> Nat]
        <3>1. drops[c].number \in Nat
            BY DEF NFSTypes
        <3> QED  BY <2>2, <3>1 DEF NFSInvalidate, NFSTypes
    <2> QED  BY <2>1, <2>2, NFSCases
<1>3. drops' = [c \in Clients |-> drops'[c]]
    <2>1. CASE UNCHANGED nfsVars \/ \E c \in Clients : NFSFill(c)
        BY <2>1 DEF nfsVars, NFSFill, NFSTypes
    <2>2. CASE \E c \in Clients : NFSFinish(c) \/ NFSInvalidate(c)
        BY <2>2 DEF NFSFinish, NFSInvalidate, NFSTypes
    <2> QED  BY <2>1, <2>2, NFSCases
<1> QED  BY <1>1, <1>2, <1>3, DropsStep DEF NFSTypes


(* What the mount holds for a key: what CachedFS answers, or what raced.   *)
LEMMA NFSHeldIs ==
    ASSUME NEW k, NEW a
    PROVE  a \in NFSHeld(k) <=>
              \/ k[2] \in DOMAIN nfs[k[1]] /\ a = nfs[k[1]][k[2]].answer
              \/ \E c \in Clients : /\ pc[c] = "return" /\ key[c] = k
                                    /\ answer[c].ok /\ a = answer[c]
BY DEF NFSHeld

LEMMA NFSHeldOrigin ==
    ASSUME CachedTypes, NFSTypes, [NFSNext]_allVars, NEW k \in Keys,
           NEW a \in NFSHeld(k)'
    PROVE  a.raced \/ a \in NFSHeld(k) \/ a \in Held(k)
<1>0. CachedStep
    BY NFSIsCached
<1>1. CASE k[2] \in DOMAIN nfs'[k[1]] /\ a = nfs'[k[1]][k[2]].answer
    <2>1. \/ k[2] \in DOMAIN nfs[k[1]] /\ a = nfs[k[1]][k[2]].answer
          \/ \E c \in Clients : /\ pc[c] = "return" /\ key[c] = k
                                /\ answer[c].ok /\ a = answer[c]
        <3>1. CASE UNCHANGED nfs
            BY <1>1, <3>1
        <3>2. ASSUME NEW c \in Clients, NFSFill(c)
              PROVE  \/ k[2] \in DOMAIN nfs[k[1]] /\ a = nfs[k[1]][k[2]].answer
                     \/ /\ pc[c] = "return" /\ key[c] = k
                        /\ answer[c].ok /\ a = answer[c]
            BY <1>1, <3>2, NFSFillEffect
        <3>3. ASSUME NEW c \in Clients, NFSInvalidate(c)
              PROVE  k[2] \in DOMAIN nfs[k[1]] /\ a = nfs[k[1]][k[2]].answer
            BY <1>1, <3>3, NFSInvalidateEffect
        <3> QED  BY <3>1, <3>2, <3>3, NFSCases DEF nfsVars, NFSFinish
    <2> QED  BY <2>1, NFSHeldIs
<1>2. ASSUME NEW c \in Clients, pc'[c] = "return", key'[c] = k,
             answer'[c].ok, a = answer'[c]
      PROVE  a.raced \/ a \in NFSHeld(k) \/ a \in Held(k)
    <2>1. ASSUME NEW r \in Reads, Lookup(c, r)
          PROVE  a \in Held(k)
        <3>1. /\ key'[c] = r /\ r[2] \in DOMAIN cache[r[1]]
              /\ answer'[c] = cache[r[1]][r[2]].answer
            BY <1>2, <2>1, LookupEffect
            DEF CachedTypes, FlightInv, FlightTypes, StoreTypes
        <3> QED  BY <1>2, <3>1, HeldIs
    <2>2. CASE ~\E r \in Reads : Lookup(c, r)
        <3>1. UNCHANGED key[c]
            BY <1>0, <1>2, <2>2, LookupStep
        <3>2. CASE /\ pc[c] = "return" /\ answer'[c].ok = answer[c].ok
                   /\ answer'[c] = answer[c] \/ answer'[c].raced
            BY <1>2, <3>1, <3>2, NFSHeldIs
        <3>3. ASSUME NEW d \in Clients, pc[d] = "land", key[d] = key[c],
                     answer'[c] = answer[d]
              PROVE  a \in Held(k)
            BY <1>2, <3>1, <3>3, HeldIs
        <3> QED  BY <1>0, <1>2, <2>2, <3>2, <3>3, ReturnStep
    <2> QED  BY <2>1, <2>2
<1> QED  BY <1>1, <1>2 DEF NFSHeld

(* Whoever drops a key leaves no unmarked answer for it.                   *)
LEMMA NFSDropRaces ==
    ASSUME CachedTypes, NFSTypes, NEW c \in Clients, NFSInvalidate(c),
           NEW k, k = Head(drops[c].keys), NEW a \in NFSHeld(k)'
    PROVE  a.raced
<1>1. k \in Keys /\ ~(k[2] \in DOMAIN nfs'[k[1]])
    BY NFSInvalidateEffect
<1>2. PICK d \in Clients : /\ pc'[d] = "return" /\ key'[d] = k
                           /\ answer'[d].ok /\ a = answer'[d]
    BY <1>1 DEF NFSHeld
<1>3. /\ UNCHANGED <<pc, key>>
      /\ answer'[d] = IF answer[d].ok /\ key[d] = k /\ pc[d] = "return"
                      THEN [answer[d] EXCEPT !.raced = TRUE] ELSE answer[d]
    BY DEF NFSInvalidate
<1>4. answer[d] \in Answers
    BY DEF CachedTypes, StoreTypes
<1> QED  BY <1>2, <1>3, <1>4 DEF Answers

LEMMA NFSNotOlderStep ==
    ASSUME CachedTypes, WritesInv, NFSTypes, [NFSNext]_allVars,
           NEW k \in Tracked, NEW n \in Nat, n <= acked[k], NFSNotOlder(k, n)
    PROVE  NFSNotOlder(k, n)'
<1> SUFFICES ASSUME NEW a \in NFSHeld(k)', ~a.raced  PROVE a.version >= n
    BY DEF NFSNotOlder
<1>k. k \in Keys
    BY DEF Tracked
<1>1. CASE a \in NFSHeld(k)
    BY <1>1 DEF NFSNotOlder
<1>2. CASE a \in Held(k)
    <2>1. a.version >= acked[k]
        BY <1>2 DEF WritesInv, DoneShows, NotOlder
    <2>2. acked[k] \in Nat /\ a.version \in Nat
        <3>1. a \in Answers
            <4>1. CASE k[2] \in DOMAIN cache[k[1]] /\ a = cache[k[1]][k[2]].answer
                <5>1. cache[k[1]][k[2]] \in Entries
                    BY <1>k, <4>1, KeyPair DEF CachedTypes, StoreTypes, IsStore
                <5> QED  BY <4>1, <5>1 DEF Entries
            <4>2. ASSUME NEW c \in Clients, a = answer[c]  PROVE a \in Answers
                BY <4>2 DEF CachedTypes, StoreTypes
            <4> QED  BY <1>2, <4>1, <4>2, HeldIs
        <3> QED  BY <1>k, <3>1 DEF Answers, CachedTypes, WriteTypes
    <2> QED  BY <2>1, <2>2
<1> QED  BY <1>k, <1>1, <1>2, NFSHeldOrigin

LEMMA NFSDoneShowsStep ==
    ASSUME CachedTypes, WritesInv, NFSTypes, [NFSNext]_allVars,
           NFSDoneShows, DropsShow
    PROVE  NFSDoneShows'
<1> SUFFICES ASSUME NEW k \in Tracked
             PROVE  done'[k] <= acked'[k] /\ NFSNotOlder(k, done[k])'
    BY DEF NFSDoneShows
<1>k. k \in Keys
    BY DEF Tracked
<1>0. CachedStep
    BY NFSIsCached
<1>1. acked[k] <= acked'[k] /\ acked[k] \in Nat /\ acked'[k] \in Nat /\ done[k] \in Nat
    BY <1>k, <1>0, AckedGrows, CachedTypesStep DEF CachedTypes, WriteTypes, NFSTypes
<1>2. CASE done'[k] = done[k]
    <2>1. PICK n \in Nat : n = done[k]
        BY <1>1
    <2>2. n <= acked[k] /\ NFSNotOlder(k, n)
        BY <2>1 DEF NFSDoneShows
    <2>3. NFSNotOlder(k, n)'
        BY <2>2, NFSNotOlderStep
    <2>4. n <= acked'[k]
        BY <1>1, <2>2
    <2> QED  BY <1>2, <2>1, <2>3, <2>4 DEF NFSNotOlder
<1>3. CASE done'[k] # done[k]
    <2>1. PICK c \in Clients : NFSInvalidate(c)
        BY <1>3, NFSCases DEF nfsVars, NFSFill, NFSFinish
    <2>2. /\ Len(drops[c].keys) = 1 /\ k \in drops[c].names
          /\ done'[k] = drops[c].number
        BY <1>k, <1>3, <2>1 DEF NFSInvalidate, NFSTypes
    <2>3. PICK n \in Nat : n = drops[c].number
        BY DEF NFSTypes
    <2>4. ~Ready(c)
        BY <2>1, NFSInvalidateEffect
    <2>5. n <= acked[k] /\ (Occurs(k, drops[c].keys) \/ NFSNotOlder(k, n))
        BY <2>2, <2>3, <2>4 DEF DropsShow
    <2>6. CASE NFSNotOlder(k, n)
        <3>1. NFSNotOlder(k, n)'
            BY <2>5, <2>6, NFSNotOlderStep
        <3> QED  BY <1>1, <2>2, <2>3, <2>5, <3>1 DEF NFSNotOlder
    <2>7. CASE Occurs(k, drops[c].keys)
        <3>1. k = Head(drops[c].keys)
            <4>1. \A x : Occurs(x, drops[c].keys)
                            => x = Head(drops[c].keys) \/ Occurs(x, Tail(drops[c].keys))
                BY <2>1, NFSInvalidateEffect
            <4>2. \A x : ~Occurs(x, Tail(drops[c].keys))
                BY <2>1, <2>2, NFSInvalidateEffect
            <4> QED  BY <2>7, <4>1, <4>2
        <3>2. NFSNotOlder(k, done[k])'
            BY <2>1, <3>1, NFSDropRaces DEF NFSNotOlder
        <3> QED  BY <1>1, <2>2, <2>3, <2>5, <3>2
    <2> QED  BY <2>5, <2>6, <2>7
<1> QED  BY <1>2, <1>3

LEMMA DropsShowStep ==
    ASSUME CachedTypes, WritesInv, NFSTypes, [NFSNext]_allVars, DropsShow
    PROVE  DropsShow'
<1> SUFFICES ASSUME NEW c \in Clients, drops'[c].keys # <<>>,
                    NEW k \in Tracked, k \in drops'[c].names
             PROVE  /\ drops'[c].number <= acked'[k]
                    /\ Occurs(k, drops'[c].keys) \/ NFSNotOlder(k, drops[c].number)'
    BY DEF DropsShow, Ready
<1>k. k \in Keys
    BY DEF Tracked
<1>0. CachedStep
    BY NFSIsCached
<1>1. acked[k] <= acked'[k] /\ acked[k] \in Nat /\ acked'[k] \in Nat
    BY <1>k, <1>0, AckedGrows, CachedTypesStep DEF CachedTypes, WriteTypes
<1>2. CASE NFSFinish(c)
    <2>1. PICK mkdir \in BOOLEAN :
             drops'[c] = [keys   |-> NFSDrops(change[c].paths, mkdir),
                          names  |-> Names(change[c].paths, mkdir),
                          number |-> change[c].number]
        BY <1>2, DropsStep DEF NFSInvalidate, NFSFinish, FinishChange, NFSTypes,
           NFSDrops
    <2>2. change[c].paths \in Changes /\ change[c].number \in Nat
        BY <1>2 DEF NFSFinish, FinishChange, CachedTypes, WriteTypes
    <2>3. k \in Affected(change[c].paths) /\ Occurs(k, drops'[c].keys)
        BY <2>1, <2>2, DropsNames
    <2>4. acked'[k] >= change[c].number
        BY <1>k, <1>1, <1>2, <2>2, <2>3 DEF NFSFinish, FinishChange
    <2> QED  BY <1>1, <2>1, <2>2, <2>3, <2>4
<1>3. ASSUME drops[c].keys # <<>>, drops'[c].names = drops[c].names,
             drops'[c].number = drops[c].number
      PROVE  /\ drops'[c].number <= acked'[k]
             /\ Occurs(k, drops[c].keys) \/ NFSNotOlder(k, drops[c].number)'
    <2>1. PICK n \in Nat : n = drops[c].number
        BY DEF NFSTypes
    <2>2. n <= acked[k] /\ (Occurs(k, drops[c].keys) \/ NFSNotOlder(k, n))
        BY <1>3, <2>1 DEF DropsShow, Ready
    <2>3. NFSNotOlder(k, n) => NFSNotOlder(k, n)'
        BY <2>2, NFSNotOlderStep
    <2> QED  BY <1>1, <1>3, <2>1, <2>2, <2>3 DEF NFSNotOlder
<1>4. CASE UNCHANGED drops[c]
    BY <1>3, <1>4
<1>5. CASE /\ NFSInvalidate(c) /\ drops'[c].keys = Tail(drops[c].keys)
           /\ drops'[c].names = drops[c].names
           /\ drops'[c].number = drops[c].number
    <2>1. PICK h : h = Head(drops[c].keys)
        OBVIOUS
    <2>h. /\ drops[c].keys # <<>>
          /\ \A x : Occurs(x, drops[c].keys) => x = h \/ Occurs(x, Tail(drops[c].keys))
        <3>1. drops[c].keys # <<>>
            BY <1>5 DEF NFSInvalidate, Ready
        <3>2. \A x : Occurs(x, drops[c].keys)
                        => x = Head(drops[c].keys) \/ Occurs(x, Tail(drops[c].keys))
            <4>1. NFSInvalidate(c)
                BY <1>5
            <4> QED  BY <4>1, NFSInvalidateEffect
        <3> QED  BY <2>1, <3>1, <3>2
    <2>2. /\ drops[c].keys # <<>>
          /\ Occurs(k, drops[c].keys) => k = h \/ Occurs(k, drops'[c].keys)
        BY <1>5, <2>h
    <2>3. ASSUME k = h  PROVE NFSNotOlder(k, drops[c].number)'
        BY <1>5, <2>1, <2>3, NFSDropRaces DEF NFSNotOlder
    <2> QED  BY <1>3, <1>5, <2>2, <2>3
<1> QED  BY <1>2, <1>4, <1>5, DropsStep


LEMMA NFSAgeInvStep ==
    ASSUME CachedTypes, AgeInv, NFSTypes, [NFSNext]_allVars, NFSAgeInv
    PROVE  NFSAgeInv'
<1> SUFFICES ASSUME NEW k \in Keys, k[2] \in DOMAIN nfs'[k[1]]
             PROVE  nfs'[k[1]][k[2]].expires
                       <= nfs'[k[1]][k[2]].answer.readAt
                            + Timeout + TTLOf(k[1]) + NFSTTLOf(k[1])
    BY DEF NFSAgeInv
<1>1. CASE /\ k[2] \in DOMAIN nfs[k[1]]
           /\ nfs'[k[1]][k[2]] = nfs[k[1]][k[2]]
    BY <1>1 DEF NFSAgeInv
<1>2. ASSUME NEW c \in Clients, NFSFill(c), k = key[c], answer[c].ok,
             nfs'[k[1]][k[2]].answer = answer[c],
             nfs'[k[1]][k[2]].expires = now + NFSTTLOf(k[1])
      PROVE  nfs'[k[1]][k[2]].expires
                <= nfs'[k[1]][k[2]].answer.readAt
                     + Timeout + TTLOf(k[1]) + NFSTTLOf(k[1])
    <2>1. now <= answer[c].readAt + Timeout + TTLOf(k[1])
        BY <1>2, NFSFillEffect DEF AgeInv, StalenessBounded
    <2>2. /\ answer[c].readAt \in Nat /\ now \in Nat /\ Timeout \in Nat
          /\ TTLOf(k[1]) \in Nat /\ NFSTTLOf(k[1]) \in Nat
        BY CachedFSAssumption, NFSAssumption
        DEF CachedTypes, StoreTypes, Answers, TTLOf, NFSTTLOf
    <2>3. now + NFSTTLOf(k[1])
             <= answer[c].readAt + Timeout + TTLOf(k[1]) + NFSTTLOf(k[1])
        BY <2>1, <2>2
    <2> QED  BY <1>2, <2>3
<1>3. UNCHANGED nfs \/ \E c \in Clients : NFSFill(c) \/ NFSInvalidate(c)
    BY NFSCases DEF nfsVars, NFSFinish
<1>4. ASSUME NEW c \in Clients, NFSInvalidate(c)
      PROVE  /\ k[2] \in DOMAIN nfs[k[1]]
             /\ nfs'[k[1]][k[2]] = nfs[k[1]][k[2]]
    BY <1>4, NFSInvalidateEffect
<1>5. ASSUME NEW c \in Clients, NFSFill(c)
      PROVE  \/ /\ k[2] \in DOMAIN nfs[k[1]]
                /\ nfs'[k[1]][k[2]] = nfs[k[1]][k[2]]
             \/ /\ k = key[c] /\ answer[c].ok
                /\ nfs'[k[1]][k[2]].answer = answer[c]
                /\ nfs'[k[1]][k[2]].expires = now + NFSTTLOf(k[1])
    BY <1>5, NFSFillEffect
<1> QED  BY <1>1, <1>2, <1>3, <1>4, <1>5

-----------------------------------------------------------------------------
(* The inductive invariants, and what follows                              *)

CachedInv == CachedTypes /\ WatchInv /\ WritesInv /\ AgeInv
NFSInv    == NFSTypes /\ NFSDoneShows /\ DropsShow /\ NFSAgeInv

LEMMA CachedInvInit == Init => CachedInv
<1> SUFFICES ASSUME Init  PROVE CachedInv
    OBVIOUS
<1>1. CachedTypes
    BY CachedTypesInit
<1>2. \A k \in Keys : Held(k) = {}
    BY KeyPair DEF Init, Held
<1>3. WatchInv
    BY DEF Init, WatchInv
<1>4. DoneShows
    <2>1. \A k \in Keys : acked[k] = 0 /\ version[k] = 0
        BY DEF Init
    <2> QED  BY <1>2, <2>1 DEF DoneShows, NotOlder, Tracked
<1>5. ChangesShow /\ FloorsHold /\ OnlyRacesMissWrites
    BY DEF Init, ChangesShow, FloorsHold, OnlyRacesMissWrites
<1>6. AgeInv
    BY KeyPair DEF Init, AgeInv, StalenessBounded
<1> QED  BY <1>1, <1>3, <1>4, <1>5, <1>6 DEF CachedInv, WritesInv

LEMMA CachedInvStep ==
    ASSUME CachedInv, CachedStep
    PROVE  CachedInv'
BY CachedTypesStep, WatchInvStep, WritesInvStep, AgeInvStep DEF CachedInv

LEMMA NFSInvInit == NFSInit => CachedInv /\ NFSInv
<1> SUFFICES ASSUME NFSInit  PROVE CachedInv /\ NFSInv
    OBVIOUS
<1>1. Init /\ CachedInv
    BY CachedInvInit DEF NFSInit
<1>2. NFSTypes
    BY DEF NFSInit, NFSTypes, IsStore, NoDrops
<1>3. NFSDoneShows
    <2>1. \A k \in Keys : NFSHeld(k) = {}
        BY <1>1, KeyPair DEF Init, NFSInit, NFSHeld
    <2>2. \A k \in Keys : done[k] = 0 /\ acked[k] = 0
        BY <1>1 DEF Init, NFSInit
    <2> QED  BY <2>1, <2>2 DEF NFSDoneShows, NFSNotOlder, Tracked
<1>4. DropsShow
    BY DEF NFSInit, DropsShow, Ready, NoDrops
<1>5. NFSAgeInv
    BY KeyPair DEF NFSInit, NFSAgeInv
<1> QED  BY <1>1, <1>2, <1>3, <1>4, <1>5 DEF NFSInv

LEMMA NFSInvStep ==
    ASSUME CachedInv, NFSInv, [NFSNext]_allVars
    PROVE  CachedInv' /\ NFSInv'
<1>1. CachedStep
    BY NFSIsCached DEF CachedInv
<1>2. CachedInv'
    BY <1>1, CachedInvStep
<1> QED
    BY <1>2, NFSTypesStep, NFSDoneShowsStep, DropsShowStep, NFSAgeInvStep
    DEF CachedInv, NFSInv


THEOREM CachedFSInvariant == Safety => []CachedInv
<1>1. CachedInv /\ [Next]_vars => CachedInv'
    BY CachedInvStep DEF CachedStep
<1> QED  BY <1>1, CachedInvInit, PTL DEF Safety

THEOREM NFSInvariant == NFSSafety => [](CachedInv /\ NFSInv)
<1>1. CachedInv /\ NFSInv /\ [NFSNext]_allVars => (CachedInv /\ NFSInv)'
    BY NFSInvStep
<1> QED  BY <1>1, NFSInvInit, PTL DEF NFSSafety

(* No key is fetched twice at a time, and nobody waits for a flight that   *)
(* does not exist, however lookups, failures and landings interleave.      *)
THEOREM OneFlightPerKeyHolds == Safety \/ NFSSafety => []OneFlightPerKey
<1>1. CachedInv => OneFlightPerKey
    BY DEF CachedInv, CachedTypes, FlightInv
<1> QED  BY <1>1, CachedFSInvariant, NFSInvariant, PTL

(* While the watch is on, an entry that is stale is about to be dropped by *)
(* a handler under way, or its answer was read before the change and raced *)
(* with its invalidation.                                                  *)
THEOREM StaleIsExplainedHolds == Safety \/ NFSSafety => []StaleIsExplained
<1>1. CachedInv => StaleIsExplained
    <2> SUFFICES ASSUME CachedInv, watch = "on", NEW kind \in Kinds,
                        NEW p \in DOMAIN cache[kind], NEW k, k = <<kind, p>>,
                        k \in Tracked, cache[kind][p].answer.version < version[k]
                 PROVE  cache[kind][p].answer.raced \/ Pending(k)
        BY DEF StaleIsExplained, Pending
    <2>1. cache[kind][p].answer \in Held(k)
        BY HeldIs
    <2>2. cache[kind][p].answer.version \in Nat /\ version[k] \in Nat
        <3>1. cache[kind][p] \in Entries
            BY DEF CachedInv, CachedTypes, StoreTypes, IsStore
        <3> QED  BY <3>1 DEF Entries, Answers, CachedInv, CachedTypes, RemoteTypes, Tracked
    <2> QED  BY <2>1, <2>2 DEF CachedInv, WatchInv, NotOlder
<1> QED  BY <1>1, CachedFSInvariant, NFSInvariant, PTL

(* A Stat or ReadDir that began after a change was reported done shows the *)
(* change, unless its answer was read before it and raced.                 *)
THEOREM OnlyRacesMissWritesHolds == Safety \/ NFSSafety => []OnlyRacesMissWrites
<1>1. CachedInv => OnlyRacesMissWrites
    BY DEF CachedInv, WritesInv
<1> QED  BY <1>1, CachedFSInvariant, NFSInvariant, PTL

(* What CachedFS answers is never older than the time to live and the time *)
(* a request may take.                                                     *)
THEOREM StalenessBoundedHolds == Safety \/ NFSSafety => []StalenessBounded
<1>1. CachedInv => StalenessBounded
    BY DEF CachedInv, AgeInv
<1> QED  BY <1>1, CachedFSInvariant, NFSInvariant, PTL

(* Nor is what the mount's own caches answer older than that and their     *)
(* time to live.                                                           *)
THEOREM NFSStalenessBoundedHolds == NFSSafety => []NFSStalenessBounded
<1>1. CachedInv /\ NFSInv => NFSStalenessBounded
    <2> SUFFICES ASSUME CachedInv, NFSInv, NEW k \in Keys,
                        k[2] \in DOMAIN nfs[k[1]], NFSHit(k)
                 PROVE  now <= nfs[k[1]][k[2]].answer.readAt
                                 + Timeout + TTLOf(k[1]) + NFSTTLOf(k[1])
        BY DEF NFSStalenessBounded, CachedInv, AgeInv
    <2>1. nfs[k[1]][k[2]] \in Entries
        BY KeyPair DEF NFSInv, NFSTypes, IsStore
    <2>2. PICK x \in Nat, y \in Nat : /\ x = nfs[k[1]][k[2]].expires
                                      /\ y = nfs[k[1]][k[2]].answer.readAt
        BY <2>1 DEF Entries, Answers
    <2>3. now <= x /\ x <= y + Timeout + TTLOf(k[1]) + NFSTTLOf(k[1])
        BY <2>2 DEF NFSHit, Hit, Live, NFSInv, NFSAgeInv
    <2>4. /\ now \in Nat /\ Timeout \in Nat
          /\ TTLOf(k[1]) \in Nat /\ NFSTTLOf(k[1]) \in Nat
        BY CachedFSAssumption, NFSAssumption
        DEF CachedInv, CachedTypes, StoreTypes, TTLOf, NFSTTLOf
    <2>5. now <= y + Timeout + TTLOf(k[1]) + NFSTTLOf(k[1])
        BY <2>3, <2>4
    <2> QED  BY <2>2, <2>5
<1> QED  BY <1>1, NFSInvariant, PTL

(* No entry of the mount's own caches that a finished change names is      *)
(* older than the change, unless its answer raced with the invalidation in *)
(* one of the two layers.                                                  *)
THEOREM OnlyRacesHideChangesHolds == NFSSafety => []OnlyRacesHideChanges
<1>1. CachedInv /\ NFSInv => OnlyRacesHideChanges
    <2> SUFFICES ASSUME CachedInv, NFSInv, NEW kind \in Kinds,
                        NEW p \in DOMAIN nfs[kind], NEW k, k = <<kind, p>>,
                        k \in Tracked
                 PROVE  \/ nfs[kind][p].answer.version >= done[k]
                        \/ nfs[kind][p].answer.raced
        BY DEF OnlyRacesHideChanges
    <2>1. nfs[kind][p].answer \in NFSHeld(k)
        BY NFSHeldIs
    <2> QED  BY <2>1 DEF NFSInv, NFSDoneShows, NFSNotOlder
<1> QED  BY <1>1, NFSInvariant, PTL
=============================================================================
