------------------------------ MODULE CachedFS ------------------------------
(***************************************************************************)
(* internal/remotefs/cachedfs.go: two caches, two singleflight groups and  *)
(* a watch in front of a remote file system.  The backends' goroutines     *)
(* (Clients) look paths up, list directories and change files through it,  *)
(* and others change files behind its back.                                *)
(*                                                                         *)
(* A key is a kind of metadata and a path.  What the remote would answer   *)
(* is abstracted to the number of the last change that affected the key.   *)
(* A change is abstracted to the paths it names: <<p>> for WriteFile,      *)
(* Mkdir and Delete, <<old, new>> for Rename.                              *)
(*                                                                         *)
(* Definitions marked Slip are not the code: they are mistakes it could    *)
(* have made, which the properties below notice.                           *)
(***************************************************************************)
EXTENDS CacheOps, Sequences, SequencesExt

CONSTANTS
    Clients,
    Nobody,            \* leads no flight
    Paths,             \* absolute paths, as sequences of names
    Reads,             \* the keys clients ask for
    Changes,           \* the changes clients and others make
    StatMax, DirMax,   \* StatMaxEntries, DirMaxEntries
    StatTTL, DirTTL,
    Timeout,           \* defaultTimeout of a remote call
    MaxChanges,        \* bound: changes made to the remote
    MaxTime            \* bound: when the clock stops

Kinds == {"stat", "dir"}
Keys  == Kinds \X Paths

ASSUME CachedFSAssumption ==
    /\ Nobody \notin Clients
    /\ IsFiniteSet(Paths)
    /\ \A p \in Paths : p = <<>> \/ Front(p) \in Paths
    /\ Reads \subseteq Keys
    /\ Changes \subseteq {<<p>> : p \in Paths} \cup (Paths \X Paths)
    /\ {StatMax, DirMax, StatTTL, DirTTL, Timeout, MaxChanges, MaxTime}
         \subseteq Nat

VARIABLES
    version,   \* external: per key, the last change that affected it
    changes,   \* external: the number of changes made
    events,    \* fileChange events: in transit, or with a handler's
               \*   goroutine that has so much left to invalidate
    watch,     \* "off", "on" or "stopped"
    cache,     \* per kind: the entries of statCache, dirCache
    leader,    \* per key: the client inside singleflight's Do, or Nobody
    now,
    pc,        \* per client: where it is
    key,       \* per client: what it asks for
    answer,    \* per client: the answer it has, if any
    askedAt,   \* per client: when it sent its request
    change,    \* per client: the change it makes, and its number
    todo,      \* per client: what it has left to invalidate
    acked,     \* history: per key, the last change reported done
    floor      \* history: per client, acked[key] when it asked

remoteVars == <<version, changes, events>>
storeVars  == <<cache, leader>>
readVars   == <<key, answer, askedAt>>
writeVars  == <<change, todo, acked>>
vars       == <<remoteVars, watch, storeVars, now, pc, readVars, writeVars,
                floor>>

NoKey    == <<"none", <<>>>>
NoAnswer == [version |-> 0, readAt |-> 0, raced |-> FALSE, ok |-> FALSE]
NoChange == [paths |-> <<>>, number |-> 0]

Init ==
    /\ version = [k \in Keys |-> 0] /\ changes = 0 /\ events = {}
    /\ watch = "off"
    /\ cache = [kind \in Kinds |-> <<>>]
    /\ leader = [k \in Keys |-> Nobody]
    /\ now = 0
    /\ pc = [c \in Clients |-> "idle"]
    /\ key = [c \in Clients |-> NoKey]
    /\ answer = [c \in Clients |-> NoAnswer]
    /\ askedAt = [c \in Clients |-> 0]
    /\ change = [c \in Clients |-> NoChange]
    /\ todo = [c \in Clients |-> <<>>]
    /\ acked = [k \in Keys |-> 0]
    /\ floor = [c \in Clients |-> 0]

Goto(c, there) == pc' = [pc EXCEPT ![c] = there]

MaxOf(kind) == IF kind = "stat" THEN StatMax ELSE DirMax
TTLOf(kind) == IF kind = "stat" THEN StatTTL ELSE DirTTL

-----------------------------------------------------------------------------
(* invalidatePath                                                          *)

(* path.Dir, and the paths that begin with p + "/".  The root is its own   *)
(* parent, and no path begins with "//".                                   *)
Parent(p) == IF p = <<>> THEN p ELSE Front(p)
Below(p)  == {q \in Paths : p # <<>> /\ IsStrictPrefix(p, q)}

(* Slip: what lies below the path is kept.                                 *)
InvalidateWithoutPrefix(p) ==
    << {<<"stat", p>>}, {<<"dir", p>>, <<"dir", Parent(p)>>} >>

(* The keys it deletes: first those of statCache, then those of dirCache.  *)
(* It takes a cache's lock for a path, its parent and those below it one   *)
(* after the other; these are different keys.                              *)
InvalidatePath(p) ==
    << {"stat"} \X ({p} \cup Below(p)),
       {"dir"} \X ({p, Parent(p)} \cup Below(p)) >>

(* Slip: Rename forgets the old name.                                      *)
InvalidateNewOnly(paths) == InvalidatePath(paths[Len(paths)])

(* Rename: first what concerns the old path, then what concerns the new.   *)
InvalidateAll(paths) ==
    IF Len(paths) = 1
    THEN InvalidatePath(paths[1])
    ELSE InvalidatePath(paths[1]) \o InvalidatePath(paths[2])

(* Delete keys from the caches.  An answer that was read before, and is    *)
(* not in the cache yet, is not affected: it is marked in the history.     *)
Drop(keys) ==
    /\ cache' = [kind \in Kinds |->
                   Without(cache[kind], {p \in Paths : <<kind, p>> \in keys})]
    /\ answer' = [c \in Clients |->
                    IF answer[c].ok /\ key[c] \in keys
                       /\ pc[c] \in {"ask", "fill", "land"}
                    THEN [answer[c] EXCEPT !.raced = TRUE]
                    ELSE answer[c]]

-----------------------------------------------------------------------------
(* External: the remote file system.  A change affects what is known of    *)
(* the paths it names and of everything below them, and the listing and    *)
(* the modification time of their parents.                                 *)

Affected(paths) ==
    UNION {(Kinds \X ({p, Parent(p)} \cup Below(p))) : p \in ToSet(paths)}

Apply(paths) ==
    /\ changes < MaxChanges
    /\ changes' = changes + 1
    /\ version' = [k \in Keys |-> IF k \in Affected(paths) THEN changes'
                                                           ELSE version[k]]
    /\ events' = IF watch = "on"
                 THEN events \cup {[number |-> changes',
                                    todo |-> InvalidateAll(paths)]}
                 ELSE events

(* Somebody else changes a file; or a client's request arrives after the   *)
(* client has given it up.                                                 *)
ExternalChange(paths) ==
    /\ Apply(paths)
    /\ UNCHANGED <<watch, storeVars, now, pc, readVars, writeVars, floor>>

-----------------------------------------------------------------------------
(* StartWatch, applyChanges and the function that stops the watch.         *)

StartWatch ==
    /\ watch = "off"
    /\ watch' = "on"
    /\ UNCHANGED <<remoteVars, storeVars, now, pc, readVars, writeVars, floor>>

StopWatch ==
    /\ watch = "on"
    /\ watch' = "stopped"
    /\ UNCHANGED <<remoteVars, storeVars, now, pc, readVars, writeVars, floor>>

(* A handler's goroutine takes its next step; several may be under way.    *)
ApplyEvent(e) ==
    /\ Drop(Head(e.todo))
    /\ events' = (events \ {e}) \cup
                 {[e EXCEPT !.todo = Tail(@)] : x \in 1 .. (Len(e.todo) - 1)}
    /\ UNCHANGED <<version, changes, watch, leader, now, pc, key, askedAt,
                   writeVars, floor>>

(* No handler is registered any more when it arrives.                      *)
MissEvent(e) ==
    /\ watch = "stopped"
    /\ events' = events \ {e}
    /\ UNCHANGED <<version, changes, watch, storeVars, now, pc, readVars,
                   writeVars, floor>>

-----------------------------------------------------------------------------
(* Stat and ReadDir                                                        *)

(* The backend starts once the watch does.                                 *)
Lookup(c, k) ==
    /\ watch # "off"
    /\ pc[c] = "idle"
    /\ key' = [key EXCEPT ![c] = k]
    /\ floor' = [floor EXCEPT ![c] = acked[k]]
    /\ IF Hit(cache[k[1]], k[2], now)
       THEN /\ answer' = [answer EXCEPT ![c] = cache[k[1]][k[2]].answer]
            /\ Goto(c, "return")
       ELSE /\ UNCHANGED answer
            /\ Goto(c, "miss")
    /\ UNCHANGED <<remoteVars, watch, storeVars, now, askedAt, writeVars>>

(* Do: call the remote, or wait for the call that is under way.            *)
Lead(c) ==
    /\ pc[c] = "miss"
    /\ leader[key[c]] = Nobody
    /\ leader' = [leader EXCEPT ![key[c]] = c]
    /\ askedAt' = [askedAt EXCEPT ![c] = now]
    /\ Goto(c, "ask")
    /\ UNCHANGED <<remoteVars, watch, cache, now, key, answer, writeVars, floor>>

Join(c) ==
    /\ pc[c] = "miss"
    /\ leader[key[c]] # Nobody
    /\ Goto(c, "join")
    /\ UNCHANGED <<remoteVars, watch, storeVars, now, readVars, writeVars, floor>>

(* External: the remote answers; the answer has yet to arrive.             *)
RemoteReads(c) ==
    /\ pc[c] = "ask"
    /\ ~answer[c].ok
    /\ answer' = [answer EXCEPT ![c] =
                    [version |-> version[key[c]], readAt |-> now,
                     raced |-> FALSE, ok |-> TRUE]]
    /\ UNCHANGED <<remoteVars, watch, storeVars, now, pc, key, askedAt,
                   writeVars, floor>>

FetchReturns(c) ==
    /\ pc[c] = "ask"
    /\ answer[c].ok
    /\ Goto(c, "fill")
    /\ UNCHANGED <<remoteVars, watch, storeVars, now, readVars, writeVars, floor>>

(* Slip: an error returns past the flight.                                 *)
ErrorSkipsLand(c) ==
    /\ pc[c] = "ask"
    /\ answer' = [answer EXCEPT ![c] = NoAnswer]
    /\ Goto(c, "return")
    /\ UNCHANGED <<remoteVars, watch, storeVars, now, key, askedAt, writeVars,
                   floor>>

(* The remote answers with an error, or not in time; nothing is cached.    *)
FetchFails(c) ==
    /\ pc[c] = "ask"
    /\ answer' = [answer EXCEPT ![c] = NoAnswer]
    /\ Goto(c, "land")
    /\ UNCHANGED <<remoteVars, watch, storeVars, now, key, askedAt, writeVars,
                   floor>>

(* statCache.Set or dirCache.Set                                           *)
Fill(c) ==
    LET kind  == key[c][1]
        entry == [answer |-> answer[c], expires |-> now + TTLOf(kind)]
    IN  /\ pc[c] = "fill"
        /\ \E m \in AfterSet(cache[kind], key[c][2], entry, now, MaxOf(kind)) :
              cache' = [cache EXCEPT ![kind] = m]
        /\ Goto(c, "land")
        /\ UNCHANGED <<remoteVars, watch, leader, now, readVars, writeVars, floor>>

(* Slip: those who wait are not woken.                                     *)
LandAlone(c) ==
    /\ pc[c] = "land"
    /\ leader' = [leader EXCEPT ![key[c]] = Nobody]
    /\ Goto(c, "return")
    /\ UNCHANGED <<remoteVars, watch, cache, now, readVars, writeVars, floor>>

(* Do forgets the call and hands its result to whoever waits for it.       *)
Land(c) ==
    LET together == {c} \cup {d \in Clients : pc[d] = "join" /\ key[d] = key[c]}
    IN  /\ pc[c] = "land"
        /\ leader' = [leader EXCEPT ![key[c]] = Nobody]
        /\ pc' = [d \in Clients |-> IF d \in together THEN "return" ELSE pc[d]]
        /\ answer' = [d \in Clients |-> IF d \in together THEN answer[c]
                                                          ELSE answer[d]]
        /\ UNCHANGED <<remoteVars, watch, cache, now, key, askedAt, writeVars,
                       floor>>

Return(c) ==
    /\ pc[c] = "return"
    /\ Goto(c, "idle")
    /\ key' = [key EXCEPT ![c] = NoKey]
    /\ answer' = [answer EXCEPT ![c] = NoAnswer]
    /\ askedAt' = [askedAt EXCEPT ![c] = 0]
    /\ floor' = [floor EXCEPT ![c] = 0]
    /\ UNCHANGED <<remoteVars, watch, storeVars, now, writeVars>>

-----------------------------------------------------------------------------
(* WriteFile, Mkdir, Delete, Rename                                        *)

StartChange(c, paths) ==
    /\ watch # "off"
    /\ pc[c] = "idle"
    /\ change' = [change EXCEPT ![c] = [NoChange EXCEPT !.paths = paths]]
    /\ Goto(c, "request")
    /\ UNCHANGED <<remoteVars, watch, storeVars, now, readVars, todo, acked, floor>>

(* External: the remote carries the change out.                            *)
RemoteChanges(c) ==
    /\ pc[c] = "request"
    /\ Apply(change[c].paths)
    /\ change' = [change EXCEPT ![c].number = changes']
    /\ Goto(c, "changed")
    /\ UNCHANGED <<watch, storeVars, now, readVars, todo, acked, floor>>

(* An error says nothing about whether the change was carried out.         *)
ChangeFails(c) ==
    /\ pc[c] \in {"request", "changed"}
    /\ change' = [change EXCEPT ![c] = NoChange]
    /\ Goto(c, "idle")
    /\ UNCHANGED <<remoteVars, watch, storeVars, now, readVars, todo, acked, floor>>

ChangeReturns(c) ==
    /\ pc[c] = "changed"
    /\ todo' = [todo EXCEPT ![c] = InvalidateAll(change[c].paths)]
    /\ Goto(c, "invalidate")
    /\ UNCHANGED <<remoteVars, watch, storeVars, now, readVars, change, acked, floor>>

Invalidate(c) ==
    /\ pc[c] = "invalidate"
    /\ todo[c] # <<>>
    /\ Drop(Head(todo[c]))
    /\ todo' = [todo EXCEPT ![c] = Tail(@)]
    /\ UNCHANGED <<remoteVars, watch, leader, now, pc, key, askedAt, change, acked,
                   floor>>

(* The backend learns that the change is done.                             *)
FinishChange(c) ==
    /\ pc[c] = "invalidate"
    /\ todo[c] = <<>>
    /\ acked' = [k \in Keys |->
                    IF k \in Affected(change[c].paths) /\ change[c].number > acked[k]
                    THEN change[c].number ELSE acked[k]]
    /\ change' = [change EXCEPT ![c] = NoChange]
    /\ Goto(c, "idle")
    /\ UNCHANGED <<remoteVars, watch, storeVars, now, readVars, todo, floor>>

-----------------------------------------------------------------------------
(* Steps of this process take no time, and a request none beyond Timeout.  *)

Tick ==
    /\ now < MaxTime
    /\ \A c \in Clients :
          /\ pc[c] \in {"idle", "ask", "join", "request", "changed"}
          /\ pc[c] = "ask" => now < askedAt[c] + Timeout
    /\ now' = now + 1
    /\ UNCHANGED <<remoteVars, watch, storeVars, pc, readVars, writeVars, floor>>

(* What a client does without waiting for the remote, ...                  *)
Step(c) ==
    \/ Lead(c) \/ Join(c) \/ FetchReturns(c) \/ Fill(c) \/ Land(c) \/ Return(c)
    \/ ChangeReturns(c) \/ Invalidate(c) \/ FinishChange(c)

(* ... and how its remote calls end if nothing else happens.               *)
GiveUp(c) == FetchFails(c) \/ ChangeFails(c)

Next ==
    \/ \E c \in Clients :
          \/ \E k \in Reads : Lookup(c, k)
          \/ \E paths \in Changes : StartChange(c, paths)
          \/ RemoteReads(c) \/ RemoteChanges(c)
          \/ Step(c)
          \/ GiveUp(c)
    \/ \E paths \in Changes : ExternalChange(paths)
    \/ \E e \in events : ApplyEvent(e) \/ MissEvent(e)
    \/ StartWatch \/ StopWatch
    \/ Tick

Safety == Init /\ [][Next]_vars

-----------------------------------------------------------------------------
(* Properties                                                              *)

(* A flight has exactly one leader, which is inside Do for its key, and    *)
(* whoever waits for a flight waits for one that exists: nobody can be     *)
(* left behind, and no key is fetched twice at a time.                     *)
OneFlightPerKey ==
    /\ \A c \in Clients : pc[c] = "join" => leader[key[c]] # Nobody
    /\ \A c \in Clients, k \in Keys :
          leader[k] = c <=> (pc[c] \in {"ask", "fill", "land"} /\ key[c] = k)

(* Metadata the code promises to keep fresh.  The modification time of a   *)
(* directory whose children change is not: its stat entry stays until it   *)
(* expires.                                                                *)
Tracked == Keys \ {<<"stat", Parent(p)>> : p \in Paths}

(* A change the backend knows to be done is seen by every later Stat and   *)
(* ReadDir, from the cache or not, unless the answer was read before the   *)
(* change and raced with its invalidation.                                 *)
OnlyRacesMissWrites ==
    \A c \in Clients :
        (pc[c] = "return" /\ key[c] \in Tracked /\ answer[c].ok)
            => answer[c].version >= floor[c] \/ answer[c].raced

(* While the watch is on, whatever is stale in the caches, by whomever it  *)
(* was changed, is about to be dropped by a handler under way, or was read *)
(* before the change and raced with its invalidation.                      *)
StaleIsExplained ==
    watch = "on" =>
        \A kind \in Kinds : \A p \in DOMAIN cache[kind] :
            LET k == <<kind, p>> IN
            (k \in Tracked /\ cache[kind][p].answer.version < version[k])
                => \/ cache[kind][p].answer.raced
                   \/ \E e \in events : \E i \in DOMAIN e.todo : k \in e.todo[i]

(* No answer is older than the time to live and the time a request may     *)
(* take: races and lost events have no worse effect.                       *)
StalenessBounded ==
    \A c \in Clients :
        (pc[c] = "return" /\ answer[c].ok)
            => now <= answer[c].readAt + Timeout + TTLOf(key[c][1])

(* cachedfs_test.go:121,126: "Write should invalidate", "Next stat should  *)
(* go to remote again": once a write has returned, no Stat or ReadDir      *)
(* answers with what was there before it.                                  *)
WritesAreSeen ==
    \A c \in Clients :
        (pc[c] = "return" /\ key[c] \in Tracked /\ answer[c].ok)
            => answer[c].version >= floor[c]
=============================================================================
