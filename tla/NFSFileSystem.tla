---------------------------- MODULE NFSFileSystem ----------------------------
(***************************************************************************)
(* The metadata operations of internal/nfs/filesystem.go on top of a       *)
(* CachedFS: a second pair of caches, of the mount's own, which neither    *)
(* the watch nor CachedFS ever empties.  The goroutines of CachedFS are    *)
(* those of the NFS server; NFSFile's Close is one of the changes.         *)
(*                                                                         *)
(* Definitions marked Slip are not the code: they are mistakes it could    *)
(* have made, which the properties below notice.                           *)
(***************************************************************************)
EXTENDS CachedFS

CONSTANTS NFSMax, NFSStatTTL, NFSDirTTL    \* 4096 and 512; 5 s and 3 s

ASSUME NFSAssumption == {NFSMax, NFSStatTTL, NFSDirTTL} \subseteq Nat

VARIABLES
    nfs,       \* per kind: the entries of statCache, dirCache
    drops,     \* per client: the keys its change has left to drop; and, as
               \*   history, the keys it names and its number
    done       \* history: per key, the last change naming it that is done

nfsVars == <<nfs, drops, done>>
allVars == <<vars, nfsVars>>

NoDrops == [keys |-> <<>>, names |-> {}, number |-> 0]

NFSInit ==
    /\ Init
    /\ nfs = [kind \in Kinds |-> <<>>]
    /\ drops = [c \in Clients |-> NoDrops]
    /\ done = [k \in Keys |-> 0]

NFSTTLOf(kind) == IF kind = "stat" THEN NFSStatTTL ELSE NFSDirTTL
NFSHit(k)      == Hit(nfs[k[1]], k[2], now)

(* The client's last change is behind it.                                  *)
Ready(c) == drops[c].keys = <<>>

-----------------------------------------------------------------------------
(* Stat (Lstat) and ReadDir.  A hit changes nothing.                       *)

NFSLookup(c, k) ==
    /\ Ready(c)
    /\ ~NFSHit(k)
    /\ Lookup(c, k)
    /\ UNCHANGED nfsVars

(* What CachedFS has answered is cached once more.                         *)
NFSFill(c) ==
    LET kind  == key[c][1]
        entry == [answer |-> answer[c], expires |-> now + NFSTTLOf(kind)]
    IN  /\ Return(c)
        /\ IF answer[c].ok
           THEN \E m \in AfterSet(nfs[kind], key[c][2], entry, now, NFSMax) :
                   nfs' = [nfs EXCEPT ![kind] = m]
           ELSE UNCHANGED nfs
        /\ UNCHANGED <<drops, done>>

-----------------------------------------------------------------------------
(* Rename, Remove, MkdirAll, and Close of a file that was written          *)

NFSStartChange(c, paths) ==
    /\ Ready(c)
    /\ StartChange(c, paths)
    /\ UNCHANGED nfsVars

(* Slip: Rename forgets the directory of the old name.                     *)
DropNewListingOnly(paths) == << <<"dir", Parent(paths[Len(paths)])>> >>

Listings(paths) == [i \in DOMAIN paths |-> <<"dir", Parent(paths[i])>>]

(* What is dropped for a change: never what lies below a path, and for     *)
(* MkdirAll not the path itself either.                                    *)
NFSDrops(paths, mkdir) ==
    (IF mkdir THEN <<>> ELSE [i \in DOMAIN paths |-> <<"stat", paths[i]>>])
        \o Listings(paths)

Names(paths, mkdir) ==
    {<<"stat", p>> : p \in IF mkdir THEN {} ELSE ToSet(paths)}
        \cup {<<"dir", Parent(p)>> : p \in ToSet(paths)}

NFSFinish(c) ==
    LET paths == change[c].paths
    IN  /\ FinishChange(c)
        /\ \E mkdir \in BOOLEAN :
              /\ mkdir => Len(paths) = 1
              /\ drops' = [drops EXCEPT ![c] = [keys   |-> NFSDrops(paths, mkdir),
                                               names  |-> Names(paths, mkdir),
                                               number |-> change[c].number]]
        /\ UNCHANGED <<nfs, done>>

(* Drop a key.  An answer that CachedFS has given, and that is not in the  *)
(* cache yet, is not affected: it is marked in the history.                *)
NFSInvalidate(c) ==
    LET k    == Head(drops[c].keys)
        last == Len(drops[c].keys) = 1
    IN  /\ ~Ready(c)
        /\ nfs' = [nfs EXCEPT ![k[1]] = Without(@, {k[2]})]
        /\ answer' = [d \in Clients |->
                        IF answer[d].ok /\ key[d] = k /\ pc[d] = "return"
                        THEN [answer[d] EXCEPT !.raced = TRUE] ELSE answer[d]]
        /\ drops' = [drops EXCEPT ![c] = IF last THEN NoDrops
                                    ELSE [drops[c] EXCEPT !.keys = Tail(@)]]
        /\ done' = [q \in Keys |->
                      IF last /\ q \in drops[c].names /\ drops[c].number > done[q]
                      THEN drops[c].number ELSE done[q]]
        /\ UNCHANGED <<remoteVars, watch, storeVars, now, pc, key, askedAt, writeVars, floor>>

-----------------------------------------------------------------------------

(* What a client does inside CachedFS, and how its remote calls end.       *)
Within(c) ==
    \/ Lead(c) \/ Join(c) \/ FetchReturns(c) \/ Fill(c) \/ Land(c)
    \/ ChangeReturns(c) \/ Invalidate(c)
    \/ GiveUp(c)

(* The remote, others who change it, and the watch.                        *)
Beyond ==
    \/ \E c \in Clients : RemoteReads(c) \/ RemoteChanges(c)
    \/ \E paths \in Changes : ExternalChange(paths)
    \/ \E e \in events : ApplyEvent(e) \/ MissEvent(e)
    \/ StartWatch \/ StopWatch

NFSStep(c) ==
    \/ NFSFill(c) \/ NFSFinish(c) \/ NFSInvalidate(c)
    \/ Within(c) /\ UNCHANGED nfsVars

NFSNext ==
    \/ \E c \in Clients :
          \/ \E k \in Reads : NFSLookup(c, k)
          \/ \E paths \in Changes : NFSStartChange(c, paths)
          \/ NFSStep(c)
    \/ Beyond /\ UNCHANGED nfsVars
    \/ Tick /\ (\A c \in Clients : Ready(c)) /\ UNCHANGED nfsVars

NFSSafety == NFSInit /\ [][NFSNext]_allVars

(* Goroutines run, and IPCClient.Call returns (CallsReturn in IPCClient).  *)
NFSSpec == NFSSafety /\ \A c \in Clients : WF_allVars(NFSStep(c))

-----------------------------------------------------------------------------
(* Properties                                                              *)

(* What a change names is seen afterwards, through both caches: no older   *)
(* entry of the mount's own cache outlives the change, unless its answer   *)
(* was read before the change and raced, in either layer, with the         *)
(* invalidation.                                                           *)
OnlyRacesHideChanges ==
    \A kind \in Kinds : \A p \in DOMAIN nfs[kind] :
        \/ nfs[kind][p].answer.version >= done[<<kind, p>>]
        \/ nfs[kind][p].answer.raced
        \/ <<kind, p>> \notin Tracked

(* What CachedFS answers is no older than its time to live and the time a  *)
(* request may take, and what the mount's own caches answer no older than  *)
(* that and their time to live: races, changes that timed out and lost     *)
(* events have no worse effect, and neither layer renews what the other    *)
(* holds.                                                                  *)
NFSStalenessBounded ==
    /\ StalenessBounded
    /\ \A k \in Keys :
          (k[2] \in DOMAIN nfs[k[1]] /\ NFSHit(k)) =>
              now <= nfs[k[1]][k[2]].answer.readAt
                       + Timeout + TTLOf(k[1]) + NFSTTLOf(k[1])

(* Every operation comes back, also to those that joined another's flight. *)
OperationsReturn ==
    \A c \in Clients :
        (pc[c] # "idle" \/ ~Ready(c)) ~> (pc[c] = "idle" /\ Ready(c))
=============================================================================
