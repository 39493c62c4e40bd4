------------------------------- MODULE NFSFile -------------------------------
(***************************************************************************)
(* internal/nfs/file.go, and the operations of internal/nfs/filesystem.go  *)
(* that open files.  go-nfs opens, seeks, writes and closes a file for     *)
(* every request of the kernel, so that several open files of one file are *)
(* the rule.  The two entries that a successful Close drops from the       *)
(* mount's caches are in NFSFileSystem, with everything else about them.   *)
(* Definitions marked Slip are mistakes the code could have made.          *)
(***************************************************************************)
EXTENDS FileBuffer

(* A step of an open file that calls nothing but load.                     *)
Local(h, f) == Become(h, f) /\ UNCHANGED <<remote, version, requests, stored>>

-----------------------------------------------------------------------------
(* Create, TempFile (under a name of its own), Open and OpenFile           *)

Create(h) == file[h].state = "none" /\ Local(h, Fresh(h))

(* Slip: O_CREATE alone starts with an empty content, too.                 *)
CreateStartsEmpty(h) ==
    /\ file[h].state = "none"
    /\ Local(h, [Lazy EXCEPT !.loaded = TRUE, !.base = version])

(* The flags are for nothing else: without O_CREATE, O_TRUNC is ignored.   *)
OpenFile(h) ==
    /\ file[h].state = "none"
    /\ \E create, trunc \in BOOLEAN :
          Local(h, IF create /\ trunc THEN Fresh(h) ELSE Lazy)

-----------------------------------------------------------------------------
(* Read, ReadAt, Write, Seek, Truncate                                     *)

Read(h) ==
    /\ file[h].state = "open"
    /\ \E n \in Lengths : Local(h, Advanced(Load(h), n))

ReadAt(h) == file[h].state = "open" /\ Local(h, Load(h))

Write(h) ==
    /\ file[h].state = "open"
    /\ \E n \in Lengths :
          /\ file[h].pos + n <= MaxSize
          /\ Local(h, Written(h, Load(h), n))

Seek(h) ==
    /\ file[h].state = "open"
    /\ \E n \in 0 .. MaxSize : Local(h, [Load(h) EXCEPT !.pos = n])

Truncate(h) ==
    /\ file[h].state = "open"
    /\ \E n \in 0 .. MaxSize : Local(h, Truncated(Load(h), n))

-----------------------------------------------------------------------------

Close(h) ==
    CloseDirty(h) \/ CloseClean(h) \/ CloseReturns(h) \/ CloseFails(h) \/ CloseAgain(h)

Next ==
    \/ \E h \in Handles :
          \/ Create(h) \/ OpenFile(h)
          \/ Read(h) \/ ReadAt(h) \/ Write(h) \/ Seek(h) \/ Truncate(h)
          \/ Close(h)
    \/ \E r \in requests : RemoteWrites(r)
    \/ OthersChange

Spec == Init /\ [][Next]_vars
=============================================================================
