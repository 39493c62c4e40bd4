------------------------------- MODULE DavFile -------------------------------
(***************************************************************************)
(* internal/webdav/filesystem.go: OpenFile and the File it returns, for a  *)
(* path that is a file.  The WebDAV library opens one for every GET and    *)
(* PUT.  Its buffer is that of FileBuffer; opening and loading differ.     *)
(*                                                                         *)
(* The metadata an open file reports (info) is left out.                   *)
(***************************************************************************)
EXTENDS FileBuffer

VARIABLES
    flag,    \* per handle: what it was opened with
    known    \* external: the answers Stat may still give on "does it exist"

davVars == <<vars, flag, known>>

DavInit ==
    /\ Init
    /\ flag = [h \in Handles |-> {}]
    /\ known = {remote # Absent}

(* A step of an open file that calls the remote for nothing but load.      *)
Local(h, f) ==
    Become(h, f) /\ UNCHANGED <<remote, version, requests, stored, flag, known>>

-----------------------------------------------------------------------------
(* OpenFile.  It asks Stat, whose answer may come from a cache.            *)

Opens(h, flags, f) ==
    /\ file[h].state = "none"
    /\ Become(h, f)
    /\ flag' = [flag EXCEPT ![h] = flags]
    /\ UNCHANGED <<remote, version, requests, stored, known>>

OpenExisting(h, flags) == TRUE \in known /\ Opens(h, flags, Lazy)

OpenNew(h, flags) ==
    /\ FALSE \in known
    /\ "O_CREATE" \in flags
    /\ Opens(h, flags, [Fresh(h) EXCEPT !.dirty = "O_TRUNC" \in flags])

OpenFile(h) ==
    \E flags \in SUBSET {"O_CREATE", "O_TRUNC"} :
        OpenExisting(h, flags) \/ OpenNew(h, flags)

-----------------------------------------------------------------------------
(* Read, ReadAt, Stat, Write, Seek.  ensureLoadedLocked accepts a file that *)
(* is not there only if it may create one.                                 *)

Loadable(h) == file[h].loaded \/ remote # Absent \/ "O_CREATE" \in flag[h]

Use(h) == file[h].state = "open" /\ Loadable(h)

Read(h)   == Use(h) /\ \E n \in Lengths : Local(h, Advanced(Load(h), n))
ReadAt(h) == Use(h) /\ Local(h, Load(h))
Stat(h)   == Use(h) /\ Local(h, Load(h))
Seek(h)   == Use(h) /\ \E n \in 0 .. MaxSize : Local(h, [Load(h) EXCEPT !.pos = n])

Write(h) ==
    /\ Use(h)
    /\ \E n \in Lengths :
          /\ file[h].pos + n <= MaxSize
          /\ Local(h, Written(h, Load(h), n))

-----------------------------------------------------------------------------

Close(h) ==
    CloseDirty(h) \/ CloseClean(h) \/ CloseReturns(h) \/ CloseFails(h) \/ CloseAgain(h)

Remote == (\E r \in requests : RemoteWrites(r)) \/ OthersChange

Next ==
    \/ \E h \in Handles :
          \/ OpenFile(h)
          \/ Read(h) \/ ReadAt(h) \/ Stat(h) \/ Write(h) \/ Seek(h)
          \/ Close(h) /\ UNCHANGED <<flag, known>>
    \/ Remote /\ known' = known \cup {remote' # Absent} /\ UNCHANGED flag

Spec == DavInit /\ [][Next]_davVars

-----------------------------------------------------------------------------
(* Properties                                                              *)

(* server_test.go:196: "expected written file, got %q": what a PUT leaves  *)
(* on the remote is what it wrote, and nothing of an earlier content.      *)
PutReplacesContent ==
    [][\A r \in requests :
          (RemoteWrites(r) /\ {"O_CREATE", "O_TRUNC"} \subseteq flag[r.by])
              => \A i \in DOMAIN remote' : remote'[i] \in {r.by, Zero}]_davVars
=============================================================================
