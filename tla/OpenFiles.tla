------------------------------ MODULE OpenFiles ------------------------------
(***************************************************************************)
(* The open files of a mount, whichever backend the command line chose     *)
(* (cmd/code-local/main.go): those of NFSFile or those of DavFile.         *)
(***************************************************************************)
EXTENDS FileBuffer

VARIABLES
    backend,     \* "nfs" or "webdav": the flag --backend
    flag, known  \* those of DavFile

allVars == <<vars, backend, flag, known>>

NFS == INSTANCE NFSFile
Dav == INSTANCE DavFile

MountInit ==
    /\ Dav!DavInit
    /\ backend \in {"nfs", "webdav"}

MountNext ==
    \/ backend = "nfs"    /\ NFS!Next /\ UNCHANGED <<backend, flag, known>>
    \/ backend = "webdav" /\ Dav!Next /\ UNCHANGED backend

MountSpec == MountInit /\ [][MountNext]_allVars
=============================================================================
