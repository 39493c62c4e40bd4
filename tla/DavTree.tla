------------------------------- MODULE DavTree -------------------------------
(***************************************************************************)
(* internal/webdav/filesystem.go, without the contents of files: Mkdir,    *)
(* Rename, RemoveAll and the paging of Readdir, as the WebDAV library      *)
(* calls them from a goroutine for each request.                           *)
(*                                                                         *)
(* Definitions marked Slip are not the code: they are mistakes it could    *)
(* have made, which the properties below notice.                           *)
(***************************************************************************)
EXTENDS Process, Integers, SequencesExt

CONSTANTS
    Clients,       \* goroutines of the WebDAV library
    Paths,         \* what they name, of which the state is followed, ...
    Elsewhere,     \* ... and all other names
    Contents,      \* the sets of entries that directories have
    Counts,        \* what Readdir is asked for
    MaxOthers      \* bound: changes by others

ASSUME DavTreeAssumption ==
    /\ {} \in Contents /\ \A entries \in Contents : IsFiniteSet(entries)
    /\ Counts \subseteq Int
    /\ Elsewhere \notin Paths

VARIABLES
    node,      \* external: what is at each path
    known,     \* external: per path, what CachedFS may answer: what is
               \*   there, or one thing that was there before
    request,   \* per client: the change it has under way
    others,    \* the changes by others
    dir,       \* an open directory: File.isDir, dirLoaded, dirInfos, dirPos
    listing,   \* history: what the remote has listed for it, ...
    given,     \* ... what Readdir has answered in all, ...
    last       \* ... and the last answer: what was asked for, and io.EOF

davTreeVars == <<node, known, request, others, dir, listing, given, last>>
dirVars     == <<dir, listing, given, last>>

Nothing == [type |-> "none", entries |-> {}]
Nodes   == {Nothing, [type |-> "file", entries |-> {}]}
              \cup [type : {"dir"}, entries : Contents]

NoRequest == [op |-> "none"]
Shut      == [open |-> FALSE, path |-> CHOOSE p \in Paths : TRUE, loaded |-> FALSE,
              infos |-> <<>>, pos |-> 0]

DavTreeInit ==
    /\ node \in [Paths -> Nodes]
    /\ known = [p \in Paths |-> {node[p]}]
    /\ request = [c \in Clients |-> NoRequest]
    /\ others = 0
    /\ dir = Shut /\ listing = <<>> /\ given = <<>> /\ last = [count |-> 0, eof |-> FALSE]

-----------------------------------------------------------------------------
(* External: the remote, which carries out a request while there is a      *)
(* connection, and the caches of CachedFS.                                 *)

Puts(p, n) ==
    /\ node' = [node EXCEPT ![p] = n]
    /\ \E old \in known[p] : known' = [known EXCEPT ![p] = {old, n}]

Moves(p, q, n) ==
    /\ node' = [x \in Paths |-> IF x = q THEN n ELSE IF x = p THEN Nothing ELSE node[x]]
    /\ \E old \in [Paths -> Nodes] :
          /\ \A x \in Paths : old[x] \in known[x]
          /\ known' = [x \in Paths |-> IF x \in {p, q} THEN {old[x], node'[x]} ELSE known[x]]

(* A directory with entries is removed with all that is in it, or not.     *)
Carried(r) ==
    CASE r.op = "mkdir"  -> node[r.path] = Nothing /\ Puts(r.path, [type |-> "dir", entries |-> {}])
      [] r.op = "rename" -> \E n \in (IF r.path \in Paths THEN {node[r.path]} ELSE Nodes) \ {Nothing} :
                               Moves(r.path, r.to, n)
      [] r.op = "delete" -> /\ node[r.path] # Nothing
                            /\ r.recursive \/ node[r.path].entries = {}
                            /\ Puts(r.path, Nothing)
      [] OTHER           -> FALSE

RemoteDoes(c) ==
    /\ Answered
    /\ Carried(request[c])
    /\ request' = [request EXCEPT ![c] = [op |-> "done"]]
    /\ UNCHANGED <<processVars, others, dirVars>>

OthersChange(p, n) ==
    /\ others < MaxOthers
    /\ n # node[p]
    /\ Puts(p, n)
    /\ others' = others + 1
    /\ UNCHANGED <<processVars, request, dirVars>>

Forget(p) ==
    /\ known' = [known EXCEPT ![p] = {node[p]}]
    /\ UNCHANGED <<processVars, node, request, others, dirVars>>

-----------------------------------------------------------------------------
(* Mkdir, Rename, RemoveAll                                                *)

Starts(c, r) ==
    /\ request[c] = NoRequest
    /\ request' = [request EXCEPT ![c] = r]
    /\ UNCHANGED <<processVars, node, known, others, dirVars>>

Mkdir(c, p)     == Starts(c, [op |-> "mkdir", path |-> p])
Rename(c, p, q) == p # q /\ Starts(c, [op |-> "rename", path |-> p, to |-> q])

(* Slip: whatever it is, all of it goes.                                   *)
Always(type) == TRUE

Recursive(type) == type = "dir"

(* Stat, and if there is something, Delete.                                *)
RemoveAll(c, p) ==
    \E n \in known[p] :
        /\ n # Nothing
        /\ Starts(c, [op |-> "delete", path |-> p, saw |-> n.type, recursive |-> Recursive(n.type)])

(* The answer, or an error, whatever became of the request.                *)
Returns(c) ==
    /\ request[c] # NoRequest
    /\ request' = [request EXCEPT ![c] = NoRequest]
    /\ UNCHANGED <<processVars, node, known, others, dirVars>>

-----------------------------------------------------------------------------
(* OpenFile of a directory, Readdir and Close                              *)

OpenDir(p) ==
    /\ ~dir.open
    /\ \E n \in known[p] : n.type = "dir"
    /\ dir' = [Shut EXCEPT !.open = TRUE, !.path = p]
    /\ listing' = <<>> /\ given' = <<>> /\ last' = [count |-> 0, eof |-> FALSE]
    /\ UNCHANGED <<processVars, node, known, request, others>>

(* ensureDirLoadedLocked: what ReadDir answers the first time.             *)
Loaded ==
    IF dir.loaded THEN {dir}
    ELSE {[dir EXCEPT !.loaded = TRUE, !.infos = SetToSeq(n.entries)] :
             n \in {k \in known[dir.path] : k.type = "dir"}}

(* Slip: io.EOF comes only with nothing.                                   *)
AtEndBefore(count, from, to, size) == count > 0 /\ from >= size

(* io.EOF comes with the last entries, and alone after them.               *)
AtEnd(count, from, to, size) == count > 0 /\ to >= size

Readdir(count) ==
    /\ dir.open
    /\ \E d \in Loaded :
          LET size == Len(d.infos)
              to   == IF count <= 0 \/ d.pos + count > size THEN size ELSE d.pos + count
          IN  /\ dir' = [d EXCEPT !.pos = to]
              /\ listing' = IF dir.loaded THEN listing ELSE d.infos
              /\ given' = given \o SubSeq(d.infos, d.pos + 1, to)
              /\ last' = [count |-> count, eof |-> AtEnd(count, d.pos, to, size)]
    /\ UNCHANGED <<processVars, node, known, request, others>>

CloseDir ==
    /\ dir.open
    /\ dir' = Shut /\ listing' = <<>> /\ given' = <<>> /\ last' = [count |-> 0, eof |-> FALSE]
    /\ UNCHANGED <<processVars, node, known, request, others>>

-----------------------------------------------------------------------------

DavRequests ==
    \/ \E c \in Clients :
          \/ \E p \in Paths : Mkdir(c, p) \/ RemoveAll(c, p)
          \/ \E p, q \in Paths \cup {Elsewhere} : Rename(c, p, q)
    \/ \E p \in Paths : OpenDir(p)
    \/ \E count \in Counts : Readdir(count)
    \/ CloseDir

DavWorld ==
    \/ \E c \in Clients : RemoteDoes(c) \/ Returns(c)
    \/ \E p \in Paths : Forget(p) \/ \E n \in Nodes : OthersChange(p, n)

-----------------------------------------------------------------------------
(* Properties                                                              *)

(* The pages of a directory are its listing as it was read first, every    *)
(* entry once, whatever counts are asked for and whatever happens to the   *)
(* directory meanwhile; io.EOF tells a reader by pages that it has all,    *)
(* and does not fail to.                                                   *)
PagesAreTheListing ==
    /\ IsPrefix(given, listing)
    /\ dir.loaded => IF last.count > 0 THEN last.eof <=> given = listing
                                       ELSE given = listing

(* RemoveAll removes what is below a path only if it has been told that    *)
(* there is a directory, however out of date that is, and whatever was put *)
(* in the place of a file since.                                           *)
RemovesOnlyWhatItSaw ==
    [][\A c \in Clients :
          (RemoteDoes(c) /\ request[c].op = "delete" /\ request[c].saw = "file")
              => node[request[c].path].entries = {}]_<<processVars, davTreeVars>>
=============================================================================
