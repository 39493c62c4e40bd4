----------------------------- MODULE FileBuffer -----------------------------
(***************************************************************************)
(* An open file of a mount: nfs.File (internal/nfs/file.go), and so far as *)
(* it does the same webdav.File.  The content is loaded whole on first     *)
(* use, read and changed in memory, and written back whole on Close.  Any  *)
(* number of open files (Handles) may be of one file, which others change. *)
(* A file's mutex makes its operations atomic, with two exceptions: what   *)
(* the remote does while Close waits for it, and after Close gave up.      *)
(*                                                                         *)
(* A byte is abstracted to who wrote it: an open file, another program     *)
(* (Other), or nobody: the zeros that fill a gap (Zero).                   *)
(*                                                                         *)
(* Definitions marked Slip are not the code: they are mistakes it could    *)
(* have made, which the properties below notice.                           *)
(***************************************************************************)
EXTENDS Naturals, Sequences, FiniteSets

CONSTANTS
    Handles,      \* open files; each is opened once
    Other, Zero,
    Absent,       \* the remote has no such file
    Lengths,      \* lengths of what is read and written at a time
    MaxSize,      \* bound: length of a content
    MaxVersion    \* bound: versions of the remote file that others may cause

ASSUME FileBufferAssumption ==
    /\ Cardinality({Other, Zero, Absent}) = 3
    /\ {Other, Zero, Absent} \cap Handles = {}
    /\ Lengths \subseteq Nat
    /\ {MaxSize, MaxVersion} \subseteq Nat

VARIABLES
    remote,     \* external: the content of the file, or Absent
    version,    \* external: the number of times it has changed
    requests,   \* WriteFile requests the remote has neither done nor refused
    file,       \* per handle: the open file
    stored      \* history: the handles whose content the remote has taken

vars == <<remote, version, requests, file, stored>>

Bytes    == Handles \cup {Other, Zero}
Contents == UNION {[1 .. n -> Bytes] : n \in 0 .. MaxSize}

(* The last four are history: the version it loaded, the positions it has  *)
(* written since (and not cut off again), those it has changed at all, and *)
(* whether a Close of it has reported an error.                            *)
Unopened == [state |-> "none", loaded |-> FALSE, dirty |-> FALSE, buf |-> <<>>,
             pos |-> 0, base |-> 0, wrote |-> {}, touched |-> {}, failed |-> FALSE]

(* A file whose first Close returned result.  Its memory never reaches the *)
(* remote again and is left out, with what Seek, Truncate and (WebDAV, which *)
(* refuses nothing on a closed file) Read and Write still do to it.        *)
Closed(result) == [Unopened EXCEPT !.state = result, !.failed = (result = "error")]

Init ==
    /\ remote \in {Absent} \cup {[i \in 1 .. n |-> Other] : n \in 1 .. MaxSize}
    /\ version = 0
    /\ requests = {}
    /\ file = [h \in Handles |-> Unopened]
    /\ stored = {}

(* A step of an open file, by which it becomes f.                          *)
Become(h, f) == file' = [file EXCEPT ![h] = f]

-----------------------------------------------------------------------------
(* What the operations do to a content                                     *)

(* make and copy: zeros up to a length of n.                               *)
Padded(data, n) == data \o [i \in 1 .. (n - Len(data)) |-> Zero]

Overwrite(data, pos, p) ==
    [i \in 1 .. Len(data) |->
        IF i \in (pos + 1) .. (pos + Len(p)) THEN p[i - pos] ELSE data[i]]

Resize(data, n) == IF n <= Len(data) THEN SubSeq(data, 1, n) ELSE Padded(data, n)

(* Slip: whatever lies after the written bytes is lost.                    *)
WriteAndCut(data, pos, p) == Overwrite(Resize(data, pos + Len(p)), pos, p)

(* Writing past the end leaves zeros in between.                           *)
WriteAt(data, pos, p) ==
    Overwrite(IF pos + Len(p) > Len(data) THEN Padded(data, pos + Len(p)) ELSE data,
              pos, p)

-----------------------------------------------------------------------------
(* Slip: loaded again, whatever has been written.                          *)
LoadAgain(h) ==
    [file[h] EXCEPT !.loaded = TRUE, !.base = version,
                    !.buf = IF remote = Absent THEN <<>> ELSE remote]

(* load: a file that is not there is taken for an empty one.  (If the      *)
(* remote fails in another way the operation fails, and changes nothing.)  *)
Load(h) ==
    IF file[h].loaded THEN file[h]
    ELSE [file[h] EXCEPT !.loaded = TRUE, !.base = version,
                         !.buf = IF remote = Absent THEN <<>> ELSE remote]

(* Opening with an empty content that must be written, or with whatever    *)
(* the remote holds when it is needed.                                     *)
Fresh(h) == [Unopened EXCEPT !.state = "open", !.loaded = TRUE, !.dirty = TRUE,
                           !.base = version, !.touched = 1 .. MaxSize]
Lazy     == [Unopened EXCEPT !.state = "open"]

(* A Read to the end of what there is, at most.                            *)
Advanced(f, n) ==
    [f EXCEPT !.pos = IF @ >= Len(f.buf) THEN @
                      ELSE IF @ + n > Len(f.buf) THEN Len(f.buf) ELSE @ + n]

Written(h, f, n) ==
    LET span == (f.pos + 1) .. (f.pos + n)
    IN  [f EXCEPT !.buf = WriteAt(@, f.pos, [i \in 1 .. n |-> h]),
                  !.pos = @ + n, !.dirty = TRUE,
                  !.wrote = @ \cup span, !.touched = @ \cup span]

Truncated(f, n) ==
    [f EXCEPT !.buf = Resize(@, n), !.dirty = TRUE,
              !.wrote = @ \cap (1 .. n), !.touched = @ \cup ((n + 1) .. MaxSize)]

-----------------------------------------------------------------------------
(* Close: a changed content is sent to the remote, which answers, refuses, *)
(* or keeps Close waiting for longer than it will.                         *)

Request(h) == [by |-> h, file |-> file[h]]

CloseDirty(h) ==
    /\ file[h].state = "open"
    /\ file[h].dirty
    /\ requests' = requests \cup {Request(h)}
    /\ Become(h, [file[h] EXCEPT !.state = "flush"])
    /\ UNCHANGED <<remote, version, stored>>

CloseClean(h) ==
    /\ file[h].state = "open"
    /\ ~file[h].dirty
    /\ Become(h, Closed("ok"))
    /\ UNCHANGED <<remote, version, requests, stored>>

Sent(h) == \E r \in requests : r.by = h

(* Slip: success before the remote has answered.                           *)
ReturnsAtOnce(h) ==
    /\ file[h].state = "flush"
    /\ Become(h, Closed("ok"))
    /\ UNCHANGED <<remote, version, requests, stored>>

CloseReturns(h) ==
    /\ file[h].state = "flush"
    /\ ~Sent(h)
    /\ Become(h, Closed("ok"))
    /\ UNCHANGED <<remote, version, requests, stored>>

(* Slip: the error is lost.                                                *)
FailsUnnoticed(h) ==
    /\ file[h].state = "flush"
    /\ requests' \in {requests, {r \in requests : r.by # h}}
    /\ Become(h, Closed("ok"))
    /\ UNCHANGED <<remote, version, stored>>

(* The remote refuses, the request cannot be sent, or the call times out.  *)
CloseFails(h) ==
    /\ file[h].state = "flush"
    /\ requests' \in {requests, {r \in requests : r.by # h}}
    /\ Become(h, Closed("error"))
    /\ UNCHANGED <<remote, version, stored>>

(* A file that is closed already: nil, whatever the first Close returned.  *)
(* (A second Close waits at the mutex for as long as the first one runs.)  *)
CloseAgain(h) ==
    /\ file[h].state \in {"ok", "error"}
    /\ Become(h, [file[h] EXCEPT !.state = "ok"])
    /\ UNCHANGED <<remote, version, requests, stored>>

-----------------------------------------------------------------------------
(* External: the remote carries a request out, sooner or later, and other  *)
(* programs change the file.                                               *)

RemoteWrites(r) ==
    /\ remote' = r.file.buf
    /\ version' = version + 1
    /\ requests' = requests \ {r}
    /\ stored' = stored \cup {r.by}
    /\ UNCHANGED file

OthersChange ==
    /\ version < MaxVersion
    /\ remote' \in {Absent} \cup {[i \in 1 .. n |-> Other] : n \in 1 .. MaxSize}
    /\ version' = version + 1
    /\ UNCHANGED <<requests, file, stored>>

-----------------------------------------------------------------------------
(* Properties                                                              *)

(* Writing a file back whole undoes what others did only if they did it    *)
(* after the file was loaded: if the remote still holds the version that   *)
(* was loaded, no byte changes but those the open file was told to change. *)
OnlyOwnBytesChange ==
    [][\A r \in requests :
          (RemoteWrites(r) /\ r.file.base = version /\ remote # Absent)
              => \A i \in DOMAIN remote \ r.file.touched :
                    i \in DOMAIN remote' /\ remote'[i] = remote[i]]_vars

(* What the remote takes from an open file has every byte that was written *)
(* to it and not cut off again, whenever it was loaded and in whatever     *)
(* order it was written, read, truncated and sought.                       *)
WrittenBytesArrive ==
    [][\A r \in requests : RemoteWrites(r) =>
          \A i \in r.file.wrote : i \in DOMAIN remote' /\ remote'[i] = r.by]_vars

(* When Close reports success, and none has reported an error before it,   *)
(* the remote has taken whatever was written, and nothing is under way     *)
(* that could overwrite later versions: only a Close that reported an      *)
(* error may still take effect.  Of a Close after that nothing is said: it *)
(* reports success (CloseAgain) whether the remote has the content or not. *)
SuccessIsFinal ==
    [][\A h \in Handles :
          (/\ file'[h].state = "ok" /\ file[h].state # "ok"
           /\ ~file'[h].failed)
              => /\ file[h].wrote # {} => h \in stored
                 /\ ~Sent(h)]_vars
=============================================================================
