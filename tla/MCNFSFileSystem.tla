--------------------------- MODULE MCNFSFileSystem ---------------------------
(* NFSFileSystem for TLC: a root, a directory d with a file, and a name e   *)
(* next to d that d can be renamed to, or the file moved into.              *)
EXTENDS NFSFileSystem, TLC

CONSTANTS c1, c2

MCClients == {c1, c2}
Symmetry  == Permutations(MCClients)

root == <<>>
d    == <<"d">>
df   == <<"d", "f">>
e    == <<"e">>
ef   == <<"e", "f">>

MCPaths == {root, d, df, e, ef}

FileRead    == {<<"stat", df>>}
DirReads    == {<<"stat", df>>, <<"dir", d>>}
FileChanges == {<<df>>}
AnyChanges  == {<<df>>, <<df, ef>>, <<d, e>>}
=============================================================================
