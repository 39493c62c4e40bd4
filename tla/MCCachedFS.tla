----------------------------- MODULE MCCachedFS -----------------------------
(* CachedFS for TLC: a file that two clients read and write.                *)
EXTENDS CachedFS

CONSTANTS c1, c2

MCClients == {c1, c2}

root == <<>>
file == <<"f">>

MCPaths == {root, file}

OneRead     == {<<"stat", file>>}
FileChanges == {<<file>>}
=============================================================================
