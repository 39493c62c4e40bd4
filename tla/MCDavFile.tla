------------------------------ MODULE MCDavFile ------------------------------
(* DavFile for TLC: two open files of one file.                            *)
EXTENDS DavFile

CONSTANTS h1, h2

MCHandles == {h1, h2}
=============================================================================
