------------------------------ MODULE MCCache -------------------------------
(* Cache for TLC: two of the three keys share a prefix.                    *)
EXTENDS Cache

CONSTANTS k1, k2, k3, v1, v2

MCKeys     == {k1, k2, k3}
MCValues   == {v1, v2}
MCKeyGroups == {{k1, k2}, {}}
=============================================================================
