------------------------------- MODULE MCConn -------------------------------
(* Conn for TLC: senders and payloads are interchangeable model values.    *)
EXTENDS Conn, TLC

CONSTANTS s1, s2, p1

MCSenders  == {s1, s2}
MCPayloads == {p1}
Symmetry   == Permutations(MCSenders)
=============================================================================
