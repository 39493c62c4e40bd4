----------------------------- MODULE MCHandshake -----------------------------
(* Handshake for TLC: one sender beside main and keepAliveLoop.            *)
EXTENDS Handshake, TLC

CONSTANTS s1, p1

MCSenders  == {s1}
MCPayloads == {p1}
=============================================================================
