---------------------------- MODULE MCIPCClient -----------------------------
(* IPCClient for TLC: calls are interchangeable, and so are subscriptions.  *)
EXTENDS IPCClient, TLC

CONSTANTS c1, c2, u1, u2

TwoCalls == {c1, c2}
OneCall  == {c1}
None     == {}
OneSub   == {u1}
TwoSubs  == {u1, u2}

MCSenders == Calls \cup Subscriptions \cup {Main}
Symmetry  == Permutations(Calls) \cup Permutations(Subscriptions)
=============================================================================
