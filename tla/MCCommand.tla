----------------------------- MODULE MCCommand -----------------------------
(* Command for TLC: a mount, of which one name is followed, with a request  *)
(* at a time, or a terminal whose server holds back what follows two        *)
(* characters.                                                              *)
EXTENDS Command, TLC

CONSTANTS h1, h2, c1, p, a, b, c

MCHandlers == {h1, h2}
MCChunks   == {<<1, 1>>, <<1, 2>>}
MCContents == {{}, {a, b, c}}
MCCounts   == {-1, 1, 2}
=============================================================================
