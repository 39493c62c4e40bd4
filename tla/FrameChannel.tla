---------------------------- MODULE FrameChannel ----------------------------
(***************************************************************************)
(* What internal/protocol/conn.go promises to the reader of                *)
(* RegularMessages(): the Regular frames the server wrote come out once    *)
(* each, in order, until the stream ends.  Frames are known by their ID,   *)
(* which the server counts 1, 2, 3, ...                                    *)
(***************************************************************************)
EXTENDS Naturals

VARIABLES
    sent,      \* ID of the last Regular frame the server wrote
    received,  \* ID of the last Regular frame the consumer took
    ended      \* the consumer has seen the end of the stream

Init ==
    /\ sent = 0
    /\ received = 0
    /\ ended = FALSE

(* One WebSocket message may carry several frames.                         *)
Send ==
    /\ sent' \in Nat
    /\ sent' > sent
    /\ UNCHANGED <<received, ended>>

Receive ==
    /\ ~ended
    /\ received < sent
    /\ received' = received + 1
    /\ UNCHANGED <<sent, ended>>

(* Frames that were not received yet are lost with the connection.         *)
End ==
    /\ ~ended
    /\ ended' = TRUE
    /\ UNCHANGED <<sent, received>>

Next == Send \/ Receive \/ End

Spec == Init /\ [][Next]_<<sent, received, ended>>
=============================================================================
