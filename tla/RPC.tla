-------------------------------- MODULE RPC ---------------------------------
(***************************************************************************)
(* What IPCClient.Call (internal/protocol/ipc.go) promises: every call      *)
(* returns once, with an answer the server gave to that very call, with a  *)
(* timeout, or with a send error; and the server never sees a call that    *)
(* returned a send error.                                                  *)
(***************************************************************************)
CONSTANTS
    Calls,     \* the calls made, one member each
    Outcomes,  \* what the server can answer
    NoResult   \* the result of a call that has not returned

VARIABLES
    phase,    \* per call: "idle", "pending" or "done"
    replies,  \* per call: the outcomes the server has answered
    result    \* per call: what it returned

Init ==
    /\ phase = [c \in Calls |-> "idle"]
    /\ replies = [c \in Calls |-> {}]
    /\ result = [c \in Calls |-> NoResult]

Issue(c) ==
    /\ phase[c] = "idle"
    /\ phase' = [phase EXCEPT ![c] = "pending"]
    /\ UNCHANGED <<replies, result>>

(* The server may answer after the call has given up waiting.              *)
Reply(c, o) ==
    /\ phase[c] # "idle"
    /\ result[c] # "SendError"
    /\ replies' = [replies EXCEPT ![c] = @ \cup {o}]
    /\ UNCHANGED <<phase, result>>

Return(c, r) ==
    /\ phase[c] = "pending"
    /\ \/ r \in replies[c] \cup {"Timeout"}
       \/ r = "SendError" /\ replies[c] = {}
    /\ phase' = [phase EXCEPT ![c] = "done"]
    /\ result' = [result EXCEPT ![c] = r]
    /\ UNCHANGED replies

Next ==
    \E c \in Calls :
        \/ Issue(c)
        \/ \E o \in Outcomes : Reply(c, o)
        \/ \E r \in Outcomes \cup {"Timeout", "SendError"} : Return(c, r)

Spec == Init /\ [][Next]_<<phase, replies, result>>
=============================================================================
