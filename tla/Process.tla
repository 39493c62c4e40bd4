------------------------------- MODULE Process -------------------------------
(***************************************************************************)
(* What the two commands of cmd/code-local/main.go have in common: a main  *)
(* goroutine with Go's deferred calls, the signals it may have asked for,  *)
(* and the connection as everybody above IPCClient sees it.                *)
(***************************************************************************)
EXTENDS Sequences

VARIABLES
    conn,      \* "none", "open", "dead" (the socket is broken) or "closed"
               \*   (by conn.Close)
    at,        \* where main is: a step of run, runTerminal or RunSession,
               \*   "return" (the deferred calls run), "over" or "killed"
    defers,    \* the deferred calls that are to come, the next one first
    signal     \* "default", "caught" (signal.Notify) or "pending"

processVars == <<conn, at, defers, signal>>

(* Slip: deferred calls in the order of the statements.                    *)
InOrder(call) == Append(defers, call)

Deferred(call) == <<call>> \o defers

ProcessInit(first) ==
    conn = "none" /\ at = first /\ defers = <<>> /\ signal = "default"

Running == at \notin {"over", "killed"}

(* Main goes on, with one more deferred call, or returns.                  *)
Goto(step)         == at' = step /\ UNCHANGED defers
Defer(call, step)  == at' = step /\ defers' = Deferred(call)
Return             == Goto("return")

(* The next deferred call is this one.                                     *)
Undo(call) ==
    /\ at = "return" /\ defers # <<>> /\ Head(defers) = call
    /\ defers' = Tail(defers)
    /\ UNCHANGED at

Finish ==
    /\ at = "return" /\ defers = <<>>
    /\ at' = "over"
    /\ UNCHANGED <<conn, defers, signal>>

(* IPCClient.Call: an answer needs a connection, a failure nothing, since  *)
(* there is a time-out; a request that failed may have been carried out.   *)
(* Listen only sends: a broken socket may take what nobody gets.           *)
Answered == conn = "open"
Sent     == conn \in {"open", "dead"}
SendFails == conn # "open"

CloseConn ==
    /\ Undo("Close")
    /\ conn' = "closed"
    /\ UNCHANGED signal

ConnectionDies ==
    /\ conn = "open"
    /\ conn' = "dead"
    /\ UNCHANGED <<at, defers, signal>>

(* SIGINT or SIGTERM: one that nobody has asked for ends the process.      *)
Signal ==
    /\ Running
    /\ IF signal = "default"
       THEN at' = "killed" /\ conn' = "closed" /\ UNCHANGED <<defers, signal>>
       ELSE signal' = "pending" /\ UNCHANGED <<conn, at, defers>>
=============================================================================
