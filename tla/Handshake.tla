------------------------------ MODULE Handshake ------------------------------
(***************************************************************************)
(* internal/protocol/conn.go, from Dial to Close: the handshake over       *)
(* Control frames that makes a connection usable, and the mutex c.mu that  *)
(* sendFrame holds while a write is blocked because the other end does not *)
(* read.  Everything that Conn does in one step with c.mu waits here until *)
(* the mutex is free.  The goroutine that calls Dial, Handshake and Close  *)
(* (run and runTerminal in cmd/code-local/main.go) is `main'.              *)
(*                                                                         *)
(* Definitions marked Slip are not the code: they are mistakes it could    *)
(* have made, which the properties below notice.                           *)
(***************************************************************************)
EXTENDS Conn

VARIABLES
    phase,    \* where main is: a step of the handshake, "done" (in use),
              \*   "closing" or "failed" (it calls Close, or has)
    mu,       \* who holds c.mu across a write, or "free"
    server,   \* external: how far the server has come in the handshake
    replies   \* what the Control frames on their way, or queued, say

phaseVars == <<phase, server, replies>>
vars      == <<connVars, mu, phaseVars>>

(* What Dial leaves behind: both loops have started.                       *)
Init ==
    /\ ConnInit
    /\ phase = "sendAuth"
    /\ mu = "free"
    /\ server = "waiting" /\ replies = <<>>

(* The IPC client exists, and with it the senders and the consumer of      *)
(* RegularMessages().                                                      *)
InUse == phase \in {"done", "closing"}

-----------------------------------------------------------------------------
(* External: the server answers each request or refuses it; once it has    *)
(* accepted, and only then, may it send Control frames nobody waits for.   *)

ServerSays(content, state) ==
    /\ ServerBare("Control")
    /\ replies' = Append(replies, content)
    /\ server' = state
    /\ UNCHANGED <<mu, phase>>

ServerAnswers ==
    \/ server = "auth" /\ ServerSays("sign", "signed")
    \/ server = "type" /\ ServerSays("ok", "accepted")
    \/ server \in {"auth", "type"} /\ ServerSays("error", "refused")
    \/ server = "accepted" /\ ServerSays("stray", "accepted")

-----------------------------------------------------------------------------
(* sendFrame: lock, check c.closed, write, unlock.                         *)

Writers == Senders \cup {"main", "keepAlive"}

Wants(w) ==
    CASE w = "main"      -> phase \in {"sendAuth", "sendType"}
      [] w = "keepAlive" -> keepAlive = "send"
      [] OTHER           -> frame[w] # 0

Lock(w) ==
    /\ mu = "free"
    /\ Wants(w)
    /\ mu' = w
    /\ UNCHANGED <<connVars, phaseVars>>

(* Slip: an error returns without unlocking.                               *)
UnlockUnlessBroken == mu' = IF ws = "open" THEN "free" ELSE mu

Unlock == mu' = "free"

(* SendControl: the request reaches the server, or is lost in a broken     *)
(* socket, ...                                                             *)
SendControl ==
    /\ ~closed
    /\ phase' = IF phase = "sendAuth" THEN "recvSign" ELSE "recvOK"
    /\ server' = IF ws # "open" THEN server
                 ELSE IF phase = "sendAuth" THEN "auth" ELSE "type"
    /\ UNCHANGED <<connVars, replies>>

(* ... or the error ends the handshake.                                    *)
SendControlFails ==
    /\ closed \/ ws # "open"
    /\ phase' = "failed"
    /\ UNCHANGED <<connVars, server, replies>>

(* WriteMessage returns, if it is called at all: at once, or whenever the  *)
(* other end makes room by reading.                                        *)
WriteReturns(w) ==
    /\ mu = w
    /\ Unlock
    /\ \/ w = "main" /\ (SendControl \/ SendControlFails)
       \/ w = "keepAlive" /\ KeepAliveSend /\ UNCHANGED phaseVars
       \/ /\ w \in Senders
          /\ WriteFails(w) \/ \E p \in Payloads : WriteFrame(w, p)
          /\ UNCHANGED phaseVars

-----------------------------------------------------------------------------
(* Handshake: what it makes of a reply, ...                                *)

(* Slip: a refusal of the connection type is not looked at.                *)
AcceptAnyOK(content) ==
    IF phase = "recvOK" THEN "done" ELSE IF content = "error" THEN "failed" ELSE "sendType"

AfterReply(content) ==
    IF content = "error" THEN "failed" ELSE IF phase = "recvSign" THEN "sendType" ELSE "done"

(* ... and RecvControl, which takes any of a frame, the end of the         *)
(* connection and the end of its time, of those that are ready.            *)
RecvReply ==
    /\ phase \in {"recvSign", "recvOK"}
    /\ TakeControl
    /\ replies' = Tail(replies)
    /\ phase' = AfterReply(Head(replies))
    /\ UNCHANGED <<mu, server>>

RecvClosed ==
    /\ phase \in {"recvSign", "recvOK"}
    /\ closeCh
    /\ phase' = "failed"
    /\ UNCHANGED <<connVars, mu, server, replies>>

RecvTimeout ==
    /\ phase \in {"recvSign", "recvOK"}
    /\ phase' = "failed"
    /\ UNCHANGED <<connVars, mu, server, replies>>

RecvControl == RecvReply \/ RecvClosed \/ RecvTimeout

(* main is done with the connection.                                       *)
Stop ==
    /\ phase = "done"
    /\ phase' = "closing"
    /\ UNCHANGED <<connVars, mu, server, replies>>

(* The deferred Close, which needs c.mu.                                   *)
CloseConn ==
    /\ phase \in {"closing", "failed"}
    /\ mu = "free"
    /\ Close
    /\ UNCHANGED <<mu, phaseVars>>

-----------------------------------------------------------------------------

(* readLoop takes c.mu to note an error, and for nothing else.             *)
Reader ==
    /\ ReadLoop
    /\ (closed' # closed) => mu = "free"
    /\ UNCHANGED <<mu, phaseVars>>

Ticker == (KeepAliveTick \/ KeepAliveStop) /\ UNCHANGED <<mu, phaseVars>>

Users ==
    /\ InUse
    /\ \/ \E s \in Senders : BuildFrame(s)
       \/ RecvRegular \/ RecvEnd
    /\ UNCHANGED <<mu, phaseVars>>

Network ==
    /\ \/ \E n \in 1 .. MaxMessage : \E ps \in [1 .. n -> Payloads] : ServerRegular(ps)
       \/ NetworkFailure
    /\ UNCHANGED <<mu, phaseVars>>

Next ==
    \/ ServerAnswers \/ Network
    \/ \E w \in Writers : Lock(w) \/ WriteReturns(w)
    \/ RecvControl \/ Stop \/ CloseConn
    \/ Reader \/ Ticker \/ Users

Safety == Init /\ [][Next]_vars

(* Goroutines run; a mutex that is free again and again is got at last     *)
(* (Go's mutexes hand over to one that has waited for long); the write to  *)
(* a broken socket returns.                                                *)
Fairness ==
    /\ SF_vars(Reader)
    /\ SF_vars(KeepAliveStop /\ UNCHANGED <<mu, phaseVars>>)
    /\ \A w \in Writers : SF_vars(Lock(w)) /\ WF_vars(WriteReturns(w) /\ ws # "open")
    /\ WF_vars(RecvControl)
    /\ SF_vars(CloseConn)

Spec == Safety /\ Fairness

(* The other end reads, sooner or later, what is written to it.            *)
OtherEndReads == \A w \in Writers : WF_vars(WriteReturns(w))

-----------------------------------------------------------------------------
(* Properties                                                              *)

(* Handshake succeeds only on a connection the server has accepted:        *)
(* whatever is lost, late, or ready at the same time, the second reply is  *)
(* never mistaken for the first, nor a refusal for an answer.              *)
OnlyAcceptedInUse == InUse => server = "accepted"

(* If the other end reads at last, Handshake comes to an end, and a Close  *)
(* that has been called succeeds and takes both loops with it, even while  *)
(* a write holds c.mu.                                                     *)
EverythingEnds ==
    OtherEndReads =>
        /\ <>(phase \in {"done", "closing", "failed"})
        /\ (phase \in {"closing", "failed"})
              ~> (ws = "closed" /\ reader = "done" /\ keepAlive = "done")
=============================================================================
