-------------------------------- MODULE Conn --------------------------------
(***************************************************************************)
(* internal/protocol/conn.go: one WebSocket connection speaking VS Code's  *)
(* frame protocol.  Three kinds of goroutines share it: readLoop, which    *)
(* decodes frames and hands them to two bounded channels; keepAliveLoop;   *)
(* and any number of senders.  The WebSocket and the server at its other   *)
(* end are external: `inbound' is what the server wrote and readLoop has   *)
(* not read, `outbound' is the log of the Regular frames written to it.    *)
(*                                                                         *)
(* Definitions marked Slip are not the code: they are mistakes it could    *)
(* have made, which the properties below notice.                           *)
(***************************************************************************)
EXTENDS Naturals, Sequences, SequencesExt

CONSTANTS
    Senders,     \* the goroutines that call SendRegular
    Payloads,    \* what a Regular frame can carry, in either direction
    RegularCap,  \* capacity of regularCh (64 in the code)
    ControlCap,  \* capacity of controlCh (16 in the code)
    MaxFrames,   \* bound: Regular frames the server writes
    MaxMessage,  \* bound: Regular frames in one WebSocket message
    MaxBare,     \* bound: other frames the server writes
    MaxSends     \* bound: calls of SendRegular

ASSUME ConnAssumption ==
    /\ RegularCap \in Nat \ {0}
    /\ ControlCap \in Nat \ {0}
    /\ {MaxFrames, MaxMessage, MaxBare, MaxSends} \subseteq Nat

VARIABLES
    closed,         \* c.closed, guarded by c.mu
    closeCh,        \* TRUE once c.closeCh is closed
    ws,             \* "open", "broken" (network) or "closed" (by Close)
    inbound,        \* sequence of WebSocket messages, each a sequence of frames
    batch,          \* frames of the message readLoop is working on
    reader,         \* where readLoop is
    incomingAck,    \* c.incomingAck, the Ack of whatever is sent next
    regularCh,
    regularClosed,  \* TRUE once c.regularCh is closed
    controlCh,
    consumed,       \* ID of the last frame taken from RegularMessages()
    streamEnded,    \* its consumer has seen the channel closed
    keepAlive,      \* where keepAliveLoop is
    outgoingID,     \* c.outgoingID
    frame,          \* per sender: ID of the frame it has built, 0 for none
    outbound,
    serverID,       \* external: ID of the server's last Regular frame
    serverBare      \* external: other frames written so far

lifeVars   == <<closed, closeCh, ws>>
readVars   == <<batch, reader, incomingAck, regularClosed>>
chanVars   == <<regularCh, controlCh>>
recvVars   == <<consumed, streamEnded>>
sendVars   == <<outgoingID, frame, outbound>>
serverVars == <<inbound, serverID, serverBare>>
connVars   == <<lifeVars, readVars, chanVars, recvVars, sendVars, keepAlive,
                serverVars>>

RegularFrame(id, p) == [Type |-> "Regular", ID |-> id, Payload |-> p]
BareFrame(type)     == [Type |-> type, ID |-> 0]

(* Bare frames: Control ones nobody waits for, ones of a type deliverFrame *)
(* does not know (KeepAlive, Ack, ...), and bytes that are no whole frame. *)
BareTypes == {"Control", "KeepAlive", "Torn"}

Frames == [Type : {"Regular"}, ID : Nat, Payload : Payloads]
          \cup [Type : BareTypes, ID : {0}]

(* The state Dial leaves behind.                                           *)
ConnInit ==
    /\ closed = FALSE /\ closeCh = FALSE /\ ws = "open"
    /\ inbound = <<>> /\ serverID = 0 /\ serverBare = 0
    /\ batch = <<>> /\ reader = "read" /\ incomingAck = 0
    /\ regularCh = <<>> /\ regularClosed = FALSE /\ controlCh = <<>>
    /\ consumed = 0 /\ streamEnded = FALSE
    /\ keepAlive = "idle"
    /\ outgoingID = 0 /\ frame = [s \in Senders |-> 0] /\ outbound = <<>>

-----------------------------------------------------------------------------
(* External: the server and the network.                                   *)

(* The server writes one WebSocket message holding the Regular frames for  *)
(* the payloads ps, which it numbers in order.                             *)
ServerRegular(ps) ==
    /\ ws = "open"
    /\ serverID + Len(ps) <= MaxFrames
    /\ inbound' = Append(inbound,
                    [i \in 1 .. Len(ps) |-> RegularFrame(serverID + i, ps[i])])
    /\ serverID' = serverID + Len(ps)
    /\ UNCHANGED <<lifeVars, readVars, chanVars, recvVars, sendVars, keepAlive,
                   serverBare>>

ServerBare(type) ==
    /\ ws = "open"
    /\ serverBare < MaxBare
    /\ serverBare' = serverBare + 1
    /\ inbound' = Append(inbound, <<BareFrame(type)>>)
    /\ UNCHANGED <<lifeVars, readVars, chanVars, recvVars, sendVars, keepAlive,
                   serverID>>

NetworkFailure ==
    /\ ws = "open"
    /\ ws' = "broken"
    /\ UNCHANGED <<closed, closeCh, readVars, chanVars, recvVars, sendVars,
                   keepAlive, serverVars>>

-----------------------------------------------------------------------------
(* readLoop and deliverFrame.                                              *)

(* ReadMessage returns data; a broken or closed socket may still have some *)
(* buffered.                                                               *)
ReadMessage ==
    /\ reader = "read"
    /\ inbound # <<>>
    /\ batch' = Head(inbound)
    /\ inbound' = Tail(inbound)
    /\ reader' = "decode"
    /\ UNCHANGED <<lifeVars, incomingAck, regularClosed, chanVars, recvVars,
                   sendVars, keepAlive, serverID, serverBare>>

(* Slip: readLoop ends without setting c.closed.                           *)
ReadErrorForgetsClosed ==
    /\ reader = "read"
    /\ ws # "open"
    /\ reader' = "signal"
    /\ UNCHANGED <<lifeVars, batch, incomingAck, regularClosed, chanVars,
                   recvVars, sendVars, keepAlive, serverVars>>

ReadError ==
    /\ reader = "read"
    /\ ws # "open"
    /\ closed' = TRUE
    /\ reader' = "signal"
    /\ UNCHANGED <<closeCh, ws, batch, incomingAck, regularClosed, chanVars,
                   recvVars, sendVars, keepAlive, serverVars>>

(* Slip: readLoop decodes only the first frame of a message.               *)
AdvanceOneFramePerMessage ==
    /\ batch' = <<>>
    /\ reader' = "read"

(* The frame at the head of the batch is done with.                        *)
Advance ==
    /\ batch' = Tail(batch)
    /\ reader' = IF Len(batch) = 1 THEN "read" ELSE "decode"

(* Slip: the ack is stored whatever the type of the frame.                 *)
StoreAckOfEveryFrame ==
    incomingAck' = Head(batch).ID

(* The Ack is stored before the frame is queued.                           *)
StoreAck ==
    incomingAck' = IF Head(batch).Type = "Regular" THEN Head(batch).ID
                                                   ELSE incomingAck

(* DecodeFrame, then deliverFrame up to its select.  Bytes that make no    *)
(* frame end the message: what follows in it is dropped.                   *)
DecodeFrame ==
    /\ reader = "decode"
    /\ \/ /\ Head(batch).Type \in {"Regular", "Control"}
          /\ reader' = "select"
          /\ UNCHANGED batch
       \/ /\ Head(batch).Type = "KeepAlive"
          /\ Advance
       \/ /\ Head(batch).Type = "Torn"
          /\ reader' = "read"
          /\ batch' = <<>>
    /\ StoreAck
    /\ UNCHANGED <<lifeVars, regularClosed, chanVars, recvVars, sendVars,
                   keepAlive, serverVars>>

(* Slip: a select with a default case drops what does not fit.             *)
DropRegularWhenFull ==
    /\ Head(batch).Type = "Regular"
    /\ regularCh' = IF Len(regularCh) < RegularCap
                    THEN Append(regularCh, Head(batch)) ELSE regularCh
    /\ UNCHANGED controlCh

(* Slip: a queue without a bound.                                          *)
QueueRegularUnbounded ==
    /\ Head(batch).Type = "Regular"
    /\ regularCh' = Append(regularCh, Head(batch))
    /\ UNCHANGED controlCh

(* The select of deliverFrame: the queue has room, ...                     *)
QueueRegular ==
    /\ Head(batch).Type = "Regular"
    /\ Len(regularCh) < RegularCap
    /\ regularCh' = Append(regularCh, Head(batch))
    /\ UNCHANGED controlCh

QueueControl ==
    /\ Head(batch).Type = "Control"
    /\ Len(controlCh) < ControlCap
    /\ controlCh' = Append(controlCh, Head(batch))
    /\ UNCHANGED regularCh

DeliverFrame ==
    /\ reader = "select"
    /\ QueueRegular \/ QueueControl
    /\ Advance
    /\ UNCHANGED <<lifeVars, incomingAck, regularClosed, recvVars, sendVars,
                   keepAlive, serverVars>>

(* Slip: the select does not watch closeCh.                                *)
AbandonOnlyWhenIdle ==
    /\ reader = "read"
    /\ closeCh
    /\ reader' = "signal"
    /\ UNCHANGED <<lifeVars, batch, incomingAck, regularClosed, chanVars,
                   recvVars, sendVars, keepAlive, serverVars>>

(* ... or closeCh is closed, and readLoop returns.                         *)
AbandonDelivery ==
    /\ reader = "select"
    /\ closeCh
    /\ reader' = "signal"
    /\ UNCHANGED <<lifeVars, batch, incomingAck, regularClosed, chanVars,
                   recvVars, sendVars, keepAlive, serverVars>>

(* The deferred function of readLoop.                                      *)
ReaderSignals ==
    /\ reader = "signal"
    /\ closeCh' = TRUE
    /\ reader' = "close"
    /\ UNCHANGED <<closed, ws, batch, incomingAck, regularClosed, chanVars,
                   recvVars, sendVars, keepAlive, serverVars>>

ReaderClosesRegular ==
    /\ reader = "close"
    /\ regularClosed' = TRUE
    /\ reader' = "done"
    /\ UNCHANGED <<lifeVars, batch, incomingAck, chanVars, recvVars, sendVars,
                   keepAlive, serverVars>>

ReadLoop ==
    \/ ReadMessage \/ ReadError \/ DecodeFrame \/ DeliverFrame
    \/ AbandonDelivery \/ ReaderSignals \/ ReaderClosesRegular

-----------------------------------------------------------------------------
(* Sending.  A frame carries incomingAck and leaves no trace in the state  *)
(* of the connection: only Regular ones are logged.                        *)

KeepAliveTick ==
    /\ keepAlive = "idle"
    /\ keepAlive' = "send"
    /\ UNCHANGED <<lifeVars, readVars, chanVars, recvVars, sendVars, serverVars>>

(* The error of sendFrame is ignored.                                      *)
KeepAliveSend ==
    /\ keepAlive = "send"
    /\ keepAlive' = "idle"
    /\ UNCHANGED <<lifeVars, readVars, chanVars, recvVars, sendVars, serverVars>>

KeepAliveStop ==
    /\ keepAlive = "idle"
    /\ closeCh
    /\ keepAlive' = "done"
    /\ UNCHANGED <<lifeVars, readVars, chanVars, recvVars, sendVars, serverVars>>

KeepAliveLoop == KeepAliveTick \/ KeepAliveSend \/ KeepAliveStop

(* Slip: the counter is read and written, not incremented.                 *)
LoadThenStoreID(s) ==
    /\ frame' = [frame EXCEPT ![s] = outgoingID + 1]
    /\ outgoingID' = IF \A t \in Senders : frame[t] = 0 THEN outgoingID + 1
                                                        ELSE outgoingID

(* SendRegular, first half: the ID is fixed before c.mu is taken, so       *)
(* frames can reach the wire in another order than their IDs.              *)
AddID(s) ==
    /\ outgoingID' = outgoingID + 1
    /\ frame' = [frame EXCEPT ![s] = outgoingID + 1]

BuildFrame(s) ==
    /\ frame[s] = 0
    /\ outgoingID < MaxSends
    /\ AddID(s)
    /\ UNCHANGED <<lifeVars, readVars, chanVars, recvVars, outbound, keepAlive,
                   serverVars>>

(* Second half, sendFrame under c.mu: it returns nil ...  A broken socket  *)
(* may swallow the frame.                                                  *)
WriteFrame(s, p) ==
    /\ frame[s] # 0
    /\ ~closed
    /\ outbound' = IF ws = "open"
                   THEN Append(outbound, [ID |-> frame[s], Payload |-> p])
                   ELSE outbound
    /\ frame' = [frame EXCEPT ![s] = 0]
    /\ UNCHANGED <<lifeVars, readVars, chanVars, recvVars, outgoingID, keepAlive,
                   serverVars>>

(* ... or an error, and the ID is lost.                                    *)
WriteFails(s) ==
    /\ frame[s] # 0
    /\ closed \/ ws # "open"
    /\ frame' = [frame EXCEPT ![s] = 0]
    /\ UNCHANGED <<lifeVars, readVars, chanVars, recvVars, outgoingID, outbound,
                   keepAlive, serverVars>>

-----------------------------------------------------------------------------
(* Close, and the consumer of RegularMessages().                           *)

Close ==
    /\ ws # "closed"
    /\ closed' = TRUE
    /\ closeCh' = TRUE
    /\ ws' = "closed"
    /\ UNCHANGED <<readVars, chanVars, recvVars, sendVars, keepAlive, serverVars>>

(* Slip: a stack instead of a queue.                                       *)
RecvNewest ==
    /\ regularCh # <<>>
    /\ consumed' = Last(regularCh).ID
    /\ regularCh' = Front(regularCh)
    /\ UNCHANGED <<lifeVars, readVars, controlCh, streamEnded, sendVars,
                   keepAlive, serverVars>>

RecvRegular ==
    /\ regularCh # <<>>
    /\ consumed' = Head(regularCh).ID
    /\ regularCh' = Tail(regularCh)
    /\ UNCHANGED <<lifeVars, readVars, controlCh, streamEnded, sendVars,
                   keepAlive, serverVars>>

(* `range' ends once the channel is closed and empty.                      *)
RecvEnd ==
    /\ regularClosed
    /\ regularCh = <<>>
    /\ ~streamEnded
    /\ streamEnded' = TRUE
    /\ UNCHANGED <<lifeVars, readVars, chanVars, consumed, sendVars, keepAlive,
                   serverVars>>

(* A frame that RecvControl takes: Handshake is its only caller.           *)
TakeControl ==
    /\ controlCh # <<>>
    /\ controlCh' = Tail(controlCh)
    /\ UNCHANGED <<lifeVars, readVars, regularCh, recvVars, sendVars, keepAlive,
                   serverVars>>

-----------------------------------------------------------------------------
(* The connection under any users.                                         *)

ServerWrites ==
    \/ \E n \in 1 .. MaxMessage : \E ps \in [1 .. n -> Payloads] : ServerRegular(ps)
    \/ \E type \in BareTypes : ServerBare(type)

Send(s) == BuildFrame(s) \/ WriteFails(s) \/ \E p \in Payloads : WriteFrame(s, p)

ConnNext ==
    \/ ServerWrites \/ NetworkFailure
    \/ ReadLoop \/ KeepAliveLoop
    \/ \E s \in Senders : Send(s)
    \/ Close
    \/ RecvRegular \/ RecvEnd \/ TakeControl

ConnSafety == ConnInit /\ [][ConnNext]_connVars

(* Control frames that have come and that nobody has taken.                *)
ControlPending ==
    Len(SelectSeq(controlCh \o batch \o FlattenSeq(inbound),
                  LAMBDA f : f.Type = "Control"))

(* Somebody keeps ranging over RegularMessages(), and no more Control      *)
(* frames come than controlCh holds, for nobody drains it after the        *)
(* handshake.                                                              *)
Drained == /\ WF_connVars(RecvRegular)
           /\ WF_connVars(RecvEnd)
           /\ [](ControlPending <= ControlCap)

-----------------------------------------------------------------------------
(* Properties                                                              *)

ConnTypeOK ==
    /\ {closed, closeCh, regularClosed, streamEnded} \subseteq BOOLEAN
    /\ ws \in {"open", "broken", "closed"}
    /\ inbound \in Seq(Seq(Frames))
    /\ batch \in Seq(Frames)
    /\ reader \in {"read", "decode", "select", "signal", "close", "done"}
    /\ regularCh \in Seq(Frames) /\ Len(regularCh) <= RegularCap
    /\ controlCh \in Seq(Frames) /\ Len(controlCh) <= ControlCap
    /\ keepAlive \in {"idle", "send", "done"}
    /\ {incomingAck, consumed, outgoingID, serverID, serverBare} \subseteq Nat
    /\ frame \in [Senders -> Nat]
    /\ outbound \in Seq([ID : Nat, Payload : Payloads])

(* The frames between the server and the consumer, in their order.         *)
OnTheWay == <<regularCh, batch>> \o inbound

RegularPlaces ==
    {p \in UNION {{m} \X DOMAIN OnTheWay[m] : m \in DOMAIN OnTheWay} :
        OnTheWay[p[1]][p[2]].Type = "Regular"}

(* While readLoop runs, the Regular frames between the server and the      *)
(* consumer are exactly those after the last consumed one, each once and   *)
(* in order, whatever the message boundaries and other frames in between:  *)
(* backpressure on a full regularCh loses nothing.                         *)
NoFrameLost ==
    LET ID(p) == OnTheWay[p[1]][p[2]].ID
    IN  reader \in {"read", "decode", "select"} =>
            /\ {ID(p) : p \in RegularPlaces} = consumed + 1 .. serverID
            /\ \A p, q \in RegularPlaces :
                  ID(p) < ID(q) <=> (p[1] < q[1] \/ (p[1] = q[1] /\ p[2] < q[2]))

(* The ack the client reports is the last frame it queued, or the one      *)
(* readLoop is queueing: a frame is never acknowledged while frames before *)
(* it are missing, and the ack does not fall behind either.                *)
AckMatchesDelivery ==
    LET queued == consumed + Len(regularCh)
    IN  incomingAck = queued + (IF /\ reader \notin {"read", "decode"}
                                   /\ batch # <<>>
                                   /\ Head(batch).Type = "Regular"
                                THEN 1 ELSE 0)

(* No two Regular frames on the wire carry the same ID, however the        *)
(* senders interleave between SendRegular's two halves.                    *)
WireIDsUnique ==
    \A i, j \in DOMAIN outbound : outbound[i].ID = outbound[j].ID => i = j

(* Whoever is woken by closeCh finds the connection closed: no path signals *)
(* before c.closed is set, so nothing can be sent after the signal.         *)
SignalImpliesClosed == closeCh => closed

(* Once the connection counts as closed both goroutines end and the        *)
(* consumer's channel is closed, even if nobody drains the queues.         *)
Shutdown ==
    closed ~> (reader = "done" /\ keepAlive = "done" /\ regularClosed)

(* A dead socket is noticed while the queues are drained: readLoop sees    *)
(* the error only when it is back in ReadMessage, not while it waits for   *)
(* room.                                                                   *)
DeadSocketNoticed == Drained => ((ws = "broken") ~> closed)

(* While the queues are drained, every Regular frame reaches the consumer  *)
(* or the connection goes down.                                            *)
EveryFrameArrives ==
    Drained =>
        \A n \in 1 .. MaxFrames : (serverID >= n) ~> (consumed >= n \/ ws # "open")

(* The stream the consumer sees is a FrameChannel.                         *)
Channel == INSTANCE FrameChannel WITH
               sent <- serverID, received <- consumed, ended <- streamEnded

ImplementsFrameChannel == Channel!Spec
=============================================================================
