----------------------------- MODULE ConnProofs -----------------------------
(***************************************************************************)
(* Invariants of Conn for any number of senders, any payloads, any queue   *)
(* capacities and any bounds.                                              *)
(***************************************************************************)
EXTENDS Conn, SequenceTheorems, TLAPS

-----------------------------------------------------------------------------
(* Types                                                                   *)

(* A message holds a frame at least, and readLoop holds frames exactly     *)
(* while it decodes them.                                                  *)
Framing ==
    /\ \A i \in 1 .. Len(inbound) : inbound[i] # <<>>
    /\ reader = "read" => batch = <<>>
    /\ reader \in {"decode", "select"} => batch # <<>>
    /\ reader = "select" => Head(batch).Type \in {"Regular", "Control"}

TypeInv == ConnTypeOK /\ Framing

LEMMA FrameType ==
    ASSUME NEW f \in Frames
    PROVE  /\ f.Type \in {"Regular"} \cup BareTypes
           /\ f.ID \in Nat
           /\ f.Type # "Regular" => f.ID = 0
BY DEF Frames, BareTypes

LEMMA TypeInit == ConnInit => TypeInv
<1> SUFFICES ASSUME ConnInit  PROVE TypeInv
    OBVIOUS
<1>1. inbound = <<>> /\ batch = <<>> /\ regularCh = <<>> /\ controlCh = <<>>
      /\ outbound = <<>>
    BY DEF ConnInit
<1>2. <<>> \in Seq(Seq(Frames)) /\ <<>> \in Seq(Frames) /\ Len(<<>>) = 0
    OBVIOUS
<1>3. <<>> \in Seq([ID : Nat, Payload : Payloads])
    OBVIOUS
<1>4. inbound \in Seq(Seq(Frames))
    BY <1>1, <1>2, Zenon
<1>5. batch \in Seq(Frames) /\ regularCh \in Seq(Frames) /\ controlCh \in Seq(Frames)
    BY <1>1, <1>2, Zenon
<1>6. outbound \in Seq([ID : Nat, Payload : Payloads])
    BY <1>1, <1>3, Zenon
<1>7. Len(inbound) = 0 /\ Len(regularCh) = 0 /\ Len(controlCh) = 0
    BY <1>1, <1>2, Zenon
<1>8. Len(regularCh) <= RegularCap /\ Len(controlCh) <= ControlCap
    BY <1>7, ConnAssumption
<1>9. /\ {closed, closeCh, regularClosed, streamEnded} \subseteq BOOLEAN
      /\ ws = "open" /\ reader = "read" /\ keepAlive = "idle"
      /\ {incomingAck, consumed, outgoingID, serverID, serverBare} \subseteq Nat
      /\ frame \in [Senders -> Nat]
    <2>1. closed = FALSE /\ closeCh = FALSE /\ regularClosed = FALSE
          /\ streamEnded = FALSE
        BY DEF ConnInit
    <2>2. {closed, closeCh, regularClosed, streamEnded} \subseteq BOOLEAN
        BY <2>1
    <2>3. {incomingAck, consumed, outgoingID, serverID, serverBare} \subseteq Nat
        BY DEF ConnInit
    <2>4. ws = "open" /\ reader = "read" /\ keepAlive = "idle"
        BY DEF ConnInit
    <2>5. frame \in [Senders -> Nat]
        BY DEF ConnInit
    <2> QED  BY <2>2, <2>3, <2>4, <2>5
<1>10. ConnTypeOK
    BY <1>4, <1>5, <1>6, <1>8, <1>9 DEF ConnTypeOK
<1>11. Framing
    BY <1>1, <1>7, <1>9 DEF Framing
<1> QED  BY <1>10, <1>11 DEF TypeInv

(* The server's steps.                                                     *)
LEMMA InboundType ==
    ASSUME TypeInv, NEW m \in Seq(Frames), m # <<>>, inbound' = Append(inbound, m)
    PROVE  /\ inbound' \in Seq(Seq(Frames))
           /\ \A i \in 1 .. Len(inbound') : inbound'[i] # <<>>
<1>1. inbound \in Seq(Seq(Frames)) /\ Len(inbound) \in Nat
    BY DEF TypeInv, ConnTypeOK
<1>2. /\ inbound' \in Seq(Seq(Frames))
      /\ Len(inbound') = Len(inbound) + 1
      /\ \A i \in 1 .. Len(inbound) : inbound'[i] = inbound[i]
      /\ inbound'[Len(inbound) + 1] = m
    BY <1>1, AppendProperties
<1>3. \A i \in 1 .. Len(inbound') : i \in 1 .. Len(inbound) \/ i = Len(inbound) + 1
    BY <1>1, <1>2
<1> QED  BY <1>2, <1>3 DEF TypeInv, Framing

LEMMA TypeServer ==
    ASSUME TypeInv, ServerWrites
    PROVE  TypeInv'
<1>1. ASSUME NEW n \in 1 .. MaxMessage, NEW ps \in [1 .. n -> Payloads],
             ServerRegular(ps)
      PROVE  TypeInv'
    <2> DEFINE m == [i \in 1 .. Len(ps) |-> RegularFrame(serverID + i, ps[i])]
    <2>1. n \in Nat /\ n # 0 /\ serverID \in Nat
        BY ConnAssumption DEF TypeInv, ConnTypeOK
    <2>2. m \in Seq(Frames) /\ Len(m) = n /\ Len(ps) = n
        <3>1. Len(ps) = n
            BY <2>1
        <3>2. \A i \in 1 .. n : RegularFrame(serverID + i, ps[i]) \in Frames
            BY <2>1 DEF RegularFrame, Frames
        <3> QED  BY <2>1, <3>1, <3>2
    <2>3. m # <<>>
        BY <2>1, <2>2, EmptySeq
    <2>4. inbound' = Append(inbound, m)
        BY <1>1 DEF ServerRegular
    <2> HIDE DEF m
    <2>5. /\ inbound' \in Seq(Seq(Frames))
          /\ \A i \in 1 .. Len(inbound') : inbound'[i] # <<>>
        BY <2>2, <2>3, <2>4, InboundType
    <2>6. serverID' \in Nat
        BY <1>1, <2>1, <2>2 DEF ServerRegular
    <2>7. UNCHANGED <<lifeVars, readVars, chanVars, recvVars, sendVars, keepAlive,
                      serverBare>>
        BY <1>1 DEF ServerRegular
    <2> QED
        BY <2>5, <2>6, <2>7
        DEF TypeInv, ConnTypeOK, Framing, lifeVars, readVars, chanVars,
            recvVars, sendVars
<1>2. ASSUME NEW type \in BareTypes, ServerBare(type)
      PROVE  TypeInv'
    <2>1. <<BareFrame(type)>> \in Seq(Frames) /\ <<BareFrame(type)>> # <<>>
        BY DEF BareFrame, Frames
    <2>2. /\ inbound' \in Seq(Seq(Frames))
          /\ \A i \in 1 .. Len(inbound') : inbound'[i] # <<>>
        BY <1>2, <2>1, InboundType DEF ServerBare
    <2>3. serverBare' \in Nat
        BY <1>2 DEF ServerBare, TypeInv, ConnTypeOK
    <2>4. UNCHANGED <<lifeVars, readVars, chanVars, recvVars, sendVars, keepAlive,
                      serverID>>
        BY <1>2 DEF ServerBare
    <2> QED
        BY <2>2, <2>3, <2>4
        DEF TypeInv, ConnTypeOK, Framing, lifeVars, readVars, chanVars,
            recvVars, sendVars
<1> QED  BY <1>1, <1>2 DEF ServerWrites

(* readLoop.                                                               *)
LEMMA TypeRead ==
    ASSUME TypeInv, ReadMessage
    PROVE  TypeInv'
<1> DEFINE n == Len(inbound)
<1>1. inbound \in Seq(Seq(Frames)) /\ inbound # <<>> /\ n \in Nat /\ n # 0
    BY DEF TypeInv, ConnTypeOK, ReadMessage
<1>2. /\ Head(inbound) \in Seq(Frames)
      /\ Tail(inbound) \in Seq(Seq(Frames))
      /\ Len(Tail(inbound)) = n - 1
      /\ \A i \in 1 .. n - 1 : Tail(inbound)[i] = inbound[i + 1]
    BY <1>1, HeadTailProperties
<1>3. Head(inbound) # <<>>
    BY <1>1 DEF TypeInv, Framing
<1>4. \A i \in 1 .. Len(Tail(inbound)) : Tail(inbound)[i] # <<>>
    BY <1>1, <1>2 DEF TypeInv, Framing
<1> QED
    BY <1>2, <1>3, <1>4
    DEF ReadMessage, TypeInv, ConnTypeOK, Framing, lifeVars, chanVars, recvVars,
        sendVars

LEMMA BatchType ==
    ASSUME TypeInv, batch # <<>>, Advance
    PROVE  /\ Head(batch) \in Frames
           /\ batch' \in Seq(Frames)
           /\ reader' \in {"read", "decode"}
           /\ reader' = "read" => batch' = <<>>
           /\ reader' = "decode" => batch' # <<>>
<1>1. batch \in Seq(Frames) /\ Len(batch) \in Nat /\ Len(batch) # 0
    BY DEF TypeInv, ConnTypeOK
<1>2. Head(batch) \in Frames /\ Tail(batch) \in Seq(Frames)
      /\ Len(Tail(batch)) = Len(batch) - 1
    BY <1>1, HeadTailProperties
<1>3. Len(Tail(batch)) = 0 <=> Tail(batch) = <<>>
    BY <1>2, EmptySeq
<1> QED  BY <1>1, <1>2, <1>3 DEF Advance

LEMMA TypeDecode ==
    ASSUME TypeInv, DecodeFrame
    PROVE  TypeInv'
<1>1. batch \in Seq(Frames) /\ batch # <<>>
    BY DEF TypeInv, ConnTypeOK, Framing, DecodeFrame
<1>2. Head(batch) \in Frames
    BY <1>1, HeadTailProperties
<1>3. incomingAck' \in Nat
    BY <1>2, FrameType DEF DecodeFrame, StoreAck, TypeInv, ConnTypeOK
<1>4. /\ batch' \in Seq(Frames)
      /\ reader' \in {"read", "decode", "select"}
      /\ reader' = "read" => batch' = <<>>
      /\ reader' \in {"decode", "select"} => batch' # <<>>
      /\ reader' = "select" => Head(batch').Type \in {"Regular", "Control"}
    <2>1. CASE Head(batch).Type \in {"Regular", "Control"} /\ reader' = "select"
               /\ UNCHANGED batch
        BY <2>1, <1>1
    <2>2. CASE Advance
        BY <2>2, <1>1, BatchType
    <2>3. CASE reader' = "read" /\ batch' = <<>>
        BY <2>3
    <2> QED  BY <2>1, <2>2, <2>3 DEF DecodeFrame
<1> QED
    BY <1>3, <1>4
    DEF DecodeFrame, TypeInv, ConnTypeOK, Framing, lifeVars, chanVars, recvVars,
        sendVars, serverVars

LEMMA TypeDeliver ==
    ASSUME TypeInv, DeliverFrame
    PROVE  TypeInv'
<1>1. batch # <<>>
    BY DEF TypeInv, Framing, DeliverFrame
<1>2. /\ Head(batch) \in Frames
      /\ batch' \in Seq(Frames)
      /\ reader' \in {"read", "decode"}
      /\ reader' = "read" => batch' = <<>>
      /\ reader' = "decode" => batch' # <<>>
    BY <1>1, BatchType DEF DeliverFrame
<1>3. /\ regularCh' \in Seq(Frames) /\ Len(regularCh') <= RegularCap
      /\ controlCh' \in Seq(Frames) /\ Len(controlCh') <= ControlCap
    <2>1. regularCh \in Seq(Frames) /\ controlCh \in Seq(Frames)
        BY DEF TypeInv, ConnTypeOK
    <2>2. CASE QueueRegular
        BY <1>2, <2>1, <2>2, AppendProperties, ConnAssumption, LenProperties
        DEF QueueRegular, TypeInv, ConnTypeOK
    <2>3. CASE QueueControl
        BY <1>2, <2>1, <2>3, AppendProperties, ConnAssumption, LenProperties
        DEF QueueControl, TypeInv, ConnTypeOK
    <2> QED  BY <2>2, <2>3 DEF DeliverFrame
<1> QED
    BY <1>2, <1>3
    DEF DeliverFrame, TypeInv, ConnTypeOK, Framing, lifeVars, recvVars,
        sendVars, serverVars

(* Senders and the consumer.                                               *)
LEMMA TypeSend ==
    ASSUME TypeInv, NEW s \in Senders, Send(s)
    PROVE  TypeInv'
<1>1. frame \in [Senders -> Nat] /\ outgoingID \in Nat
      /\ outbound \in Seq([ID : Nat, Payload : Payloads])
    BY DEF TypeInv, ConnTypeOK
<1>2. frame' \in [Senders -> Nat] /\ outgoingID' \in Nat
      /\ outbound' \in Seq([ID : Nat, Payload : Payloads])
    <2>1. CASE BuildFrame(s)
        BY <1>1, <2>1 DEF BuildFrame, AddID
    <2>2. CASE WriteFails(s)
        BY <1>1, <2>2 DEF WriteFails
    <2>3. ASSUME NEW p \in Payloads, WriteFrame(s, p)
          PROVE  /\ frame' \in [Senders -> Nat] /\ outgoingID' \in Nat
                 /\ outbound' \in Seq([ID : Nat, Payload : Payloads])
        <3>1. [ID |-> frame[s], Payload |-> p] \in [ID : Nat, Payload : Payloads]
            BY <1>1
        <3> QED  BY <1>1, <2>3, <3>1, AppendProperties DEF WriteFrame
    <2> QED  BY <2>1, <2>2, <2>3 DEF Send
<1>3. UNCHANGED <<lifeVars, readVars, chanVars, recvVars, keepAlive, serverVars>>
    BY DEF Send, BuildFrame, WriteFails, WriteFrame
<1> QED
    BY <1>2, <1>3
    DEF TypeInv, ConnTypeOK, Framing, lifeVars, readVars, chanVars, recvVars,
        serverVars

LEMMA TypeRecv ==
    ASSUME TypeInv, RecvRegular
    PROVE  TypeInv'
<1>1. regularCh \in Seq(Frames) /\ regularCh # <<>> /\ Len(regularCh) \in Nat
      /\ Len(regularCh) <= RegularCap
    BY DEF TypeInv, ConnTypeOK, RecvRegular
<1>2. /\ Head(regularCh) \in Frames
      /\ Tail(regularCh) \in Seq(Frames)
      /\ Len(Tail(regularCh)) = Len(regularCh) - 1
    BY <1>1, HeadTailProperties
<1>3. consumed' \in Nat
    BY <1>2, FrameType DEF RecvRegular
<1>4. Len(regularCh') <= RegularCap
    BY <1>1, <1>2, ConnAssumption DEF RecvRegular
<1> QED
    BY <1>2, <1>3, <1>4
    DEF RecvRegular, TypeInv, ConnTypeOK, Framing, lifeVars, readVars, sendVars,
        serverVars

LEMMA TypeStep == TypeInv /\ [ConnNext]_connVars => TypeInv'
<1> SUFFICES ASSUME TypeInv, [ConnNext]_connVars  PROVE TypeInv'
    OBVIOUS
<1>1. CASE ReadLoop
    <2>1. CASE ReadError \/ AbandonDelivery \/ ReaderSignals \/ ReaderClosesRegular
        BY <2>1
        DEF ReadError, AbandonDelivery, ReaderSignals, ReaderClosesRegular,
            TypeInv, ConnTypeOK, Framing, lifeVars, chanVars, recvVars,
            sendVars, serverVars
    <2> QED  BY <1>1, <2>1, TypeRead, TypeDecode, TypeDeliver DEF ReadLoop
<1>2. CASE TakeControl
    <2>1. controlCh' \in Seq(Frames) /\ Len(controlCh') <= ControlCap
        BY <1>2, ConnAssumption DEF TypeInv, ConnTypeOK, TakeControl
    <2> QED
        BY <1>2, <2>1
        DEF TakeControl, TypeInv, ConnTypeOK, Framing, lifeVars, readVars, recvVars,
            sendVars, serverVars
<1>3. CASE NetworkFailure \/ Close \/ KeepAliveLoop \/ RecvEnd
           \/ UNCHANGED connVars
    BY <1>3
    DEF NetworkFailure, Close, KeepAliveLoop, KeepAliveTick, KeepAliveSend,
        KeepAliveStop, RecvEnd, connVars, TypeInv, ConnTypeOK, Framing,
        lifeVars, readVars, chanVars, recvVars, sendVars, serverVars
<1> QED
    BY <1>1, <1>2, <1>3, TypeServer, TypeSend, TypeRecv DEF ConnNext

(* The parts of the connection keep their types; in particular the queues  *)
(* never hold more than their capacities.                                  *)
THEOREM ConnTypeInvariant == ConnSafety => []ConnTypeOK
<1>1. TypeInv => ConnTypeOK
    BY DEF TypeInv
<1> QED  BY <1>1, TypeInit, TypeStep, PTL DEF ConnSafety

-----------------------------------------------------------------------------
(* Closing                                                                 *)

(* readLoop is on its way out only if the connection is closed; the        *)
(* consumer sees the end only after readLoop has gone.                     *)
Closing ==
    /\ SignalImpliesClosed
    /\ reader \in {"signal", "close", "done"} => closed
    /\ regularClosed => reader = "done"
    /\ streamEnded => regularClosed /\ regularCh = <<>>

LEMMA ClosingInvariant == ConnSafety => []Closing
<1>1. ConnInit => Closing
    BY DEF ConnInit, Closing, SignalImpliesClosed
<1>2. Closing /\ [ConnNext]_connVars => Closing'
    <2> SUFFICES ASSUME Closing, [ConnNext]_connVars  PROVE Closing'
        OBVIOUS
    <2> USE DEF Closing, SignalImpliesClosed, lifeVars, readVars, chanVars,
                recvVars, sendVars, serverVars
    <2>1. CASE UNCHANGED <<closed, closeCh, readVars, chanVars, recvVars>>
        BY <2>1
    <2>2. CASE ServerWrites \/ NetworkFailure \/ KeepAliveLoop
               \/ (\E s \in Senders : Send(s)) \/ UNCHANGED connVars
        <3>1. UNCHANGED <<closed, closeCh, readVars, chanVars, recvVars>>
            BY <2>2
            DEF ServerWrites, ServerRegular, ServerBare, NetworkFailure,
                KeepAliveLoop, KeepAliveTick, KeepAliveSend, KeepAliveStop,
                Send, BuildFrame, WriteFails, WriteFrame, connVars
        <3> QED  BY <2>1, <3>1
    <2>3. CASE ReadLoop
        BY <2>3
        DEF ReadLoop, ReadMessage, ReadError, DecodeFrame, DeliverFrame, Advance,
            QueueRegular, QueueControl, AbandonDelivery, ReaderSignals,
            ReaderClosesRegular
    <2>4. CASE Close
        BY <2>4 DEF Close
    <2>5. CASE RecvRegular
        BY <2>5 DEF RecvRegular
    <2>6. CASE RecvEnd
        BY <2>6 DEF RecvEnd
    <2>7. CASE TakeControl
        BY <2>7 DEF TakeControl
    <2> QED  BY <2>2, <2>3, <2>4, <2>5, <2>6, <2>7 DEF ConnNext
<1> QED  BY <1>1, <1>2, PTL DEF ConnSafety

(* Nobody is woken by closeCh before c.closed is set.                      *)
THEOREM SignalImpliesClosedHolds == ConnSafety => []SignalImpliesClosed
<1>1. Closing => SignalImpliesClosed
    BY DEF Closing
<1> QED  BY <1>1, ClosingInvariant, PTL

-----------------------------------------------------------------------------
(* IDs on the wire                                                         *)

(* Every ID is drawn once: it is held by one sender or was written once.   *)
IDsDrawn ==
    /\ \A s \in Senders : frame[s] <= outgoingID
    /\ \A s, t \in Senders : (frame[s] = frame[t] /\ frame[s] # 0) => s = t
    /\ \A i \in 1 .. Len(outbound) :
          /\ outbound[i].ID # 0 /\ outbound[i].ID <= outgoingID
          /\ \A s \in Senders : outbound[i].ID # frame[s]
    /\ WireIDsUnique

LEMMA WriteStep ==
    ASSUME TypeInv, IDsDrawn, NEW s \in Senders, NEW p \in Payloads, WriteFrame(s, p)
    PROVE  IDsDrawn'
<1> DEFINE n == Len(outbound)
           e == [ID |-> frame[s], Payload |-> p]
<1>1. /\ frame \in [Senders -> Nat] /\ outgoingID \in Nat /\ n \in Nat
      /\ outbound \in Seq([ID : Nat, Payload : Payloads])
      /\ frame[s] # 0 /\ frame' = [frame EXCEPT ![s] = 0]
      /\ outgoingID' = outgoingID
    BY DEF TypeInv, ConnTypeOK, WriteFrame, sendVars
<1>2. CASE outbound' = outbound
    BY <1>1, <1>2 DEF IDsDrawn, WireIDsUnique, TypeInv, ConnTypeOK
<1>3. CASE outbound' = Append(outbound, e)
    <2>1. /\ Len(outbound') = n + 1
          /\ \A i \in 1 .. n : outbound'[i] = outbound[i]
          /\ outbound'[n + 1] = e
        BY <1>1, <1>3, AppendProperties
    <2>2. DOMAIN outbound = 1 .. n /\ DOMAIN outbound' = 1 .. n + 1
        BY <1>1, <1>3, <2>1
    <2>3. \A i \in 1 .. n + 1 : i \in 1 .. n \/ i = n + 1
        BY <1>1
    <2>4. \A i \in 1 .. n : /\ outbound[i].ID # 0 /\ outbound[i].ID <= outgoingID
                             /\ outbound[i].ID # frame[s]
        BY DEF IDsDrawn
    <2>5. WireIDsUnique'
        BY <2>1, <2>2, <2>3, <2>4 DEF IDsDrawn, WireIDsUnique
    <2>6. \A i \in 1 .. Len(outbound') :
             /\ outbound'[i].ID # 0 /\ outbound'[i].ID <= outgoingID
             /\ \A t \in Senders : outbound'[i].ID # frame'[t]
        BY <1>1, <2>1, <2>3, <2>4 DEF IDsDrawn
    <2>7. /\ \A t \in Senders : frame'[t] <= outgoingID
          /\ \A t, u \in Senders : (frame'[t] = frame'[u] /\ frame'[t] # 0) => t = u
        BY <1>1 DEF IDsDrawn
    <2> QED  BY <1>1, <2>5, <2>6, <2>7 DEF IDsDrawn
<1> QED  BY <1>2, <1>3 DEF WriteFrame

LEMMA IDsDrawnStep == TypeInv /\ IDsDrawn /\ [ConnNext]_connVars => IDsDrawn'
<1> SUFFICES ASSUME TypeInv, IDsDrawn, [ConnNext]_connVars  PROVE IDsDrawn'
    OBVIOUS
<1>1. ASSUME NEW s \in Senders, Send(s)  PROVE IDsDrawn'
    <2>1. CASE BuildFrame(s)
        <3>1. /\ frame \in [Senders -> Nat] /\ outgoingID \in Nat
              /\ \A i \in 1 .. Len(outbound) : outbound[i].ID \in Nat
            <4>1. outbound \in Seq([ID : Nat, Payload : Payloads])
                BY DEF TypeInv, ConnTypeOK
            <4>2. \A i \in 1 .. Len(outbound) :
                     outbound[i] \in [ID : Nat, Payload : Payloads]
                BY <4>1, LenProperties
            <4> QED  BY <4>2 DEF TypeInv, ConnTypeOK
        <3>2. /\ frame' = [frame EXCEPT ![s] = outgoingID + 1]
              /\ outgoingID' = outgoingID + 1
              /\ outbound' = outbound
            BY <2>1 DEF BuildFrame, AddID
        <3>3. /\ \A t \in Senders : frame'[t] <= outgoingID'
              /\ \A t, u \in Senders :
                    (frame'[t] = frame'[u] /\ frame'[t] # 0) => t = u
            BY <3>1, <3>2 DEF IDsDrawn
        <3>4. \A i \in 1 .. Len(outbound) :
                 /\ outbound[i].ID # 0 /\ outbound[i].ID <= outgoingID'
                 /\ \A t \in Senders : outbound[i].ID # frame'[t]
            BY <3>1, <3>2 DEF IDsDrawn
        <3> QED  BY <3>2, <3>3, <3>4 DEF IDsDrawn, WireIDsUnique
    <2>2. CASE WriteFails(s)
        <3>1. frame \in [Senders -> Nat] /\ outgoingID \in Nat
            BY DEF TypeInv, ConnTypeOK
        <3>2. frame' = [frame EXCEPT ![s] = 0] /\ UNCHANGED <<outgoingID, outbound>>
            BY <2>2 DEF WriteFails
        <3>3. WireIDsUnique'
            BY <3>2 DEF IDsDrawn, WireIDsUnique
        <3>4. /\ \A t \in Senders : frame'[t] <= outgoingID'
              /\ \A t, u \in Senders :
                    (frame'[t] = frame'[u] /\ frame'[t] # 0) => t = u
            BY <3>1, <3>2 DEF IDsDrawn
        <3>5. \A i \in 1 .. Len(outbound) :
                 /\ outbound[i].ID # 0 /\ outbound[i].ID <= outgoingID'
                 /\ \A t \in Senders : outbound[i].ID # frame'[t]
            BY <3>1, <3>2 DEF IDsDrawn
        <3> QED  BY <3>2, <3>3, <3>4, <3>5 DEF IDsDrawn
    <2> QED  BY <1>1, <2>1, <2>2, WriteStep DEF Send
<1>2. CASE UNCHANGED sendVars
    BY <1>2 DEF sendVars, IDsDrawn, WireIDsUnique
<1> QED
    BY <1>1, <1>2
    DEF ConnNext, ServerWrites, ServerRegular, ServerBare, NetworkFailure,
        ReadLoop, ReadMessage, ReadError, DecodeFrame, DeliverFrame,
        AbandonDelivery, ReaderSignals, ReaderClosesRegular, KeepAliveLoop,
        KeepAliveTick, KeepAliveSend, KeepAliveStop, Close, RecvRegular, RecvEnd,
        TakeControl, connVars

(* No two Regular frames on the wire have the same ID, for any number of   *)
(* goroutines sending at the same time.                                    *)
THEOREM WireIDsUniqueHolds == ConnSafety => []WireIDsUnique
<1>1. ConnInit => IDsDrawn
    BY DEF ConnInit, IDsDrawn, WireIDsUnique
<1>2. IDsDrawn => WireIDsUnique
    BY DEF IDsDrawn
<1> QED  BY <1>1, <1>2, TypeInit, TypeStep, IDsDrawnStep, PTL DEF ConnSafety

-----------------------------------------------------------------------------
(* Delivery.  The Regular frames are numbered without a gap along the way  *)
(* from the server to the consumer.                                        *)

(* The frames of f are Regular and numbered from last + 1 on.              *)
Run(f, last) == \A i \in 1 .. Len(f) : f[i].Type = "Regular" /\ f[i].ID = last + i

Bare(f) == Len(f) = 1 /\ f[1].Type # "Regular"

(* The message f takes the numbering from last to next.                    *)
Adds(f, last, next) ==
    \/ Run(f, last) /\ next = last + Len(f)
    \/ Bare(f) /\ next = last

Regulars(f) == IF f # <<>> /\ f[1].Type = "Regular" THEN Len(f) ELSE 0

Queued == consumed + Len(regularCh)

(* before[m] is the ID of the last Regular frame before message m.         *)
Numbered(before) ==
    /\ before \in [1 .. Len(inbound) + 1 -> Nat]
    /\ before[1] = Queued + Regulars(batch)
    /\ before[Len(inbound) + 1] = serverID
    /\ \A m \in 1 .. Len(inbound) + 1 : before[m] <= serverID
    /\ \A m \in 1 .. Len(inbound) : Adds(inbound[m], before[m], before[m + 1])
    /\ \A j, k \in 1 .. Len(inbound) + 1 : j <= k => before[j] <= before[k]
    /\ \A id \in Nat : before[1] < id /\ id <= serverID =>
          \E m \in 1 .. Len(inbound) : before[m] < id /\ id <= before[m + 1]

Delivery ==
    /\ Run(regularCh, consumed)
    /\ batch = <<>> \/ Run(batch, Queued) \/ Bare(batch)
    /\ \E before : Numbered(before)
    /\ AckMatchesDelivery

LEMMA DeliveryInit == ConnInit => Delivery
<1> SUFFICES ASSUME ConnInit  PROVE Delivery
    OBVIOUS
<1>1. /\ inbound = <<>> /\ batch = <<>> /\ regularCh = <<>>
      /\ consumed = 0 /\ serverID = 0 /\ reader = "read" /\ incomingAck = 0
    BY DEF ConnInit
<1>2. Len(inbound) = 0 /\ Len(regularCh) = 0
    BY <1>1
<1>3. Numbered([m \in 1 .. Len(inbound) + 1 |-> 0])
    <2>1. \A id \in Nat : ~(0 < id /\ id <= serverID)
        BY <1>1
    <2> QED  BY <1>1, <1>2, <2>1 DEF Numbered, Queued, Regulars
<1>4. Run(regularCh, consumed)
    BY <1>2 DEF Run
<1>5. AckMatchesDelivery
    BY <1>1, <1>2 DEF AckMatchesDelivery
<1> QED  BY <1>1, <1>3, <1>4, <1>5 DEF Delivery

(* Functions that are one longer or one shorter.                           *)
LEMMA Longer ==
    ASSUME NEW n \in Nat, NEW f \in [1 .. n -> Nat], NEW v \in Nat
    PROVE  \E g \in [1 .. n + 1 -> Nat] :
              g[n + 1] = v /\ \A m \in 1 .. n : g[m] = f[m]
<1> DEFINE g == [m \in 1 .. n + 1 |-> IF m \in 1 .. n THEN f[m] ELSE v]
<1>1. g \in [1 .. n + 1 -> Nat]
    OBVIOUS
<1>2. n + 1 \in 1 .. n + 1 /\ n + 1 \notin 1 .. n
      /\ \A m \in 1 .. n : m \in 1 .. n + 1
    OBVIOUS
<1>3. g[n + 1] = v /\ \A m \in 1 .. n : g[m] = f[m]
    BY <1>2
<1> QED  BY <1>1, <1>3

LEMMA Shorter ==
    ASSUME NEW n \in Nat, NEW f \in [1 .. n + 1 -> Nat]
    PROVE  \E g \in [1 .. n -> Nat] : \A m \in 1 .. n : g[m] = f[m + 1]
<1> DEFINE g == [m \in 1 .. n |-> f[m + 1]]
<1>1. g \in [1 .. n -> Nat] /\ \A m \in 1 .. n : g[m] = f[m + 1]
    OBVIOUS
<1> QED  BY <1>1

(* The server appends a message.                                           *)
LEMMA NumberedAppend ==
    ASSUME TypeInv, NEW before, Numbered(before), NEW msg \in Seq(Frames),
           inbound' = Append(inbound, msg), serverID' \in Nat,
           Adds(msg, serverID, serverID'), serverID <= serverID',
           UNCHANGED <<regularCh, consumed, batch>>
    PROVE  \E after : Numbered(after)'
<1>0. PICK n \in Nat : n = Len(inbound)
    BY DEF TypeInv, ConnTypeOK
<1>1. /\ Len(inbound') = n + 1
      /\ \A i \in 1 .. n : inbound'[i] = inbound[i]
      /\ inbound'[n + 1] = msg
    <2>1. inbound \in Seq(Seq(Frames))
        BY DEF TypeInv, ConnTypeOK
    <2> QED  BY <1>0, <2>1, AppendProperties
<1>2. serverID \in Nat
    BY DEF TypeInv, ConnTypeOK
<1>3. /\ before \in [1 .. n + 1 -> Nat] /\ before[n + 1] = serverID
      /\ before[1] = Queued + Regulars(batch)
      /\ \A m \in 1 .. n + 1 : before[m] <= serverID
      /\ \A m \in 1 .. n : Adds(inbound[m], before[m], before[m + 1])
      /\ \A j, k \in 1 .. n + 1 : j <= k => before[j] <= before[k]
      /\ \A id \in Nat : before[1] < id /\ id <= serverID =>
            \E m \in 1 .. n : before[m] < id /\ id <= before[m + 1]
    BY <1>0 DEF Numbered
<1>4. PICK after \in [1 .. n + 2 -> Nat] :
         after[n + 2] = serverID' /\ \A m \in 1 .. n + 1 : after[m] = before[m]
    <2>1. PICK k \in Nat : k = n + 1 /\ k + 1 = n + 2
        BY <1>0
    <2>2. before \in [1 .. k -> Nat]
        BY <1>3, <2>1
    <2>3. \E g \in [1 .. k + 1 -> Nat] :
             g[k + 1] = serverID' /\ \A m \in 1 .. k : g[m] = before[m]
        BY <2>1, <2>2, Longer
    <2> QED  BY <2>1, <2>3
<1>5. ASSUME NEW m \in 1 .. n + 2
      PROVE  after[m] <= serverID'
    <2>1. CASE m = n + 2
        BY <1>4, <2>1
    <2>2. CASE m \in 1 .. n + 1
        BY <1>2, <1>3, <1>4, <2>2
    <2> QED  BY <1>0, <2>1, <2>2
<1>6. ASSUME NEW m \in 1 .. n + 1
      PROVE  Adds(inbound'[m], after[m], after[m + 1])
    <2>1. CASE m \in 1 .. n
        <3>1. inbound'[m] = inbound[m] /\ after[m] = before[m]
              /\ after[m + 1] = before[m + 1]
            BY <1>0, <1>1, <1>4, <2>1
        <3>2. Adds(inbound[m], before[m], before[m + 1])
            BY <1>3, <2>1
        <3> QED  BY <3>1, <3>2, Zenon
    <2>2. CASE m = n + 1
        <3>1. inbound'[m] = msg /\ after[m] = serverID /\ after[m + 1] = serverID'
            BY <1>0, <1>1, <1>3, <1>4, <2>2
        <3> QED  BY <3>1, Zenon
    <2> QED  BY <1>0, <2>1, <2>2
<1>7. after[1] = Queued' + Regulars(batch)'
    BY <1>0, <1>3, <1>4 DEF Queued, Regulars
<1>8. ASSUME NEW j \in 1 .. n + 2, NEW k \in 1 .. n + 2, j <= k
      PROVE  after[j] <= after[k]
    <2>1. CASE k = n + 2
        BY <1>4, <1>5, <2>1
    <2>2. CASE k \in 1 .. n + 1
        <3>1. j \in 1 .. n + 1
            BY <1>0, <1>8, <2>2
        <3> QED  BY <1>3, <1>4, <1>8, <2>2, <3>1
    <2> QED  BY <1>0, <2>1, <2>2
<1>9. ASSUME NEW id \in Nat, after[1] < id, id <= serverID'
      PROVE  \E m \in 1 .. n + 1 : after[m] < id /\ id <= after[m + 1]
    <2>1. CASE id <= serverID
        <3>1. after[1] = before[1]
            BY <1>0, <1>4
        <3>2. PICK m \in 1 .. n : before[m] < id /\ id <= before[m + 1]
            BY <1>3, <1>9, <2>1, <3>1
        <3>3. m \in 1 .. n + 1 /\ after[m] = before[m] /\ after[m + 1] = before[m + 1]
            BY <1>0, <1>4
        <3> QED  BY <3>2, <3>3
    <2>2. CASE serverID < id
        <3>1. n + 1 \in 1 .. n + 1 /\ after[n + 1] = serverID /\ after[(n + 1) + 1] = serverID'
            BY <1>0, <1>3, <1>4
        <3> QED  BY <1>9, <2>2, <3>1
    <2> QED  BY <1>2, <2>1, <2>2
<1>10. Numbered(after)'
    <2>1. Len(inbound') + 1 = n + 2
        BY <1>0, <1>1
    <2> QED  BY <1>1, <1>4, <1>5, <1>6, <1>7, <1>8, <1>9, <2>1 DEF Numbered
<1> QED  BY <1>10

(* readLoop reads a message when its batch is empty.                       *)
LEMMA NumberedRead ==
    ASSUME TypeInv, NEW before, Numbered(before), ReadMessage
    PROVE  /\ \E after : Numbered(after)'
           /\ Run(batch', Queued) \/ Bare(batch')
<1>0. PICK n \in Nat : Len(inbound) = n + 1
    <2>1. Len(inbound) \in Nat /\ Len(inbound) # 0
        BY DEF TypeInv, ConnTypeOK, ReadMessage
    <2>2. Len(inbound) - 1 \in Nat /\ Len(inbound) = (Len(inbound) - 1) + 1
        BY <2>1
    <2> QED  BY <2>2
<1>1. /\ batch' = inbound[1] /\ batch' \in Seq(Frames) /\ batch' # <<>>
      /\ Len(inbound') = n
      /\ \A i \in 1 .. n : inbound'[i] = inbound[i + 1]
    <2>1. inbound \in Seq(Seq(Frames)) /\ inbound # <<>>
        BY DEF TypeInv, ConnTypeOK, ReadMessage
    <2>2. /\ Len(Tail(inbound)) = Len(inbound) - 1
          /\ \A i \in 1 .. Len(Tail(inbound)) : Tail(inbound)[i] = inbound[i + 1]
        BY <2>1, HeadTailProperties
    <2>3. Head(inbound) = inbound[1] /\ Head(inbound) \in Seq(Frames)
        BY <2>1
    <2>4. inbound[1] # <<>>
        BY <1>0 DEF TypeInv, Framing
    <2> QED  BY <1>0, <2>2, <2>3, <2>4 DEF ReadMessage
<1>2. /\ before \in [1 .. n + 2 -> Nat] /\ before[n + 2] = serverID
      /\ before[1] = Queued
      /\ \A m \in 1 .. n + 2 : before[m] <= serverID
      /\ \A m \in 1 .. n + 1 : Adds(inbound[m], before[m], before[m + 1])
      /\ \A j, k \in 1 .. n + 2 : j <= k => before[j] <= before[k]
      /\ \A id \in Nat : before[1] < id /\ id <= serverID =>
            \E m \in 1 .. n + 1 : before[m] < id /\ id <= before[m + 1]
    <2>1. batch = <<>>
        BY DEF ReadMessage, TypeInv, Framing
    <2>2. Regulars(batch) = 0 /\ Queued \in Nat
        BY <2>1 DEF Regulars, Queued, TypeInv, ConnTypeOK
    <2>3. (n + 1) + 1 = n + 2
        BY <1>0
    <2> QED  BY <1>0, <2>2, <2>3 DEF Numbered
<1>3. Adds(batch', before[1], before[2])
    <2>1. Adds(inbound[1], before[1], before[1 + 1])
        BY <1>0, <1>2
    <2> QED  BY <1>1, <2>1
<1>4. before[2] = Queued' + Regulars(batch')
    <2>1. Queued' = Queued /\ Queued \in Nat
        BY DEF Queued, ReadMessage, chanVars, recvVars, TypeInv, ConnTypeOK
    <2>2. Len(batch') \in Nat /\ Len(batch') # 0
        BY <1>1, EmptySeq, LenProperties
    <2>3. CASE Run(batch', before[1]) /\ before[2] = before[1] + Len(batch')
        <3>1. batch'[1].Type = "Regular"
            BY <2>2, <2>3 DEF Run
        <3>2. Regulars(batch') = Len(batch')
            BY <1>1, <3>1 DEF Regulars
        <3> QED  BY <1>2, <2>1, <2>3, <3>2
    <2>4. CASE Bare(batch') /\ before[2] = before[1]
        <3>1. Regulars(batch') = 0
            BY <2>4 DEF Bare, Regulars
        <3> QED  BY <1>2, <2>1, <2>4, <3>1
    <2> QED  BY <1>3, <2>3, <2>4 DEF Adds
<1>5. PICK after \in [1 .. n + 1 -> Nat] : \A m \in 1 .. n + 1 : after[m] = before[m + 1]
    <2>1. PICK k \in Nat : k = n + 1 /\ k + 1 = n + 2
        BY <1>0
    <2>2. before \in [1 .. k + 1 -> Nat]
        BY <1>2, <2>1
    <2>3. \E g \in [1 .. k -> Nat] : \A m \in 1 .. k : g[m] = before[m + 1]
        BY <2>1, <2>2, Shorter
    <2> QED  BY <2>1, <2>3
<1>6. ASSUME NEW m \in 1 .. n  PROVE Adds(inbound'[m], after[m], after[m + 1])
    <2>1. /\ inbound'[m] = inbound[m + 1] /\ after[m] = before[m + 1]
          /\ after[m + 1] = before[(m + 1) + 1]
        BY <1>0, <1>1, <1>5
    <2>2. m + 1 \in 1 .. n + 1
        BY <1>0
    <2>3. Adds(inbound[m + 1], before[m + 1], before[(m + 1) + 1])
        BY <1>2, <2>2
    <2> QED  BY <2>1, <2>3, Zenon
<1>7. ASSUME NEW j \in 1 .. n + 1, NEW k \in 1 .. n + 1, j <= k
      PROVE  after[j] <= after[k]
    <2>1. j + 1 \in 1 .. n + 2 /\ k + 1 \in 1 .. n + 2 /\ j + 1 <= k + 1
        BY <1>0, <1>7
    <2>2. before[j + 1] <= before[k + 1]
        BY <1>2, <2>1
    <2> QED  BY <1>5, <2>2
<1>8. ASSUME NEW id \in Nat, after[1] < id, id <= serverID
      PROVE  \E m \in 1 .. n : after[m] < id /\ id <= after[m + 1]
    <2>1. after[1] = before[2] /\ before[1] \in Nat /\ before[2] \in Nat /\ before[1] <= before[2]
        <3>1. 1 \in 1 .. n + 1 /\ 1 \in 1 .. n + 2 /\ 2 \in 1 .. n + 2 /\ 1 + 1 = 2
            BY <1>0
        <3> QED  BY <1>2, <1>5, <3>1
    <2>2. before[1] < id
        BY <1>8, <2>1
    <2>3. PICK m \in 1 .. n + 1 : before[m] < id /\ id <= before[m + 1]
        BY <1>2, <1>8, <2>2
    <2>4. m # 1
        BY <1>8, <2>1, <2>3
    <2>5. PICK k \in 1 .. n : k + 1 = m
        BY <1>0, <2>4
    <2>6. k \in 1 .. n + 1 /\ k + 1 \in 1 .. n + 1
        BY <1>0, <2>5
    <2>7. after[k] = before[m] /\ after[k + 1] = before[m + 1]
        BY <1>5, <2>5, <2>6
    <2> QED  BY <2>3, <2>7
<1>9. Numbered(after)'
    <2>1. serverID' = serverID
        BY DEF ReadMessage
    <2>2. \A m \in 1 .. n + 1 : m + 1 \in 1 .. n + 2
        BY <1>0
    <2>3. /\ after[1] = before[2] /\ after[n + 1] = before[n + 2]
          /\ \A m \in 1 .. n + 1 : after[m] <= serverID
        BY <1>0, <1>2, <1>5, <2>2
    <2>4. Len(inbound') + 1 = n + 1
        BY <1>1
    <2>5. Regulars(batch)' = Regulars(batch')
        BY DEF Regulars
    <2> QED
        BY <1>1, <1>2, <1>4, <1>5, <1>6, <1>7, <1>8, <2>1, <2>3, <2>4, <2>5 DEF Numbered
<1>10. Run(batch', Queued) \/ Bare(batch')
    BY <1>2, <1>3 DEF Adds
<1> QED  BY <1>9, <1>10

(* Steps that leave the way of the frames as it is, or move one along it.  *)
LEMMA NumberedSame ==
    ASSUME NEW before, Numbered(before), UNCHANGED <<inbound, serverID>>,
           NEW q, q = Queued + Regulars(batch), q = Queued' + Regulars(batch)'
    PROVE  Numbered(before)'
BY DEF Numbered

LEMMA HeadOfRun ==
    ASSUME NEW f \in Seq(Frames), f # <<>>, NEW last \in Nat, NEW next \in Nat,
           next = last + 1, Run(f, last)
    PROVE  /\ Head(f).Type = "Regular" /\ Head(f).ID = next
           /\ Regulars(f) = Len(f)
           /\ Run(Tail(f), next)
           /\ Regulars(Tail(f)) = Len(f) - 1
<1>1. /\ Len(f) \in Nat /\ Len(f) # 0 /\ Head(f) = f[1]
      /\ Tail(f) \in Seq(Frames) /\ Len(Tail(f)) = Len(f) - 1
      /\ \A i \in 1 .. Len(Tail(f)) : Tail(f)[i] = f[i + 1]
    BY HeadTailProperties, EmptySeq, LenProperties
<1>2. Head(f).Type = "Regular" /\ Head(f).ID = next
    BY <1>1 DEF Run
<1>3. \A i \in 1 .. Len(Tail(f)) : /\ Tail(f)[i].Type = "Regular"
                                   /\ Tail(f)[i].ID = next + i
    <2> TAKE i \in 1 .. Len(Tail(f))
    <2>1. i + 1 \in 1 .. Len(f) /\ Tail(f)[i] = f[i + 1]
        BY <1>1
    <2>2. f[i + 1].Type = "Regular" /\ f[i + 1].ID = last + (i + 1)
        BY <2>1 DEF Run
    <2> QED  BY <2>1, <2>2
<1>4. Regulars(f) = Len(f)
    BY <1>1, <1>2 DEF Regulars
<1>5. Regulars(Tail(f)) = Len(f) - 1
    <2>1. CASE Tail(f) = <<>>
        BY <1>1, <2>1 DEF Regulars
    <2>2. CASE Tail(f) # <<>>
        <3>1. Len(Tail(f)) \in Nat /\ Len(Tail(f)) # 0
            BY <1>1, <2>2, EmptySeq
        <3>2. 1 \in 1 .. Len(Tail(f))
            BY <1>1, <3>1
        <3>3. Tail(f)[1].Type = "Regular"
            BY <1>3, <3>2, Zenon
        <3> QED  BY <1>1, <2>2, <3>3 DEF Regulars
    <2> QED  BY <2>1, <2>2
<1> QED  BY <1>2, <1>3, <1>4, <1>5 DEF Run

LEMMA HeadOfBare ==
    ASSUME NEW f \in Seq(Frames), Bare(f)
    PROVE  Head(f).Type # "Regular" /\ Regulars(f) = 0 /\ Tail(f) = <<>>
<1>1. f # <<>> /\ Head(f) = f[1] /\ Tail(f) \in Seq(Frames) /\ Len(Tail(f)) = 0
    BY HeadTailProperties DEF Bare
<1>2. Tail(f) = <<>>
    BY <1>1, EmptySeq
<1> QED  BY <1>1, <1>2 DEF Bare, Regulars

(* AckMatchesDelivery, with Queued and the outcome of the ack spelled out. *)
Held == /\ reader \notin {"read", "decode"}
        /\ batch # <<>>
        /\ Head(batch).Type = "Regular"

LEMMA AckCases ==
    AckMatchesDelivery <=> incomingAck = Queued + (IF Held THEN 1 ELSE 0)
BY DEF AckMatchesDelivery, Queued, Held

LEMMA DeliveryServer ==
    ASSUME TypeInv, Delivery, ServerWrites
    PROVE  Delivery'
<1>1. PICK before : Numbered(before)
    BY DEF Delivery
<1>2. UNCHANGED <<readVars, chanVars, recvVars>>
    BY DEF ServerWrites, ServerRegular, ServerBare
<1>3. serverID \in Nat
    BY DEF TypeInv, ConnTypeOK
<1>4. \E after : Numbered(after)'
    <2>1. ASSUME NEW n \in 1 .. MaxMessage, NEW ps \in [1 .. n -> Payloads],
                 ServerRegular(ps)
          PROVE  \E after : Numbered(after)'
        <3>1. n \in Nat /\ Len(ps) = n
            BY ConnAssumption
        <3>2. PICK msg :
                 msg = [i \in 1 .. Len(ps) |-> RegularFrame(serverID + i, ps[i])]
            OBVIOUS
        <3>3. inbound' = Append(inbound, msg) /\ serverID' = serverID + Len(ps)
            BY <2>1, <3>2 DEF ServerRegular
        <3>4. \A i \in 1 .. n : RegularFrame(serverID + i, ps[i]) \in Frames
            BY <1>3, <3>1 DEF RegularFrame, Frames
        <3>5. msg \in Seq(Frames) /\ Len(msg) = n
            BY <3>1, <3>2, <3>4
        <3>6. Run(msg, serverID)
            <4> SUFFICES ASSUME NEW i \in 1 .. n
                         PROVE  msg[i].Type = "Regular" /\ msg[i].ID = serverID + i
                BY <3>5 DEF Run
            <4>1. msg[i] = RegularFrame(serverID + i, ps[i])
                BY <3>1, <3>2
            <4> QED  BY <4>1 DEF RegularFrame
        <3>7. serverID' \in Nat /\ serverID <= serverID'
            BY <1>3, <3>1, <3>3
        <3>8. Adds(msg, serverID, serverID')
            BY <3>1, <3>3, <3>5, <3>6 DEF Adds
        <3> QED
            BY <1>1, <1>2, <3>3, <3>5, <3>7, <3>8, NumberedAppend
            DEF readVars, chanVars, recvVars
    <2>2. ASSUME NEW type \in BareTypes, ServerBare(type)
          PROVE  \E after : Numbered(after)'
        <3>1. PICK msg : msg = <<BareFrame(type)>>
            OBVIOUS
        <3>2. msg \in Seq(Frames) /\ Bare(msg)
            BY <3>1 DEF BareFrame, Frames, Bare, BareTypes
        <3>3. inbound' = Append(inbound, msg) /\ serverID' = serverID
            BY <2>2, <3>1 DEF ServerBare
        <3>4. Adds(msg, serverID, serverID')
            BY <3>2, <3>3 DEF Adds
        <3>5. serverID' \in Nat /\ serverID <= serverID'
            BY <1>3, <3>3
        <3> QED
            BY <1>1, <1>2, <3>2, <3>3, <3>4, <3>5, NumberedAppend
            DEF readVars, chanVars, recvVars
    <2> QED  BY <2>1, <2>2 DEF ServerWrites
<1>5. /\ UNCHANGED <<regularCh, consumed, batch, reader, incomingAck>>
      /\ Queued' = Queued
    BY <1>2 DEF readVars, chanVars, recvVars, Queued
<1>6. AckMatchesDelivery'
    BY <1>5 DEF Delivery, AckMatchesDelivery
<1>7. Run(regularCh, consumed)' /\ (batch = <<>> \/ Run(batch, Queued) \/ Bare(batch))'
    BY <1>5 DEF Delivery, Run, Bare
<1> QED  BY <1>4, <1>6, <1>7 DEF Delivery

LEMMA DeliveryRead ==
    ASSUME TypeInv, Delivery, ReadMessage
    PROVE  Delivery'
<1>1. (\E after : Numbered(after)') /\ (Run(batch', Queued) \/ Bare(batch'))
    BY NumberedRead DEF Delivery
<1>2. UNCHANGED <<regularCh, consumed, incomingAck>> /\ Queued' = Queued
    BY DEF ReadMessage, chanVars, recvVars, Queued
<1>3. reader = "read" /\ reader' = "decode"
    BY DEF ReadMessage
<1>4. AckMatchesDelivery'
    BY <1>2, <1>3 DEF AckMatchesDelivery, Delivery
<1>5. Run(regularCh, consumed)' /\ (Run(batch, Queued) \/ Bare(batch))'
    BY <1>1, <1>2 DEF Delivery, Run, Bare
<1> QED  BY <1>1, <1>4, <1>5 DEF Delivery

(* The frame at the head of the batch is either the next Regular one or a  *)
(* bare one that is alone.                                                 *)
LEMMA BatchCases ==
    ASSUME TypeInv, Delivery, batch # <<>>
    PROVE  \/ /\ Head(batch).Type = "Regular"
              /\ Head(batch).ID = Queued + 1
              /\ Regulars(batch) = Len(batch)
              /\ \A next \in Nat : next = Queued + 1 => Run(Tail(batch), next)
              /\ Regulars(Tail(batch)) = Len(batch) - 1
           \/ /\ Head(batch).Type # "Regular"
              /\ Regulars(batch) = 0
              /\ Tail(batch) = <<>>
<1>1. PICK last \in Nat : last = Queued
    BY DEF Queued, TypeInv, ConnTypeOK
<1>2. PICK next \in Nat : next = last + 1
    BY <1>1
<1>3. batch \in Seq(Frames)
    BY DEF TypeInv, ConnTypeOK
<1>4. CASE Run(batch, Queued)
    <2>1. Run(batch, last)
        BY <1>1, <1>4
    <2>2. /\ Head(batch).Type = "Regular" /\ Head(batch).ID = next
          /\ Regulars(batch) = Len(batch)
          /\ Run(Tail(batch), next)
          /\ Regulars(Tail(batch)) = Len(batch) - 1
        BY <1>2, <1>3, <2>1, HeadOfRun
    <2>3. \A k \in Nat : k = Queued + 1 => k = next
        BY <1>1, <1>2
    <2>4. \A k \in Nat : k = Queued + 1 => Run(Tail(batch), k)
        BY <2>2, <2>3
    <2>5. Head(batch).ID = Queued + 1
        BY <1>1, <1>2, <2>2
    <2> QED  BY <2>2, <2>4, <2>5
<1>5. CASE Bare(batch)
    BY <1>3, <1>5, HeadOfBare
<1> QED  BY <1>4, <1>5 DEF Delivery

LEMMA DeliveryDecode ==
    ASSUME TypeInv, Delivery, DecodeFrame
    PROVE  Delivery'
<1>1. batch # <<>> /\ batch \in Seq(Frames) /\ reader = "decode"
    BY DEF TypeInv, ConnTypeOK, Framing, DecodeFrame
<1>2. UNCHANGED <<inbound, serverID, regularCh, consumed>>
    BY DEF DecodeFrame, chanVars, recvVars, serverVars
<1>3. PICK q \in Nat : q = Queued /\ q = Queued'
    BY <1>2 DEF Queued, TypeInv, ConnTypeOK
<1>4. incomingAck = q
    <2>1. ~Held
        BY <1>1 DEF Held
    <2>2. Queued \in Nat
        BY <1>3
    <2>3. incomingAck = Queued
        BY <2>1, <2>2, AckCases DEF Delivery
    <2> QED  BY <1>3, <2>3
<1>5. PICK before : Numbered(before)
    BY DEF Delivery
<1>6. Run(regularCh, consumed)'
    BY <1>2 DEF Delivery, Run
<1>7. CASE /\ Head(batch).Type \in {"Regular", "Control"}
           /\ reader' = "select" /\ batch' = batch
    <2>1. PICK r : r = Queued + Regulars(batch)
        OBVIOUS
    <2>2. r = Queued' + Regulars(batch)'
        BY <1>3, <1>7, <2>1 DEF Regulars
    <2>3. Numbered(before)'
        BY <1>2, <1>5, <2>1, <2>2, NumberedSame
    <2>4. AckMatchesDelivery'
        <3>1. CASE Head(batch).Type = "Regular"
            <4>1. Head(batch).ID = q + 1
                BY <1>1, <1>3, <3>1, BatchCases
            <4> QED
                BY <1>1, <1>2, <1>3, <1>7, <3>1, <4>1
                DEF DecodeFrame, StoreAck, AckMatchesDelivery, Queued
        <3>2. CASE Head(batch).Type # "Regular"
            BY <1>2, <1>3, <1>4, <1>7, <3>2
            DEF DecodeFrame, StoreAck, AckMatchesDelivery, Queued
        <3> QED  BY <3>1, <3>2
    <2>5. (batch = <<>> \/ Run(batch, Queued) \/ Bare(batch))'
        BY <1>3, <1>7 DEF Delivery, Run, Bare
    <2> QED  BY <1>6, <2>3, <2>4, <2>5 DEF Delivery
<1>8. CASE Head(batch).Type \in {"KeepAlive", "Torn"}
    <2>1. Regulars(batch) = 0 /\ Tail(batch) = <<>> /\ Head(batch).Type # "Regular"
        BY <1>1, <1>8, BatchCases
    <2>2. batch' = <<>>
        BY <1>8, <2>1 DEF DecodeFrame, Advance
    <2>3. Regulars(batch)' = 0
        BY <2>2 DEF Regulars
    <2>4. PICK r : r = Queued + Regulars(batch)
        OBVIOUS
    <2>5. r = Queued' + Regulars(batch)'
        BY <1>3, <2>1, <2>3, <2>4
    <2>6. Numbered(before)'
        BY <1>2, <1>5, <2>4, <2>5, NumberedSame
    <2>7. incomingAck' = q
        BY <1>4, <2>1 DEF DecodeFrame, StoreAck
    <2>8. AckMatchesDelivery'
        BY <1>2, <1>3, <2>2, <2>7 DEF AckMatchesDelivery, Queued
    <2> QED  BY <1>6, <2>2, <2>6, <2>8 DEF Delivery
<1> QED  BY <1>7, <1>8 DEF DecodeFrame

LEMMA DeliveryDeliver ==
    ASSUME TypeInv, Delivery, DeliverFrame
    PROVE  Delivery'
<1>1. /\ batch # <<>> /\ batch \in Seq(Frames) /\ reader = "select"
      /\ batch' = Tail(batch) /\ reader' \in {"read", "decode"}
    BY DEF TypeInv, ConnTypeOK, Framing, DeliverFrame, Advance
<1>2. UNCHANGED <<inbound, serverID, consumed, incomingAck>>
    BY DEF DeliverFrame, recvVars, serverVars
<1>3. regularCh \in Seq(Frames) /\ Len(regularCh) \in Nat /\ consumed \in Nat
      /\ Len(batch) \in Nat /\ Queued \in Nat
    BY DEF TypeInv, ConnTypeOK, Queued
<1>4. PICK before : Numbered(before)
    BY DEF Delivery
<1>5. CASE QueueRegular
    <2>1. /\ Head(batch).Type = "Regular" /\ Head(batch).ID = Queued + 1
          /\ Regulars(batch) = Len(batch)
          /\ \A next \in Nat : next = Queued + 1 => Run(Tail(batch), next)
          /\ Regulars(Tail(batch)) = Len(batch) - 1
        BY <1>1, <1>5, BatchCases DEF QueueRegular
    <2>2. Head(batch) \in Frames
        BY <1>1, HeadTailProperties
    <2>3. /\ Len(regularCh') = Len(regularCh) + 1
          /\ \A i \in 1 .. Len(regularCh) : regularCh'[i] = regularCh[i]
          /\ regularCh'[Len(regularCh) + 1] = Head(batch)
        BY <1>3, <1>5, <2>2, AppendProperties DEF QueueRegular
    <2>4. Queued' = Queued + 1 /\ Queued' \in Nat
        BY <1>2, <1>3, <2>3 DEF Queued
    <2>5. Run(regularCh, consumed)'
        <3> SUFFICES ASSUME NEW i \in 1 .. Len(regularCh')
                     PROVE  /\ regularCh'[i].Type = "Regular"
                            /\ regularCh'[i].ID = consumed + i
            BY <1>2 DEF Run
        <3>1. CASE i \in 1 .. Len(regularCh)
            BY <2>3, <3>1 DEF Delivery, Run
        <3>2. CASE i = Len(regularCh) + 1
            BY <1>3, <2>1, <2>3, <3>2 DEF Queued
        <3> QED  BY <1>3, <2>3, <3>1, <3>2
    <2>6. Run(batch', Queued')
        BY <1>1, <2>1, <2>4
    <2>7. Regulars(batch)' = Len(batch) - 1
        BY <1>1, <2>1 DEF Regulars
    <2>8. PICK r : r = Queued + Regulars(batch)
        OBVIOUS
    <2>9. r = Queued' + Regulars(batch)'
        BY <1>3, <2>1, <2>4, <2>7, <2>8
    <2>10. Numbered(before)'
        BY <1>2, <1>4, <2>8, <2>9, NumberedSame
    <2>11. incomingAck = Queued + 1
        BY <1>1, <2>1, AckCases DEF Held, Delivery
    <2>12. AckMatchesDelivery'
        BY <1>1, <1>2, <2>4, <2>11, <1>3 DEF AckMatchesDelivery, Queued
    <2> QED  BY <2>5, <2>6, <2>10, <2>12 DEF Delivery, Run
<1>6. CASE QueueControl
    <2>1. Regulars(batch) = 0 /\ Tail(batch) = <<>> /\ Head(batch).Type # "Regular"
        BY <1>1, <1>6, BatchCases DEF QueueControl
    <2>2. regularCh' = regularCh /\ Queued' = Queued /\ batch' = <<>>
        BY <1>1, <1>2, <1>6, <2>1 DEF QueueControl, Queued
    <2>3. Regulars(batch)' = 0
        BY <2>2 DEF Regulars
    <2>4. PICK r : r = Queued + Regulars(batch)
        OBVIOUS
    <2>5. r = Queued' + Regulars(batch)'
        BY <2>1, <2>2, <2>3, <2>4
    <2>6. Numbered(before)'
        BY <1>2, <1>4, <2>4, <2>5, NumberedSame
    <2>7. incomingAck = Queued
        BY <1>3, <2>1, AckCases DEF Held, Delivery
    <2>8. AckMatchesDelivery'
        BY <1>1, <1>2, <1>3, <2>2, <2>7 DEF AckMatchesDelivery, Queued
    <2>9. Run(regularCh, consumed)'
        BY <1>2, <2>2 DEF Delivery, Run
    <2> QED  BY <2>2, <2>6, <2>8, <2>9 DEF Delivery
<1> QED  BY <1>5, <1>6 DEF DeliverFrame

LEMMA DeliveryRecv ==
    ASSUME TypeInv, Delivery, RecvRegular
    PROVE  Delivery' /\ consumed' = consumed + 1 /\ consumed < serverID
<1>1. /\ regularCh \in Seq(Frames) /\ regularCh # <<>>
      /\ consumed \in Nat /\ serverID \in Nat
    BY DEF TypeInv, ConnTypeOK, RecvRegular
<1>2. PICK next \in Nat : next = consumed + 1
    BY <1>1
<1>3. Head(regularCh).ID = next /\ Run(Tail(regularCh), next)
    BY <1>1, <1>2, HeadOfRun DEF Delivery
<1>4. /\ consumed' = next /\ regularCh' = Tail(regularCh)
      /\ UNCHANGED <<inbound, serverID, batch, reader, incomingAck>>
    BY <1>3 DEF RecvRegular, readVars, serverVars
<1>5. Len(regularCh') = Len(regularCh) - 1 /\ Len(regularCh) \in Nat
      /\ Len(regularCh) # 0
    BY <1>1, <1>4, HeadTailProperties, EmptySeq, LenProperties
<1>6. PICK q \in Nat : q = Queued /\ q = Queued'
    BY <1>1, <1>2, <1>4, <1>5 DEF Queued
<1>7. PICK before : Numbered(before)
    BY DEF Delivery
<1>8. Numbered(before)'
    <2>1. PICK r : r = Queued + Regulars(batch)
        OBVIOUS
    <2>2. r = Queued' + Regulars(batch)'
        BY <1>4, <1>6, <2>1 DEF Regulars
    <2> QED  BY <1>4, <1>7, <2>1, <2>2, NumberedSame
<1>9. AckMatchesDelivery'
    BY <1>4, <1>6 DEF AckMatchesDelivery, Delivery, Queued
<1>10. Run(regularCh, consumed)' /\ (batch = <<>> \/ Run(batch, Queued) \/ Bare(batch))'
    BY <1>3, <1>4, <1>6 DEF Delivery, Run, Bare
<1>11. consumed < serverID
    <2>1. Regulars(batch) \in Nat
        BY DEF Regulars, TypeInv, ConnTypeOK
    <2>2. before[1] <= serverID /\ before[1] = Queued + Regulars(batch)
        BY <1>7 DEF Numbered, TypeInv, ConnTypeOK
    <2> QED  BY <1>1, <1>5, <1>6, <2>1, <2>2 DEF Queued
<1> QED  BY <1>2, <1>4, <1>8, <1>9, <1>10, <1>11 DEF Delivery

LEMMA DeliveryStep == TypeInv /\ Delivery /\ [ConnNext]_connVars => Delivery'
<1> SUFFICES ASSUME TypeInv, Delivery, [ConnNext]_connVars  PROVE Delivery'
    OBVIOUS
<1>1. ASSUME UNCHANGED <<inbound, serverID, regularCh, consumed, batch, incomingAck>>,
             \/ reader' = reader
             \/ reader = "read" /\ reader' = "signal"
             \/ reader \in {"select", "signal", "close"}
                /\ reader' \in {"signal", "close", "done"}
      PROVE  Delivery'
    <2>1. PICK before : Numbered(before)
        BY DEF Delivery
    <2>2. Numbered(before)'
        BY <1>1, <2>1 DEF Numbered, Queued, Regulars
    <2>3. AckMatchesDelivery'
        <3>1. CASE reader' = reader
            BY <1>1, <3>1 DEF Delivery, AckMatchesDelivery
        <3>2. CASE reader = "read" /\ reader' = "signal"
            <4>1. batch = <<>>
                BY <3>2 DEF TypeInv, Framing
            <4> QED  BY <1>1, <3>2, <4>1 DEF Delivery, AckMatchesDelivery
        <3>3. CASE reader \in {"select", "signal", "close"}
                   /\ reader' \in {"signal", "close", "done"}
            BY <1>1, <3>3 DEF Delivery, AckMatchesDelivery
        <3> QED  BY <1>1, <3>1, <3>2, <3>3
    <2>4. /\ Run(regularCh, consumed)'
          /\ (batch = <<>> \/ Run(batch, Queued) \/ Bare(batch))'
        BY <1>1 DEF Delivery, Run, Bare, Queued
    <2> QED  BY <2>2, <2>3, <2>4 DEF Delivery
<1>2. CASE \/ NetworkFailure \/ KeepAliveLoop \/ (\E s \in Senders : Send(s))
           \/ Close \/ RecvEnd \/ TakeControl \/ UNCHANGED connVars
    <2>1. UNCHANGED <<inbound, serverID, regularCh, consumed, batch, incomingAck,
                      reader>>
        BY <1>2
        DEF NetworkFailure, KeepAliveLoop, KeepAliveTick, KeepAliveSend,
            KeepAliveStop, Send, BuildFrame, WriteFails, WriteFrame, Close,
            RecvEnd, TakeControl, connVars, readVars, chanVars, recvVars, serverVars
    <2> QED  BY <1>1, <2>1
<1>3. CASE ReadError \/ AbandonDelivery \/ ReaderSignals \/ ReaderClosesRegular
    <2>1. /\ UNCHANGED <<inbound, serverID, regularCh, consumed, batch, incomingAck>>
          /\ \/ reader = "read" /\ reader' = "signal"
             \/ reader \in {"select", "signal", "close"}
                /\ reader' \in {"signal", "close", "done"}
        BY <1>3
        DEF ReadError, AbandonDelivery, ReaderSignals, ReaderClosesRegular,
            chanVars, recvVars, serverVars
    <2> QED  BY <1>1, <2>1
<1> QED
    BY <1>2, <1>3, DeliveryServer, DeliveryRead, DeliveryDecode, DeliveryDeliver,
       DeliveryRecv
    DEF ConnNext, ReadLoop

LEMMA DeliveryInvariant == ConnSafety => [](TypeInv /\ Delivery)
BY TypeInit, TypeStep, DeliveryInit, DeliveryStep, PTL DEF ConnSafety

(* last[m] is the ID of the last Regular frame before place m of the way.  *)
Along(last) ==
    /\ last \in [1 .. Len(OnTheWay) + 1 -> Nat]
    /\ last[1] = consumed /\ last[Len(OnTheWay) + 1] = serverID
    /\ \A j, k \in 1 .. Len(OnTheWay) + 1 : j <= k => last[j] <= last[k]
    /\ \A id \in Nat : consumed < id /\ id <= serverID =>
          \E m \in 1 .. Len(OnTheWay) : last[m] < id /\ id <= last[m + 1]
    /\ \A m \in 1 .. Len(OnTheWay) :
          \/ Run(OnTheWay[m], last[m]) /\ last[m + 1] = last[m] + Len(OnTheWay[m])
          \/ /\ \A i \in 1 .. Len(OnTheWay[m]) : OnTheWay[m][i].Type # "Regular"
             /\ last[m + 1] = last[m]

LEMMA WayType ==
    ASSUME TypeInv
    PROVE  /\ OnTheWay \in Seq(Seq(Frames))
           /\ Len(OnTheWay) = Len(inbound) + 2 /\ Len(inbound) \in Nat
           /\ OnTheWay[1] = regularCh /\ OnTheWay[2] = batch
           /\ \A m \in 1 .. Len(inbound) : OnTheWay[m + 2] = inbound[m]
<1>1. inbound \in Seq(Seq(Frames)) /\ <<regularCh, batch>> \in Seq(Seq(Frames))
    BY DEF TypeInv, ConnTypeOK
<1>2. Len(<<regularCh, batch>>) = 2
    OBVIOUS
<1>3. /\ OnTheWay \in Seq(Seq(Frames))
      /\ Len(OnTheWay) = Len(<<regularCh, batch>>) + Len(inbound)
      /\ \A i \in 1 .. Len(<<regularCh, batch>>) + Len(inbound) :
            OnTheWay[i] = IF i <= Len(<<regularCh, batch>>) THEN <<regularCh, batch>>[i]
                          ELSE inbound[i - Len(<<regularCh, batch>>)]
    BY <1>1, ConcatProperties, Zenon DEF OnTheWay
<1>4. Len(inbound) \in Nat
    BY <1>1
<1> QED  BY <1>2, <1>3, <1>4

LEMMA WayNumbered == TypeInv /\ Delivery => \E last : Along(last)
<1> SUFFICES ASSUME TypeInv, Delivery  PROVE \E last : Along(last)
    OBVIOUS
<1>1. PICK before : Numbered(before)
    BY DEF Delivery
<1>2. PICK n \in Nat : n = Len(inbound)
    BY DEF TypeInv, ConnTypeOK
<1>3. PICK queued \in Nat : queued = Queued
    BY DEF TypeInv, ConnTypeOK, Queued
<1>4. /\ before \in [1 .. n + 1 -> Nat] /\ before[n + 1] = serverID
      /\ before[1] = queued + Regulars(batch)
      /\ \A j, k \in 1 .. n + 1 : j <= k => before[j] <= before[k]
      /\ \A id \in Nat : before[1] < id /\ id <= serverID =>
            \E m \in 1 .. n : before[m] < id /\ id <= before[m + 1]
      /\ \A m \in 1 .. n : Adds(inbound[m], before[m], before[m + 1])
    BY <1>1, <1>2, <1>3 DEF Numbered
<1>5. /\ Len(OnTheWay) = n + 2
      /\ OnTheWay[1] = regularCh /\ OnTheWay[2] = batch
      /\ \A m \in 1 .. n : OnTheWay[m + 2] = inbound[m]
    BY <1>2, WayType
<1>6. /\ regularCh \in Seq(Frames) /\ batch \in Seq(Frames) /\ Len(regularCh) \in Nat
      /\ Len(batch) \in Nat /\ consumed \in Nat /\ serverID \in Nat
      /\ queued = consumed + Len(regularCh)
    BY <1>3 DEF TypeInv, ConnTypeOK, Queued
<1> DEFINE last == [m \in 1 .. n + 3 |-> IF m = 1 THEN consumed
                                         ELSE IF m = 2 THEN queued ELSE before[m - 2]]
<1>7. /\ last \in [1 .. n + 3 -> Nat]
      /\ last[1] = consumed /\ last[2] = queued
      /\ \A m \in 1 .. n + 1 : last[m + 2] = before[m]
    <2>1. \A m \in 1 .. n + 3 : m # 1 /\ m # 2 => m - 2 \in 1 .. n + 1
        BY <1>2
    <2>2. last \in [1 .. n + 3 -> Nat]
        BY <1>3, <1>4, <1>6, <2>1
    <2>3. \A m \in 1 .. n + 1 : m + 2 \in 1 .. n + 3 /\ m + 2 # 1 /\ m + 2 # 2 /\ (m + 2) - 2 = m
        BY <1>2
    <2>4. 1 \in 1 .. n + 3 /\ 2 \in 1 .. n + 3 /\ 1 # 2
        BY <1>2
    <2> QED  BY <2>2, <2>3, <2>4
<1> HIDE DEF last
<1>8. /\ Run(regularCh, consumed)
      /\ batch = <<>> \/ Run(batch, queued) \/ Bare(batch)
    BY <1>3 DEF Delivery
<1>9. \/ Run(batch, queued) /\ last[3] = queued + Len(batch)
      \/ (\A i \in 1 .. Len(batch) : batch[i].Type # "Regular") /\ last[3] = queued
    <2>1. last[3] = queued + Regulars(batch)
        BY <1>2, <1>4, <1>7
    <2>2. CASE batch = <<>> \/ Run(batch, queued)
        <3>1. Run(batch, queued)
            BY <2>2 DEF Run
        <3>2. Regulars(batch) = Len(batch)
            <4>1. batch # <<>> => Len(batch) \in Nat \ {0}
                BY <1>6, EmptySeq
            <4>2. batch # <<>> => batch[1].Type = "Regular"
                BY <3>1, <4>1 DEF Run
            <4>3. batch = <<>> => Len(batch) = 0
                OBVIOUS
            <4> QED  BY <4>2, <4>3 DEF Regulars
        <3>3. last[3] = queued + Len(batch)
            BY <2>1, <3>2, Zenon
        <3> QED  BY <3>1, <3>3, Zenon
    <2>3. CASE Bare(batch)
        <3>1. Regulars(batch) = 0 /\ \A i \in 1 .. Len(batch) : batch[i].Type # "Regular"
            BY <2>3 DEF Bare, Regulars
        <3> QED  BY <1>3, <2>1, <3>1
    <2> QED  BY <1>8, <2>2, <2>3
<1>10. last[2] <= last[3] /\ last[1] <= last[2] /\ last[3] = before[1] /\ before[1] \in Nat
    <2>1. last[3] = before[1] /\ before[1] \in Nat
        BY <1>2, <1>4, <1>7
    <2> QED  BY <1>3, <1>6, <1>7, <1>9, <2>1
<1>11. ASSUME NEW j \in 1 .. n + 3, NEW k \in 1 .. n + 3, j <= k
       PROVE  last[j] <= last[k]
    <2>1. ASSUME NEW i \in 1 .. n + 1, NEW l \in 1 .. n + 1, i <= l
          PROVE  last[i + 2] <= last[l + 2] /\ last[3] <= last[l + 2] /\ last[l + 2] \in Nat
        <3>1. 1 \in 1 .. n + 1 /\ 1 <= l /\ 1 + 2 = 3
            BY <1>2
        <3>2. before[i] <= before[l] /\ before[1] <= before[l]
            BY <1>4, <2>1, <3>1
        <3>3. last[i + 2] = before[i] /\ last[l + 2] = before[l] /\ before[l] \in Nat
            BY <1>4, <1>7
        <3> QED  BY <1>10, <3>2, <3>3
    <2>2. \A i \in 1 .. n + 3 : i = 1 \/ i = 2 \/ \E l \in 1 .. n + 1 : i = l + 2
        <3>1. \A i \in 1 .. n + 3 : i = 1 \/ i = 2 \/ (i - 2 \in 1 .. n + 1 /\ i = (i - 2) + 2)
            BY <1>2
        <3> QED  BY <3>1
    <2>3. CASE k = 1 \/ k = 2
        BY <1>2, <1>6, <1>7, <1>10, <1>11, <2>3
    <2>4. ASSUME NEW l \in 1 .. n + 1, k = l + 2  PROVE last[j] <= last[k]
        <3>1. CASE j = 1 \/ j = 2
            <4>1. last[3] <= last[k] /\ last[k] \in Nat
                BY <2>1, <2>4
            <4> QED  BY <1>3, <1>6, <1>7, <1>10, <3>1, <4>1
        <3>2. ASSUME NEW i \in 1 .. n + 1, j = i + 2  PROVE last[j] <= last[k]
            <4>1. i <= l
                BY <1>2, <1>11, <2>4, <3>2
            <4> QED  BY <2>1, <2>4, <3>2, <4>1
        <3> QED  BY <2>2, <3>1, <3>2
    <2> QED  BY <2>2, <2>3, <2>4
<1>12. ASSUME NEW id \in Nat, consumed < id, id <= serverID
       PROVE  \E m \in 1 .. n + 2 : last[m] < id /\ id <= last[m + 1]
    <2>1. CASE id <= last[2]
        BY <1>2, <1>7, <1>12, <2>1
    <2>2. CASE last[2] < id /\ id <= last[3]
        BY <1>2, <2>2
    <2>3. CASE last[3] < id
        <3>1. PICK m \in 1 .. n : before[m] < id /\ id <= before[m + 1]
            BY <1>4, <1>10, <1>12, <2>3
        <3>2. /\ m \in 1 .. n + 1 /\ m + 1 \in 1 .. n + 1
              /\ m + 2 \in 1 .. n + 2 /\ (m + 1) + 2 = (m + 2) + 1
            BY <1>2
        <3>3. last[m + 2] = before[m] /\ last[(m + 2) + 1] = before[m + 1]
            BY <1>7, <3>2
        <3> QED  BY <3>1, <3>2, <3>3
    <2> QED  BY <1>3, <1>7, <1>10, <2>1, <2>2, <2>3
<1>13. ASSUME NEW m \in 1 .. n + 2
       PROVE  \/ Run(OnTheWay[m], last[m]) /\ last[m + 1] = last[m] + Len(OnTheWay[m])
              \/ /\ \A i \in 1 .. Len(OnTheWay[m]) : OnTheWay[m][i].Type # "Regular"
                 /\ last[m + 1] = last[m]
    <2>1. CASE m = 1
        BY <1>5, <1>6, <1>7, <1>8, <2>1
    <2>2. CASE m = 2
        BY <1>5, <1>7, <1>9, <2>2
    <2>3. CASE m # 1 /\ m # 2
        <3>1. PICK l \in 1 .. n : m = l + 2
            <4>1. m - 2 \in 1 .. n /\ m = (m - 2) + 2
                BY <1>2, <2>3
            <4> QED  BY <4>1
        <3>2. l \in 1 .. n + 1 /\ l + 1 \in 1 .. n + 1 /\ (l + 1) + 2 = m + 1
            BY <1>2, <3>1
        <3>3. last[m] = before[l] /\ last[m + 1] = before[l + 1] /\ OnTheWay[m] = inbound[l]
            BY <1>5, <1>7, <3>1, <3>2
        <3>4. Adds(inbound[l], before[l], before[l + 1])
            BY <1>4
        <3>5. Adds(OnTheWay[m], last[m], last[m + 1])
            BY <3>3, <3>4, Zenon
        <3>6. ASSUME Bare(OnTheWay[m])
              PROVE  \A i \in 1 .. Len(OnTheWay[m]) : OnTheWay[m][i].Type # "Regular"
            BY <3>6 DEF Bare
        <3> QED  BY <3>5, <3>6, Zenon DEF Adds
    <2> QED  BY <2>1, <2>2, <2>3
<1>14. Along(last)
    <2>1. Len(OnTheWay) + 1 = n + 3 /\ Len(OnTheWay) = n + 2
        BY <1>2, <1>5
    <2>2. last[n + 3] = serverID
        <3>1. n + 1 \in 1 .. n + 1 /\ (n + 1) + 2 = n + 3
            BY <1>2
        <3> QED  BY <1>4, <1>7, <3>1
    <2> QED  BY <1>7, <1>11, <1>12, <1>13, <2>1, <2>2 DEF Along
<1> QED  BY <1>14

(* Nothing is lost, repeated or reordered between the server and the       *)
(* consumer, however full regularCh is, however the server bundles frames  *)
(* and whatever else it writes (readLoop and deliverFrame in conn.go).     *)
THEOREM NoFrameLostHolds == ConnSafety => []NoFrameLost
<1>1. TypeInv /\ Delivery => NoFrameLost
    <2> SUFFICES ASSUME TypeInv, Delivery  PROVE NoFrameLost
        OBVIOUS
    <2>1. PICK last : Along(last)
        BY WayNumbered
    <2>2. PICK n \in Nat : n = Len(OnTheWay)
        BY WayType
    <2>3. consumed \in Nat /\ serverID \in Nat
        BY DEF TypeInv, ConnTypeOK
    <2>4. PICK way \in Seq(Seq(Frames)) : way = OnTheWay
        BY WayType
    <2>5. /\ last \in [1 .. n + 1 -> Nat] /\ last[1] = consumed /\ last[n + 1] = serverID
          /\ \A j, k \in 1 .. n + 1 : j <= k => last[j] <= last[k]
          /\ \A id \in Nat : consumed < id /\ id <= serverID =>
                \E m \in 1 .. n : last[m] < id /\ id <= last[m + 1]
          /\ \A m \in 1 .. n :
                \/ Run(way[m], last[m]) /\ last[m + 1] = last[m] + Len(way[m])
                \/ /\ \A i \in 1 .. Len(way[m]) : way[m][i].Type # "Regular"
                   /\ last[m + 1] = last[m]
        BY <2>1, <2>2, <2>4, Zenon DEF Along
    <2> DEFINE ID(p) == OnTheWay[p[1]][p[2]].ID
    <2>6. ASSUME NEW m \in 1 .. n, NEW i \in 1 .. Len(way[m]), way[m][i].Type = "Regular"
          PROVE  /\ way[m][i].ID = last[m] + i /\ Len(way[m]) \in Nat
                 /\ last[m + 1] = last[m] + Len(way[m])
        BY <2>2, <2>4, <2>5, <2>6 DEF Run
    <2>7. ASSUME NEW p \in RegularPlaces
          PROVE  /\ p[1] \in 1 .. n /\ p[2] \in 1 .. Len(way[p[1]]) /\ p[2] \in Nat
                 /\ way[p[1]] \in Seq(Frames)
                 /\ ID(p) = last[p[1]] + p[2]
                 /\ last[p[1]] \in Nat /\ last[p[1] + 1] \in Nat
                 /\ last[p[1]] < ID(p) /\ ID(p) <= last[p[1] + 1]
                 /\ p = <<p[1], p[2]>>
        <3>1. PICK m \in DOMAIN OnTheWay : p \in {m} \X DOMAIN OnTheWay[m]
            BY DEF RegularPlaces
        <3>2. /\ p[1] = m /\ p[2] \in DOMAIN OnTheWay[m] /\ p = <<p[1], p[2]>>
              /\ OnTheWay[p[1]][p[2]].Type = "Regular"
            BY <3>1 DEF RegularPlaces
        <3>3. DOMAIN way = 1 .. n /\ m \in 1 .. n
            BY <2>2, <2>4, <3>1
        <3>4. way[m] \in Seq(Frames) /\ p[2] \in 1 .. Len(way[m]) /\ Len(way[m]) \in Nat
            BY <2>2, <2>4, <3>2, <3>3
        <3>5. way[m][p[2]].Type = "Regular" /\ ID(p) = way[m][p[2]].ID
            BY <2>4, <3>2
        <3>6. /\ way[m][p[2]].ID = last[m] + p[2]
              /\ last[m + 1] = last[m] + Len(way[m])
            BY <2>6, <3>3, <3>4, <3>5
        <3>7. last[m] \in Nat /\ p[2] \in Nat /\ 1 <= p[2] /\ p[2] <= Len(way[m])
            BY <2>2, <2>5, <3>3, <3>4
        <3> HIDE DEF ID
        <3>8. ID(p) = last[m] + p[2] /\ last[m] < ID(p) /\ ID(p) <= last[m + 1]
              /\ last[m + 1] \in Nat
            BY <3>4, <3>5, <3>6, <3>7
        <3> QED  BY <3>2, <3>3, <3>4, <3>7, <3>8
    <2>8. ASSUME NEW id \in consumed + 1 .. serverID
          PROVE  \E p \in RegularPlaces : ID(p) = id
        <3>1. id \in Nat /\ consumed < id /\ id <= serverID
            BY <2>3
        <3>2. PICK m \in 1 .. n : last[m] < id /\ id <= last[m + 1]
            BY <2>5, <3>1
        <3>3. last[m] \in Nat /\ last[m + 1] \in Nat /\ last[m + 1] # last[m]
            <4>1. m \in 1 .. n + 1 /\ m + 1 \in 1 .. n + 1
                BY <2>2
            <4>2. last[m] \in Nat /\ last[m + 1] \in Nat
                BY <2>5, <4>1
            <4> QED  BY <3>1, <3>2, <4>2
        <3>4. Run(way[m], last[m]) /\ last[m + 1] = last[m] + Len(way[m])
            BY <2>5, <3>3
        <3>5. way[m] \in Seq(Frames) /\ Len(way[m]) \in Nat /\ m \in DOMAIN way
            BY <2>2, <2>4
        <3>6. PICK i \in 1 .. Len(way[m]) : last[m] + i = id
            <4>1. id - last[m] \in 1 .. Len(way[m]) /\ last[m] + (id - last[m]) = id
                BY <3>1, <3>2, <3>3, <3>4, <3>5
            <4> QED  BY <4>1
        <3>7. way[m][i].Type = "Regular" /\ way[m][i].ID = id
            BY <3>4, <3>6 DEF Run
        <3>8. i \in DOMAIN way[m]
            BY <3>5
        <3>9. <<m, i>> \in RegularPlaces
            <4>1. <<m, i>> \in {m} \X DOMAIN OnTheWay[m]
                BY <2>4, <3>8
            <4>2. <<m, i>> \in UNION {{k} \X DOMAIN OnTheWay[k] : k \in DOMAIN OnTheWay}
                BY <2>4, <3>5, <4>1
            <4> QED  BY <2>4, <3>7, <4>2 DEF RegularPlaces
        <3>10. ID(<<m, i>>) = id
            BY <2>4, <3>7
        <3> QED  BY <3>9, <3>10
    <2>9. ASSUME NEW p \in RegularPlaces
          PROVE  ID(p) \in consumed + 1 .. serverID
        <3>1. last[1] <= last[p[1]] /\ last[p[1] + 1] <= last[n + 1]
            <4>1. /\ 1 \in 1 .. n + 1 /\ n + 1 \in 1 .. n + 1 /\ p[1] \in 1 .. n + 1
                  /\ p[1] + 1 \in 1 .. n + 1 /\ 1 <= p[1] /\ p[1] + 1 <= n + 1
                BY <2>2, <2>7
            <4> QED  BY <2>5, <4>1
        <3>2. last[p[1]] < ID(p) /\ ID(p) <= last[p[1] + 1] /\ ID(p) = last[p[1]] + p[2]
              /\ last[p[1]] \in Nat /\ last[p[1] + 1] \in Nat /\ p[2] \in Nat
            BY <2>7
        <3>3. last[1] = consumed /\ last[n + 1] = serverID
            BY <2>5
        <3> HIDE DEF ID
        <3>4. consumed < ID(p) /\ ID(p) <= serverID /\ ID(p) \in Nat
            BY <2>3, <3>1, <3>2, <3>3
        <3> QED  BY <2>3, <3>4
    <2>10. ASSUME NEW p \in RegularPlaces, NEW q \in RegularPlaces, p[1] < q[1]
           PROVE  ID(p) < ID(q)
        <3>1. last[p[1] + 1] <= last[q[1]]
            <4>1. p[1] + 1 \in 1 .. n + 1 /\ q[1] \in 1 .. n + 1 /\ p[1] + 1 <= q[1]
                BY <2>2, <2>7, <2>10
            <4> QED  BY <2>5, <4>1
        <3>2. /\ ID(p) <= last[p[1] + 1] /\ last[q[1]] < ID(q)
              /\ last[p[1] + 1] \in Nat /\ last[q[1]] \in Nat
              /\ ID(p) = last[p[1]] + p[2] /\ ID(q) = last[q[1]] + q[2]
              /\ last[p[1]] \in Nat /\ p[2] \in Nat /\ q[2] \in Nat
            BY <2>7
        <3> HIDE DEF ID
        <3> QED  BY <3>1, <3>2
    <2>11. ASSUME NEW p \in RegularPlaces, NEW q \in RegularPlaces
           PROVE  ID(p) < ID(q) <=> (p[1] < q[1] \/ (p[1] = q[1] /\ p[2] < q[2]))
        <3>1. /\ p[1] \in Nat /\ q[1] \in Nat /\ p[2] \in Nat /\ q[2] \in Nat
              /\ ID(p) = last[p[1]] + p[2] /\ ID(q) = last[q[1]] + q[2]
              /\ last[p[1]] \in Nat /\ last[q[1]] \in Nat
            BY <2>2, <2>7
        <3>2. p[1] < q[1] => ID(p) < ID(q)
            BY <2>10
        <3>3. q[1] < p[1] => ID(q) < ID(p)
            BY <2>10
        <3> HIDE DEF ID
        <3>4. p[1] = q[1] => (ID(p) < ID(q) <=> p[2] < q[2])
            BY <3>1
        <3>5. ID(p) \in Nat /\ ID(q) \in Nat
            BY <3>1
        <3> QED  BY <3>1, <3>2, <3>3, <3>4, <3>5
    <2>12. {ID(p) : p \in RegularPlaces} = consumed + 1 .. serverID
        <3> HIDE DEF ID
        <3> QED  BY <2>8, <2>9
    <2> QED  BY <2>11, <2>12 DEF NoFrameLost
<1> QED  BY <1>1, DeliveryInvariant, PTL

(* A frame is acknowledged only once it is queued or being queued with all *)
(* frames before it, and the ack does not fall behind: no capacity, message*)
(* boundary or pace of the consumer makes a difference.                    *)
THEOREM AckMatchesDeliveryHolds == ConnSafety => []AckMatchesDelivery
<1>1. Delivery => AckMatchesDelivery
    BY DEF Delivery
<1> QED  BY <1>1, DeliveryInvariant, PTL

(* The consumer gets the server's Regular frames once each and in order,   *)
(* until the stream ends: the connection implements the FrameChannel.      *)
THEOREM ImplementsFrameChannelHolds == ConnSafety => ImplementsFrameChannel
<1>1. ConnInit => Channel!Init
    BY DEF ConnInit, Channel!Init
<1>2. TypeInv /\ Delivery /\ Closing /\ [ConnNext]_connVars
        => [Channel!Next]_<<serverID, consumed, streamEnded>>
    <2> SUFFICES ASSUME TypeInv, Delivery, Closing, [ConnNext]_connVars
                 PROVE  \/ Channel!Next
                        \/ UNCHANGED <<serverID, consumed, streamEnded>>
        OBVIOUS
    <2>1. CASE RecvRegular
        <3>1. consumed' = consumed + 1 /\ consumed < serverID
            BY <2>1, DeliveryRecv
        <3>2. ~streamEnded
            BY <2>1 DEF RecvRegular, Closing
        <3>3. UNCHANGED <<serverID, streamEnded>>
            BY <2>1 DEF RecvRegular, serverVars
        <3> QED  BY <3>1, <3>2, <3>3 DEF Channel!Next, Channel!Receive
    <2>2. CASE RecvEnd
        BY <2>2 DEF RecvEnd, serverVars, Channel!Next, Channel!End
    <2>3. CASE ServerWrites
        <3>1. ASSUME NEW n \in 1 .. MaxMessage, NEW ps \in [1 .. n -> Payloads],
                     ServerRegular(ps)
              PROVE  Channel!Next
            <4>1. serverID \in Nat /\ n \in Nat /\ n # 0 /\ Len(ps) = n
                BY ConnAssumption DEF TypeInv, ConnTypeOK
            <4>2. serverID' \in Nat /\ serverID' > serverID
                  /\ UNCHANGED <<consumed, streamEnded>>
                BY <3>1, <4>1 DEF ServerRegular, recvVars
            <4> QED  BY <4>2 DEF Channel!Next, Channel!Send
        <3>2. ASSUME NEW type \in BareTypes, ServerBare(type)
              PROVE  UNCHANGED <<serverID, consumed, streamEnded>>
            BY <3>2 DEF ServerBare, recvVars
        <3> QED  BY <2>3, <3>1, <3>2 DEF ServerWrites
    <2>4. CASE \/ NetworkFailure \/ KeepAliveLoop \/ (\E s \in Senders : Send(s))
               \/ Close \/ ReadLoop \/ TakeControl \/ UNCHANGED connVars
        BY <2>4
        DEF NetworkFailure, KeepAliveLoop, KeepAliveTick, KeepAliveSend,
            KeepAliveStop, Send, BuildFrame, WriteFails, WriteFrame, Close,
            ReadLoop, ReadMessage, ReadError, DecodeFrame, DeliverFrame,
            AbandonDelivery, ReaderSignals, ReaderClosesRegular, TakeControl, connVars,
            recvVars, serverVars
    <2> QED  BY <2>1, <2>2, <2>3, <2>4 DEF ConnNext
<1> QED
    BY <1>1, <1>2, DeliveryInvariant, ClosingInvariant, PTL
    DEF ConnSafety, ImplementsFrameChannel, Channel!Spec
=============================================================================
