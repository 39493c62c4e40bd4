--------------------------- MODULE HandshakeProofs ---------------------------
(***************************************************************************)
(* A connection from Dial to Close, with its mutex held across writes, is  *)
(* a connection: every step of Handshake is a step of Conn, or none.  What *)
(* ConnProofs says of Conn holds there, too, for any constants.            *)
(***************************************************************************)
EXTENDS Handshake, ConnProofs

LEMMA WriteReturnsStep ==
    ASSUME NEW w \in Writers, WriteReturns(w)
    PROVE  ConnNext \/ UNCHANGED connVars
<1>1. CASE w = "main" /\ (SendControl \/ SendControlFails)
    BY <1>1 DEF SendControl, SendControlFails
<1>2. CASE w = "keepAlive" /\ KeepAliveSend
    BY <1>2 DEF ConnNext, KeepAliveLoop
<1>3. CASE w \in Senders /\ (WriteFails(w) \/ \E p \in Payloads : WriteFrame(w, p))
    BY <1>3 DEF ConnNext, Send
<1> QED  BY <1>1, <1>2, <1>3 DEF WriteReturns

LEMMA HandshakeStep == [Next]_vars => [ConnNext]_connVars
<1> SUFFICES ASSUME [Next]_vars  PROVE ConnNext \/ UNCHANGED connVars
    OBVIOUS
<1>1. CASE UNCHANGED vars
    BY <1>1 DEF vars
<1>2. CASE ServerAnswers
    <2>1. ServerBare("Control")
        BY <1>2 DEF ServerAnswers, ServerSays
    <2> QED  BY <2>1 DEF ConnNext, ServerWrites, BareTypes
<1>3. CASE Network
    BY <1>3 DEF Network, ConnNext, ServerWrites
<1>4. ASSUME NEW w \in Writers, Lock(w)  PROVE UNCHANGED connVars
    BY <1>4 DEF Lock
<1>5. CASE RecvControl
    BY <1>5 DEF RecvControl, RecvReply, RecvClosed, RecvTimeout, ConnNext
<1>6. CASE Stop
    BY <1>6 DEF Stop
<1>7. CASE CloseConn
    BY <1>7 DEF CloseConn, ConnNext
<1>8. CASE Reader \/ Ticker
    BY <1>8 DEF Reader, Ticker, ConnNext, KeepAliveLoop
<1>9. CASE Users
    BY <1>9 DEF Users, ConnNext, Send
<1> QED
    BY <1>1, <1>2, <1>3, <1>4, <1>5, <1>6, <1>7, <1>8, <1>9, WriteReturnsStep DEF Next

(* The handshake, the mutex and writes that block add nothing to what a    *)
(* connection can do (conn.go as a whole).                                 *)
THEOREM HandshakeIsConn == Safety => ConnSafety
<1>1. Init => ConnInit
    BY DEF Init
<1> QED  BY <1>1, HandshakeStep, PTL DEF Safety, ConnSafety

(* Frames that come while the handshake still goes on, or while Close      *)
(* waits for the mutex, are neither lost, repeated nor reordered.          *)
THEOREM ChannelFromDialToClose == Safety => ImplementsFrameChannel
BY HandshakeIsConn, ImplementsFrameChannelHolds

(* A write that blocks for as long as it likes, with an ID drawn before,   *)
(* does not make two frames on the wire have the same ID.                  *)
THEOREM WireIDsUniqueFromDialToClose == Safety => []WireIDsUnique
BY HandshakeIsConn, WireIDsUniqueHolds

-----------------------------------------------------------------------------
(* The two replies.  What Handshake makes of a reply depends on where main *)
(* is and not on what the frame says it answers; so the argument follows   *)
(* the Control frames from the server to RecvControl: before the server    *)
(* has accepted there is at most one of them, and only while main waits    *)
(* for it.                                                                 *)

NoControl(fs) == \A i \in 1 .. Len(fs) : fs[i].Type # "Control"

Reply == <<BareFrame("Control")>>

NoneInbound == \A k \in 1 .. Len(inbound) : NoControl(inbound[k])

NonePending == controlCh = <<>> /\ NoControl(batch) /\ NoneInbound

(* The one frame is queued, or readLoop has it, or is yet to read it.      *)
OnePending ==
    \/ Len(controlCh) = 1 /\ NoControl(batch) /\ NoneInbound
    \/ controlCh = <<>> /\ batch = Reply /\ NoneInbound
    \/ /\ controlCh = <<>> /\ NoControl(batch)
       /\ \E k \in 1 .. Len(inbound) :
             /\ inbound[k] = Reply
             /\ \A m \in 1 .. Len(inbound) : m # k => NoControl(inbound[m])

(* How far the server has come, seen from where main is.                   *)
HandshakeInv ==
    /\ replies \in Seq({"sign", "ok", "error", "stray"})
    /\ phase = "sendAuth" => server = "waiting" /\ replies = <<>> /\ NonePending
    /\ phase = "recvSign" =>
          \/ server \in {"waiting", "auth"} /\ replies = <<>> /\ NonePending
          \/ server = "signed" /\ replies = <<"sign">> /\ OnePending
          \/ server = "refused" /\ replies = <<"error">>
    /\ phase = "sendType" => server = "signed" /\ replies = <<>> /\ NonePending
    /\ phase = "recvOK" =>
          \/ server \in {"signed", "type"} /\ replies = <<>> /\ NonePending
          \/ server = "accepted" /\ replies # <<>> /\ Head(replies) = "ok"
          \/ server = "refused" /\ replies = <<"error">>
    /\ OnlyAcceptedInUse

LEMMA ReplyIsMessage ==
    Reply \in Seq(Frames) /\ Reply # <<>> /\ Len(Reply) = 1 /\ Reply[1].Type = "Control"
<1>1. BareFrame("Control") \in Frames
    BY DEF BareFrame, Frames, BareTypes
<1> QED  BY <1>1 DEF Reply, BareFrame

LEMMA HeadOfNoControl ==
    ASSUME NEW fs \in Seq(Frames), fs # <<>>, NoControl(fs)
    PROVE  Head(fs).Type # "Control" /\ NoControl(Tail(fs))
<1>1. /\ Len(fs) \in Nat \ {0}
      /\ Len(Tail(fs)) = Len(fs) - 1
      /\ \A i \in 1 .. Len(Tail(fs)) : Tail(fs)[i] = fs[i + 1]
    BY EmptySeq, HeadTailProperties
<1>2. Head(fs) = fs[1]
    OBVIOUS
<1> QED  BY <1>1, <1>2 DEF NoControl

LEMMA NoControlInNone == NoControl(<<>>)
BY DEF NoControl

LEMMA PendingRead ==
    ASSUME TypeInv, ReadMessage
    PROVE  (NonePending => NonePending') /\ (OnePending => OnePending')
<1>1. /\ inbound \in Seq(Seq(Frames)) /\ inbound # <<>> /\ inbound' = Tail(inbound)
      /\ batch' = Head(inbound) /\ batch = <<>> /\ controlCh' = controlCh
    BY DEF TypeInv, ConnTypeOK, Framing, ReadMessage, chanVars
<1>2. PICK n \in Nat : Len(inbound) = n + 1
    <2>1. Len(inbound) \in Nat \ {0}
        BY <1>1, EmptySeq
    <2> QED  BY <2>1
<1>3. /\ Len(inbound') = n
      /\ \A i \in 1 .. n : inbound'[i] = inbound[i + 1]
    BY <1>1, <1>2, HeadTailProperties
<1>4. batch' = inbound[1]
    BY <1>1
<1>5. batch # Reply
    BY <1>1, ReplyIsMessage
<1>6. ASSUME NoneInbound
      PROVE  NoControl(batch)' /\ NoneInbound'
    <2>1. \A k \in 1 .. n + 1 : NoControl(inbound[k])
        BY <1>2, <1>6 DEF NoneInbound
    <2>2. \A k \in 1 .. n : NoControl(inbound'[k])
        BY <1>3, <2>1
    <2>3. NoControl(batch')
        BY <1>4, <2>1
    <2> QED  BY <1>3, <2>2, <2>3 DEF NoneInbound, NoControl
<1>7. ASSUME NEW k \in 1 .. Len(inbound), inbound[k] = Reply,
             \A m \in 1 .. Len(inbound) : m # k => NoControl(inbound[m]),
             controlCh = <<>>
      PROVE  OnePending'
    <2>1. CASE k = 1
        <3>1. \A i \in 1 .. n : NoControl(inbound'[i])
            BY <1>2, <1>3, <1>7, <2>1
        <3>2. NoneInbound'
            BY <1>3, <3>1 DEF NoneInbound, NoControl
        <3> QED  BY <1>1, <1>4, <1>7, <2>1, <3>2 DEF OnePending, Reply
    <2>2. CASE k # 1
        <3>1. NoControl(batch')
            BY <1>2, <1>4, <1>7, <2>2
        <3>2. PICK j \in 1 .. n : j + 1 = k
            BY <1>2, <1>7, <2>2
        <3>3. inbound'[j] = Reply
            BY <1>3, <1>7, <3>2
        <3>4. \A m \in 1 .. n : m # j => NoControl(inbound'[m])
            BY <1>2, <1>3, <1>7, <3>2
        <3> QED  BY <1>1, <1>3, <1>7, <3>1, <3>3, <3>4 DEF OnePending, NoControl, Reply
    <2> QED  BY <2>1, <2>2
<1>8. NonePending => NonePending'
    BY <1>1, <1>6 DEF NonePending
<1>9. OnePending => OnePending'
    BY <1>1, <1>5, <1>6, <1>7 DEF OnePending
<1> QED  BY <1>8, <1>9

LEMMA PendingDecode ==
    ASSUME TypeInv, DecodeFrame
    PROVE  (NonePending => NonePending') /\ (OnePending => OnePending')
<1>1. /\ batch \in Seq(Frames) /\ batch # <<>>
      /\ UNCHANGED <<inbound, controlCh>>
    BY DEF TypeInv, ConnTypeOK, Framing, DecodeFrame, chanVars, serverVars
<1>2. \/ batch' = batch
      \/ (batch' = Tail(batch) \/ batch' = <<>>) /\ Head(batch).Type # "Control"
    BY DEF DecodeFrame, Advance
<1>3. NoControl(batch) => NoControl(batch')
    BY <1>1, <1>2, HeadOfNoControl, NoControlInNone
<1>4. batch = Reply => batch' = Reply
    <2>1. Head(Reply).Type = "Control"
        BY ReplyIsMessage
    <2> QED  BY <1>2, <2>1
<1>5. (NoControl(batch))' <=> NoControl(batch')
    BY DEF NoControl
<1>6. NoneInbound' <=> NoneInbound
    BY <1>1 DEF NoneInbound, NoControl
<1>7. NonePending => NonePending'
    BY <1>1, <1>3, <1>5, <1>6 DEF NonePending
<1>8. ASSUME OnePending  PROVE OnePending'
    <2>1. CASE Len(controlCh) = 1 /\ NoControl(batch) /\ NoneInbound
        BY <1>1, <1>3, <1>5, <1>6, <2>1 DEF OnePending
    <2>2. CASE controlCh = <<>> /\ batch = Reply /\ NoneInbound
        <3>1. batch' = Reply'
            BY <1>4, <2>2 DEF Reply
        <3> QED  BY <1>1, <1>6, <2>2, <3>1 DEF OnePending
    <2>3. ASSUME controlCh = <<>>, NoControl(batch),
                 NEW k \in 1 .. Len(inbound), inbound[k] = Reply,
                 \A m \in 1 .. Len(inbound) : m # k => NoControl(inbound[m])
          PROVE  OnePending'
        BY <1>1, <1>3, <2>3 DEF OnePending, NoControl, Reply
    <2> QED  BY <1>8, <2>1, <2>2, <2>3 DEF OnePending
<1> QED  BY <1>7, <1>8

LEMMA PendingDeliver ==
    ASSUME TypeInv, DeliverFrame
    PROVE  (NonePending => NonePending') /\ (OnePending => OnePending')
<1>1. /\ batch \in Seq(Frames) /\ batch # <<>> /\ batch' = Tail(batch)
      /\ inbound' = inbound /\ controlCh \in Seq(Frames)
    BY DEF TypeInv, ConnTypeOK, Framing, DeliverFrame, Advance, serverVars
<1>2. NoControl(batch) => Head(batch).Type # "Control" /\ NoControl(batch')
    BY <1>1, HeadOfNoControl
<1>3. Head(batch).Type # "Control" => controlCh' = controlCh
    BY DEF DeliverFrame, QueueRegular, QueueControl
<1>4. (NoControl(batch))' <=> NoControl(batch')
    BY DEF NoControl
<1>5. NoneInbound' <=> NoneInbound
    BY <1>1 DEF NoneInbound, NoControl
<1>6. NonePending => NonePending'
    BY <1>2, <1>3, <1>4, <1>5 DEF NonePending
<1>7. ASSUME OnePending  PROVE OnePending'
    <2>1. CASE Len(controlCh) = 1 /\ NoControl(batch) /\ NoneInbound
        BY <1>2, <1>3, <1>4, <1>5, <2>1 DEF OnePending
    <2>2. CASE controlCh = <<>> /\ batch = Reply /\ NoneInbound
        <3>1. Head(Reply).Type = "Control" /\ Tail(Reply) = <<>>
            BY ReplyIsMessage DEF Reply
        <3>2. controlCh' = Append(controlCh, Head(batch))
            BY <2>2, <3>1 DEF DeliverFrame, QueueRegular, QueueControl
        <3>3. Len(controlCh') = 1
            BY <2>2, <3>2
        <3>4. NoControl(batch')
            BY <1>1, <2>2, <3>1, NoControlInNone
        <3> QED  BY <1>4, <1>5, <2>2, <3>3, <3>4 DEF OnePending
    <2>3. ASSUME controlCh = <<>>, NoControl(batch),
                 NEW k \in 1 .. Len(inbound), inbound[k] = Reply,
                 \A m \in 1 .. Len(inbound) : m # k => NoControl(inbound[m])
          PROVE  OnePending'
        BY <1>1, <1>2, <1>3, <2>3 DEF OnePending, NoControl, Reply
    <2> QED  BY <1>7, <2>1, <2>2, <2>3 DEF OnePending
<1> QED  BY <1>6, <1>7

LEMMA PendingSame ==
    ASSUME UNCHANGED <<inbound, batch, controlCh>>
    PROVE  NonePending' = NonePending /\ OnePending' = OnePending
BY DEF NonePending, OnePending, NoneInbound, NoControl, Reply

LEMMA PendingReader ==
    ASSUME TypeInv, ReadLoop
    PROVE  (NonePending => NonePending') /\ (OnePending => OnePending')
<1>1. CASE ReadError \/ AbandonDelivery \/ ReaderSignals \/ ReaderClosesRegular
    <2>1. UNCHANGED <<inbound, batch, controlCh>>
        BY <1>1 DEF ReadError, AbandonDelivery, ReaderSignals, ReaderClosesRegular,
                    chanVars, serverVars
    <2> QED  BY <2>1, PendingSame
<1> QED  BY <1>1, PendingRead, PendingDecode, PendingDeliver DEF ReadLoop

(* What the server writes: a message of Regular frames, or a reply.        *)
LEMMA PendingRegular ==
    ASSUME TypeInv, NEW n \in 1 .. MaxMessage, NEW ps \in [1 .. n -> Payloads],
           ServerRegular(ps)
    PROVE  (NonePending => NonePending') /\ (OnePending => OnePending')
<1> DEFINE m == [i \in 1 .. Len(ps) |-> RegularFrame(serverID + i, ps[i])]
<1>1. n \in Nat /\ serverID \in Nat /\ Len(ps) = n
    <2>1. n \in Nat /\ serverID \in Nat
        BY ConnAssumption DEF TypeInv, ConnTypeOK
    <2> QED  BY <2>1
<1>2. m \in Seq(Frames) /\ NoControl(m)
    <2>1. m = [i \in 1 .. n |-> RegularFrame(serverID + i, ps[i])]
        BY <1>1
    <2> HIDE DEF m
    <2>2. \A i \in 1 .. n : m[i] \in Frames /\ m[i].Type # "Control"
        BY <1>1, <2>1 DEF RegularFrame, Frames
    <2>3. m \in Seq(Frames) /\ Len(m) = n
        BY <1>1, <2>1, <2>2
    <2> QED  BY <2>2, <2>3 DEF NoControl
<1>3. /\ inbound \in Seq(Seq(Frames)) /\ inbound' = Append(inbound, m)
      /\ UNCHANGED <<batch, controlCh>>
    BY DEF ServerRegular, TypeInv, ConnTypeOK, readVars, chanVars
<1> HIDE DEF m
<1>4. PICK l \in Nat : l = Len(inbound)
    BY <1>3
<1>5. /\ Len(inbound') = l + 1 /\ inbound'[l + 1] = m
      /\ \A i \in 1 .. l : inbound'[i] = inbound[i]
    BY <1>2, <1>3, <1>4, AppendProperties
<1>6. (NoControl(batch))' <=> NoControl(batch)
    BY <1>3 DEF NoControl
<1>7. NoneInbound => NoneInbound'
    <2> SUFFICES ASSUME NoneInbound  PROVE \A i \in 1 .. l + 1 : NoControl(inbound'[i])
        BY <1>5 DEF NoneInbound, NoControl
    <2>1. \A i \in 1 .. l : NoControl(inbound[i])
        BY <1>4 DEF NoneInbound
    <2> QED  BY <1>2, <1>4, <1>5, <2>1
<1>8. ASSUME NEW k \in 1 .. Len(inbound), inbound[k] = Reply,
             \A i \in 1 .. Len(inbound) : i # k => NoControl(inbound[i])
      PROVE  \E j \in 1 .. Len(inbound') :
                /\ inbound'[j] = Reply
                /\ \A i \in 1 .. Len(inbound') : i # j => NoControl(inbound'[i])
    <2>1. k \in 1 .. l + 1 /\ inbound'[k] = Reply
        BY <1>4, <1>5, <1>8
    <2>2. \A i \in 1 .. l + 1 : i # k => NoControl(inbound'[i])
        BY <1>2, <1>4, <1>5, <1>8
    <2> QED  BY <1>5, <2>1, <2>2
<1>9. OnePending => OnePending'
    <2>1. (\E j \in 1 .. Len(inbound) :
              /\ inbound[j] = Reply
              /\ \A i \in 1 .. Len(inbound) : i # j => NoControl(inbound[i]))'
          <=> \E j \in 1 .. Len(inbound') :
                /\ inbound'[j] = Reply
                /\ \A i \in 1 .. Len(inbound') : i # j => NoControl(inbound'[i])
        BY DEF NoControl, Reply
    <2> QED  BY <1>3, <1>6, <1>7, <1>8, <2>1 DEF OnePending, Reply
<1> QED  BY <1>3, <1>6, <1>7, <1>9 DEF NonePending

LEMMA PendingReply ==
    ASSUME TypeInv, ServerBare("Control"), NonePending
    PROVE  OnePending'
<1>1. /\ inbound \in Seq(Seq(Frames)) /\ inbound' = Append(inbound, Reply)
      /\ UNCHANGED <<batch, controlCh>>
    BY DEF ServerBare, TypeInv, ConnTypeOK, readVars, chanVars, Reply
<1>2. PICK l \in Nat : l = Len(inbound)
    BY <1>1
<1>3. /\ Len(inbound') = l + 1 /\ inbound'[l + 1] = Reply
      /\ \A i \in 1 .. l : inbound'[i] = inbound[i]
    BY <1>1, <1>2, ReplyIsMessage, AppendProperties
<1>4. \A i \in 1 .. l + 1 : i # l + 1 => NoControl(inbound'[i])
    BY <1>2, <1>3 DEF NonePending, NoneInbound
<1>5. controlCh' = <<>> /\ NoControl(batch')
    BY <1>1 DEF NonePending
<1>6. (\E k \in 1 .. Len(inbound) :
          /\ inbound[k] = Reply
          /\ \A m \in 1 .. Len(inbound) : m # k => NoControl(inbound[m]))'
    BY <1>2, <1>3, <1>4 DEF NoControl, Reply
<1> QED  BY <1>5, <1>6 DEF OnePending, NoControl

(* A step that changes none of what HandshakeInv is about but where the    *)
(* Control frames are.                                                     *)
LEMMA HandshakeMoved ==
    ASSUME HandshakeInv, UNCHANGED phaseVars,
           NonePending => NonePending', OnePending => OnePending'
    PROVE  HandshakeInv'
BY DEF HandshakeInv, phaseVars, OnlyAcceptedInUse, InUse

LEMMA HandshakeElsewhere ==
    ASSUME HandshakeInv, UNCHANGED <<inbound, batch, controlCh, phaseVars>>
    PROVE  HandshakeInv'
BY HandshakeMoved, PendingSame

(* Nothing is left for a handshake that has failed to go wrong about.      *)
LEMMA HandshakeFails ==
    ASSUME HandshakeInv, phase' = "failed",
           replies' = replies \/ (replies # <<>> /\ replies' = Tail(replies))
    PROVE  HandshakeInv'
<1>1. replies' \in Seq({"sign", "ok", "error", "stray"})
    BY HeadTailProperties DEF HandshakeInv
<1> QED  BY <1>1 DEF HandshakeInv, OnlyAcceptedInUse, InUse

LEMMA ServerAnswersStep ==
    ASSUME TypeInv, HandshakeInv, ServerAnswers
    PROVE  HandshakeInv'
<1>1. ServerBare("Control") /\ phase' = phase
    BY DEF ServerAnswers, ServerSays
<1>2. replies \in Seq({"sign", "ok", "error", "stray"})
    BY DEF HandshakeInv
<1>3. replies' \in Seq({"sign", "ok", "error", "stray"})
    BY <1>2 DEF ServerAnswers, ServerSays
<1>4. server \in {"auth", "type", "accepted"}
    BY DEF ServerAnswers
<1>5. CASE phase \notin {"recvSign", "recvOK"}
    <2>1. phase \notin {"sendAuth", "sendType"}
        BY <1>4 DEF HandshakeInv
    <2>2. InUse => server' = "accepted"
        BY <1>4, <1>5 DEF HandshakeInv, OnlyAcceptedInUse, ServerAnswers, ServerSays
    <2> QED  BY <1>1, <1>3, <1>5, <2>1, <2>2 DEF HandshakeInv, OnlyAcceptedInUse, InUse
<1>6. CASE phase = "recvSign"
    <2>1. server = "auth" /\ replies = <<>> /\ NonePending
        BY <1>4, <1>6 DEF HandshakeInv
    <2>2. \/ server' = "signed" /\ replies' = Append(<<>>, "sign")
          \/ server' = "refused" /\ replies' = Append(<<>>, "error")
        BY <2>1 DEF ServerAnswers, ServerSays
    <2>3. OnePending'
        BY <1>1, <2>1, PendingReply
    <2> QED  BY <1>1, <1>3, <1>6, <2>2, <2>3 DEF HandshakeInv, OnlyAcceptedInUse, InUse
<1>7. CASE phase = "recvOK"
    <2>1. CASE server = "type"
        <3>1. replies = <<>>
            BY <1>7, <2>1 DEF HandshakeInv
        <3>2. \/ server' = "accepted" /\ replies' = Append(<<>>, "ok")
              \/ server' = "refused" /\ replies' = Append(<<>>, "error")
            BY <2>1, <3>1 DEF ServerAnswers, ServerSays
        <3>3. Append(<<>>, "ok") # <<>> /\ Head(Append(<<>>, "ok")) = "ok"
            OBVIOUS
        <3> QED  BY <1>1, <1>3, <1>7, <3>2, <3>3 DEF HandshakeInv, OnlyAcceptedInUse, InUse
    <2>2. CASE server = "accepted"
        <3>1. replies # <<>> /\ Head(replies) = "ok"
            BY <1>7, <2>2 DEF HandshakeInv
        <3>2. server' = "accepted" /\ replies' = Append(replies, "stray")
            BY <2>2 DEF ServerAnswers, ServerSays
        <3>3. replies' # <<>> /\ Head(replies') = "ok"
            BY <1>2, <3>1, <3>2
        <3> QED  BY <1>1, <1>3, <1>7, <3>2, <3>3 DEF HandshakeInv, OnlyAcceptedInUse, InUse
    <2> QED  BY <1>4, <1>7, <2>1, <2>2 DEF HandshakeInv
<1> QED  BY <1>5, <1>6, <1>7

LEMMA RecvReplyStep ==
    ASSUME TypeInv, HandshakeInv, RecvReply
    PROVE  HandshakeInv'
<1>1. /\ phase \in {"recvSign", "recvOK"}
      /\ controlCh # <<>> /\ controlCh' = Tail(controlCh)
      /\ replies' = Tail(replies) /\ phase' = AfterReply(Head(replies))
      /\ UNCHANGED <<inbound, batch, server>>
    BY DEF RecvReply, TakeControl, readVars, serverVars
<1>2. ~NonePending
    BY <1>1 DEF NonePending
<1>3. CASE replies # <<>> /\ Head(replies) = "error"
    <2>1. AfterReply("error") = "failed"
        BY DEF AfterReply
    <2>2. phase' = "failed"
        BY <1>1, <1>3, <2>1
    <2> QED  BY <1>1, <1>3, <2>2, HandshakeFails
<1>4. CASE phase = "recvSign" /\ server = "signed" /\ replies = <<"sign">> /\ OnePending
    <2>1. phase' = "sendType" /\ replies' = <<>> /\ server' = "signed"
        BY <1>1, <1>4 DEF AfterReply
    <2>2. Len(controlCh) = 1 /\ NoControl(batch) /\ NoneInbound
        BY <1>1, <1>4 DEF OnePending
    <2>3. controlCh' = <<>>
        <3>1. controlCh \in Seq(Frames)
            BY DEF TypeInv, ConnTypeOK
        <3>2. Tail(controlCh) \in Seq(Frames) /\ Len(Tail(controlCh)) = 0
            BY <1>1, <2>2, <3>1, HeadTailProperties
        <3> QED  BY <1>1, <3>2, EmptySeq
    <2>4. NonePending'
        BY <1>1, <2>2, <2>3 DEF NonePending, NoneInbound, NoControl
    <2> QED  BY <2>1, <2>4 DEF HandshakeInv, OnlyAcceptedInUse, InUse
<1>5. CASE phase = "recvOK" /\ server = "accepted" /\ replies # <<>> /\ Head(replies) = "ok"
    <2>1. phase' = "done" /\ server' = "accepted"
        BY <1>1, <1>5 DEF AfterReply
    <2>2. replies' \in Seq({"sign", "ok", "error", "stray"})
        BY <1>1, <1>5, HeadTailProperties DEF HandshakeInv
    <2> QED  BY <2>1, <2>2 DEF HandshakeInv, OnlyAcceptedInUse, InUse
<1>6. replies = <<"error">> => replies # <<>> /\ Head(replies) = "error"
    OBVIOUS
<1> QED  BY <1>1, <1>2, <1>3, <1>4, <1>5, <1>6 DEF HandshakeInv

LEMMA SendControlStep ==
    ASSUME HandshakeInv, phase \in {"sendAuth", "sendType"}, SendControl
    PROVE  HandshakeInv'
<1>1. /\ phase' = IF phase = "sendAuth" THEN "recvSign" ELSE "recvOK"
      /\ server' \in IF phase = "sendAuth" THEN {server, "auth"} ELSE {server, "type"}
      /\ UNCHANGED <<inbound, batch, controlCh, replies>>
    BY DEF SendControl, connVars, readVars, chanVars, serverVars
<1>2. NonePending'
    BY <1>1, PendingSame DEF HandshakeInv
<1>3. CASE phase = "sendAuth"
    BY <1>1, <1>2, <1>3 DEF HandshakeInv, OnlyAcceptedInUse, InUse
<1>4. CASE phase = "sendType"
    BY <1>1, <1>2, <1>4 DEF HandshakeInv, OnlyAcceptedInUse, InUse
<1> QED  BY <1>3, <1>4

LEMMA WriteReturnsKeeps ==
    ASSUME HandshakeInv, NEW w \in Writers, WriteReturns(w),
           w = "main" => phase \in {"sendAuth", "sendType"}
    PROVE  HandshakeInv'
<1>1. CASE w = "main" /\ SendControl
    BY <1>1, SendControlStep
<1>2. CASE w = "main" /\ SendControlFails
    <2>1. phase' = "failed" /\ replies' = replies
        BY <1>2 DEF SendControlFails
    <2> QED  BY <2>1, HandshakeFails
<1>3. CASE w = "keepAlive" /\ KeepAliveSend /\ UNCHANGED phaseVars
    <2>1. UNCHANGED <<inbound, batch, controlCh>>
        BY <1>3 DEF KeepAliveSend, readVars, chanVars, serverVars
    <2> QED  BY <1>3, <2>1, HandshakeElsewhere
<1>4. CASE /\ w \in Senders
           /\ WriteFails(w) \/ \E p \in Payloads : WriteFrame(w, p)
           /\ UNCHANGED phaseVars
    <2>1. UNCHANGED <<inbound, batch, controlCh>>
        BY <1>4 DEF WriteFails, WriteFrame, readVars, chanVars, serverVars
    <2> QED  BY <1>4, <2>1, HandshakeElsewhere
<1> QED  BY <1>1, <1>2, <1>3, <1>4 DEF WriteReturns

(* main holds the mutex only while it writes one of its two requests.      *)
MainWrites == mu = "main" => phase \in {"sendAuth", "sendType"}

LEMMA HandshakeInvStep ==
    TypeInv /\ HandshakeInv /\ MainWrites /\ [Next]_vars => HandshakeInv' /\ MainWrites'
<1> SUFFICES ASSUME TypeInv, HandshakeInv, MainWrites, [Next]_vars
             PROVE  HandshakeInv' /\ MainWrites'
    OBVIOUS
<1>1. CASE UNCHANGED vars
    BY <1>1, HandshakeElsewhere
    DEF vars, connVars, readVars, chanVars, serverVars, phaseVars, MainWrites
<1>2. CASE ServerAnswers
    BY <1>2, ServerAnswersStep DEF ServerAnswers, ServerSays, MainWrites
<1>3. CASE Network
    <2>1. CASE NetworkFailure
        <3>1. UNCHANGED <<inbound, batch, controlCh, phaseVars>>
            BY <1>3, <2>1 DEF Network, NetworkFailure, readVars, chanVars, serverVars
        <3> QED  BY <1>3, <3>1, HandshakeElsewhere DEF Network, MainWrites, phaseVars
    <2>2. ASSUME NEW n \in 1 .. MaxMessage, NEW ps \in [1 .. n -> Payloads],
                 ServerRegular(ps)
          PROVE  HandshakeInv'
        BY <1>3, <2>2, PendingRegular, HandshakeMoved DEF Network
    <2>3. MainWrites'
        BY <1>3 DEF Network, MainWrites, phaseVars
    <2> QED  BY <1>3, <2>1, <2>2, <2>3 DEF Network
<1>4. ASSUME NEW w \in Writers, Lock(w)  PROVE HandshakeInv' /\ MainWrites'
    <2>1. UNCHANGED <<inbound, batch, controlCh, phaseVars>>
        BY <1>4 DEF Lock, connVars, readVars, chanVars, serverVars
    <2>2. MainWrites'
        BY <1>4 DEF Lock, Wants, MainWrites, phaseVars
    <2> QED  BY <2>1, <2>2, HandshakeElsewhere
<1>5. ASSUME NEW w \in Writers, WriteReturns(w)  PROVE HandshakeInv' /\ MainWrites'
    <2>1. w = "main" => phase \in {"sendAuth", "sendType"}
        BY <1>5 DEF WriteReturns, MainWrites
    <2>2. MainWrites'
        BY <1>5 DEF WriteReturns, Unlock, MainWrites
    <2> QED  BY <1>5, <2>1, <2>2, WriteReturnsKeeps
<1>6. CASE RecvReply
    BY <1>6, RecvReplyStep DEF RecvReply, MainWrites
<1>7. CASE RecvClosed \/ RecvTimeout
    <2>1. phase' = "failed" /\ replies' = replies /\ mu # "main"
        BY <1>7 DEF RecvClosed, RecvTimeout, MainWrites
    <2> QED  BY <1>7, <2>1, HandshakeFails DEF RecvClosed, RecvTimeout, MainWrites
<1>8. CASE Stop
    BY <1>8 DEF Stop, HandshakeInv, OnlyAcceptedInUse, InUse, MainWrites
<1>9. CASE CloseConn
    <2>1. UNCHANGED <<inbound, batch, controlCh, phaseVars>>
        BY <1>9 DEF CloseConn, Close, readVars, chanVars, serverVars
    <2> QED  BY <1>9, <2>1, HandshakeElsewhere DEF CloseConn, MainWrites, phaseVars
<1>10. CASE Reader
    BY <1>10, PendingReader, HandshakeMoved DEF Reader, MainWrites, phaseVars
<1>11. CASE Ticker \/ Users
    <2>1. UNCHANGED <<inbound, batch, controlCh, mu, phaseVars>>
        BY <1>11 DEF Ticker, Users, KeepAliveTick, KeepAliveStop, BuildFrame, RecvRegular,
                     RecvEnd, readVars, chanVars, serverVars
    <2> QED  BY <2>1, HandshakeElsewhere DEF MainWrites, phaseVars
<1> QED
    BY <1>1, <1>2, <1>3, <1>4, <1>5, <1>6, <1>7, <1>8, <1>9, <1>10, <1>11
    DEF Next, RecvControl

(* Handshake succeeds only on a connection the server has accepted,        *)
(* whatever is lost, late, or ready at the same time (Handshake and        *)
(* RecvControl in conn.go).                                                *)
THEOREM OnlyAcceptedInUseHolds == Safety => []OnlyAcceptedInUse
<1>1. Init => TypeInv /\ HandshakeInv /\ MainWrites
    <2> SUFFICES ASSUME Init  PROVE TypeInv /\ HandshakeInv /\ MainWrites
        OBVIOUS
    <2>1. TypeInv
        BY TypeInit DEF Init
    <2>2. /\ inbound = <<>> /\ batch = <<>> /\ controlCh = <<>> /\ Len(inbound) = 0
          /\ phase = "sendAuth" /\ mu = "free" /\ server = "waiting" /\ replies = <<>>
        BY DEF Init, ConnInit
    <2>3. NonePending
        BY <2>2, NoControlInNone DEF NonePending, NoneInbound
    <2> QED  BY <2>1, <2>2, <2>3 DEF HandshakeInv, OnlyAcceptedInUse, InUse, MainWrites
<1>2. TypeInv /\ [Next]_vars => TypeInv'
    BY HandshakeStep, TypeStep
<1>3. HandshakeInv => OnlyAcceptedInUse
    BY DEF HandshakeInv
<1> QED  BY <1>1, <1>2, <1>3, HandshakeInvStep, PTL DEF Safety
=============================================================================
