--------------------------- MODULE IPCClientProofs ---------------------------
(***************************************************************************)
(* Calls and subscriptions of an IPCClient, however many there are and     *)
(* whatever the connection, the timers and the server do.                  *)
(***************************************************************************)
EXTENDS IPCClient, ConnProofs, FiniteSetTheorems

-----------------------------------------------------------------------------
(* The inductive invariant                                                 *)

Users == Calls \cup Subscriptions

Steps == {"idle", "start", "send", "sendError", "wait", "timeout", "done",
          "listening", "dispose"}

IPCTypes ==
    /\ nextID \in Nat
    /\ id \in [Users -> Nat]
    /\ pc \in [Users -> Steps]
    /\ handlers \in [IDs -> Calls \cup {NoOne}]
    /\ eventHandlers \in [IDs -> Subscriptions \cup {NoOne}]
    /\ ch \in [Calls -> {<<>>} \cup {<<m>> : m \in IPCPayloads}]
    /\ result \in [Calls -> Replies \cup {"none", "Timeout", "SendError"}]
    /\ dispatch \in {"recv", "handle", "deliver"}
    /\ replies \in [Calls -> SUBSET Replies]
    /\ tasks \cup handled \cup fired \subseteq Events

(* Every id was drawn once, and there are as many as were asked for.       *)
Started == {x \in Users : pc[x] # "idle"}

Fresh ==
    /\ nextID = Cardinality(Started)
    /\ \A x \in Users : id[x] <= nextID /\ (id[x] = 0 <=> pc[x] = "idle")
    /\ \A x, y \in Users : id[x] = id[y] /\ id[x] # 0 => x = y

(* The request of a call has left; the subscription has.                   *)
Answerable(c) == pc[c] \in {"wait", "timeout"} \/ (pc[c] = "done" /\ result[c] # "SendError")
Listened(s)   == pc[s] \in {"listening", "dispose", "done"}

(* What the server has read was sent, and what it says it says to those    *)
(* that have asked.                                                        *)
Asked(m) ==
    /\ m.type = "Promise"     => m.id = id[m.who] /\ Answerable(m.who)
    /\ m.type = "EventListen" => m.id = id[m.who] /\ Listened(m.who)

ServerInv ==
    /\ \A m \in IPCPayloads : Received(m) => Asked(m)
    /\ \A c \in Calls : replies[c] # {} => Answerable(c)
    /\ \A e \in fired : e.event \in 1 .. serverID /\ Listened(e.sub)

(* A frame on its way: an answer is one that the server gave, to the call  *)
(* that has the id; an event is the one that was fired under its number.   *)
Within(f, s) == \E j \in 1 .. Len(s) : s[j] = f

OnItsWay(f) ==
    \/ \E m \in 1 .. Len(inbound) : Within(f, inbound[m])
    \/ Within(f, batch)
    \/ Within(f, regularCh)
    \/ f = current /\ dispatch # "recv"

Honest(f) ==
    f.Type = "Regular" =>
        /\ f.ID <= serverID
        /\ f.Payload.type \in Replies =>
              f.Payload.id = id[f.Payload.who] /\ f.Payload.type \in replies[f.Payload.who]
        /\ f.Payload.type = "EventFire" => f.Payload.id = id[f.Payload.who]
        /\ \A e \in fired :
              e.event = f.ID => f.Payload.type = "EventFire" /\ f.Payload.who = e.sub

FramesInv ==
    /\ \A f \in Frames : OnItsWay(f) => Honest(f)
    /\ dispatch = "recv" => current = NoFrame
    /\ dispatch # "recv" => current \in Frames /\ current.Type = "Regular"

(* The channel of a call is in one place: in the table under its id, with  *)
(* dispatchLoop, or it has got its answer.                                 *)
Taken(c) == dispatch = "deliver" /\ target = c

TableInv ==
    /\ \A i \in IDs : \A c \in Calls :
          handlers[i] = c => /\ id[c] = i /\ pc[c] \in {"send", "sendError", "wait", "timeout"}
                             /\ ch[c] = <<>> /\ ~Taken(c)
    /\ \A c \in Calls : pc[c] \in {"send", "sendError"} => handlers[id[c]] = c
    /\ WaitingIsReachable
    /\ dispatch = "deliver" => /\ target \in Calls /\ ch[target] = <<>>
                               /\ current.Payload.type \in Replies
                               /\ current.Payload.who = target
    /\ \A c \in Calls : ch[c] # <<>> => ch[c][1].type \in replies[c]

EventsInv ==
    /\ \A s \in Subscriptions :
          pc[s] \in {"send", "sendError", "listening"} => eventHandlers[id[s]] = s
    /\ NoEventMissed

Unreturned == \A c \in Calls : pc[c] # "done" => result[c] = "none"

IPCInv ==
    /\ IPCTypes /\ Fresh /\ ServerInv /\ FramesInv /\ TableInv /\ EventsInv
    /\ Unreturned

-----------------------------------------------------------------------------
(* Ids and payloads                                                        *)

LEMMA UsersFinite ==
    /\ IsFiniteSet(Users)
    /\ Cardinality(Users) \in Nat
    /\ IDs = 1 .. Cardinality(Users)
<1>1. /\ IsFiniteSet(Calls) /\ IsFiniteSet(Subscriptions)
      /\ Calls \cap Subscriptions = {}
    BY IPCAssumption
<1>2. /\ IsFiniteSet(Users)
      /\ Cardinality(Users)
            = Cardinality(Calls) + Cardinality(Subscriptions) - Cardinality({})
    BY <1>1, FS_Union DEF Users
<1>3. Cardinality({}) = 0 /\ Cardinality(Calls) \in Nat /\ Cardinality(Subscriptions) \in Nat
    BY <1>1, FS_EmptySet, FS_CardinalityType
<1>4. Cardinality(Users) = Cardinality(Calls) + Cardinality(Subscriptions)
    BY <1>2, <1>3
<1> QED  BY <1>2, <1>3, <1>4 DEF IDs

LEMMA StartedFinite ==
    IsFiniteSet(Started) /\ Cardinality(Started) <= Cardinality(Users)
BY UsersFinite, FS_Subset DEF Started

(* Whoever has an id has one of the table.                                 *)
LEMMA IDInTable ==
    ASSUME IPCTypes, Fresh, NEW x \in Users, pc[x] # "idle"
    PROVE  id[x] \in IDs
<1>1. id[x] \in Nat /\ id[x] # 0 /\ id[x] <= nextID /\ nextID \in Nat
    BY DEF IPCTypes, Fresh
<1>2. nextID <= Cardinality(Users)
    BY StartedFinite DEF Fresh
<1> QED  BY <1>1, <1>2, UsersFinite

LEMMA UserKinds ==
    /\ \A c \in Calls : c \in Users /\ c \notin Subscriptions /\ c # NoOne /\ c \in Senders
    /\ \A s \in Subscriptions : s \in Users /\ s \notin Calls /\ s # NoOne /\ s \in Senders
    /\ NoOne \notin Users /\ Main \in Senders
BY IPCAssumption DEF Users

LEMMA PayloadKinds ==
    ASSUME NEW m \in IPCPayloads
    PROVE  /\ m.type \in Replies \cup {"Promise"} => m.id \in IDs /\ m.who \in Calls
           /\ m.type \in {"EventListen", "EventDispose", "EventFire"} =>
                 m.id \in IDs /\ m.who \in Subscriptions
           /\ m.type \in {"Context", "Initialize", "Unreadable", "Promise", "EventListen",
                          "EventDispose", "EventFire"} \cup Replies
BY DEF IPCPayloads, Replies

LEMMA PayloadOf ==
    /\ Message("Context", 0, NoOne) \in Payloads
    /\ Message("Initialize", 0, NoOne) \in Payloads
    /\ Message("Unreadable", 0, NoOne) \in Payloads
    /\ \A i \in IDs : \A c \in Calls :
          /\ Message("Promise", i, c) \in Payloads
          /\ \A type \in Replies : Message(type, i, c) \in Payloads
    /\ \A i \in IDs : \A s \in Subscriptions :
          \A type \in {"EventListen", "EventDispose", "EventFire"} :
              Message(type, i, s) \in Payloads
BY IPCAssumption DEF Message, IPCPayloads, Replies

(* The steps of everything above the connection are steps of its users,    *)
(* consumer and server.                                                    *)
LEMMA OneFrame ==
    ASSUME NEW m \in Payloads, ServerRegular(<<m>>)
    PROVE  ServerWrites
<1>1. 1 \in 1 .. MaxMessage
    BY IPCAssumption, ConnAssumption
<1>2. <<m>> \in [1 .. 1 -> Payloads]
    OBVIOUS
<1> QED  BY <1>1, <1>2 DEF ServerWrites

LEMMA ConnStep == IPCTypes /\ Fresh /\ [Next]_vars => [ConnNext]_connVars
<1> SUFFICES ASSUME IPCTypes, Fresh, [Next]_vars
             PROVE  ConnNext \/ UNCHANGED connVars
    OBVIOUS
<1>1. CASE Server
    <2>1. CASE ServerInitialize \/ ServerUnreadable
        BY <2>1, PayloadOf, OneFrame DEF ServerInitialize, ServerUnreadable, ConnNext
    <2>2. ASSUME NEW c \in Calls, NEW type \in Replies, ServerReply(c, type)
          PROVE  ConnNext
        BY <2>2, PayloadOf, OneFrame DEF ServerReply, ConnNext
    <2>3. ASSUME NEW s \in Subscriptions, ServerFire(s)
          PROVE  ConnNext
        BY <2>3, PayloadOf, OneFrame DEF ServerFire, ConnNext
    <2> QED  BY <1>1, <2>1, <2>2, <2>3 DEF Server
<1>2. CASE Connection
    BY <1>2 DEF Connection, ConnNext
<1>3. CASE Boot
    BY <1>3, PayloadOf, UserKinds
    DEF Boot, BootBuild, BootSend, BootReady, BootTimeout, ConnNext, Send
<1>4. ASSUME NEW c \in Calls, CallStart(c) \/ Proceed(c)
      PROVE  ConnNext \/ UNCHANGED connVars
    <2>1. CASE CallSend(c)
        <3>1. Message("Promise", id[c], c) \in Payloads
            BY <2>1, PayloadOf, IDInTable, UserKinds DEF CallSend
        <3> QED  BY <2>1, <3>1, UserKinds DEF CallSend, ConnNext, Send
    <2>2. CASE CallBuild(c) \/ CallSendFails(c)
        BY <2>2, UserKinds DEF CallBuild, CallSendFails, ConnNext, Send
    <2> QED  BY <1>4, <2>1, <2>2
             DEF CallStart, Proceed, CallRegister, CallReceive, CallTimeout, CallGiveUp
<1>5. ASSUME NEW s \in Subscriptions, Subscribe(s)
      PROVE  ConnNext \/ UNCHANGED connVars
    <2>1. CASE ListenSend(s) \/ DisposeSend(s)
        <3>1. id[s] \in IDs
            BY <2>1, IDInTable, UserKinds DEF ListenSend, DisposeSend
        <3>2. /\ Message("EventListen", id[s], s) \in Payloads
              /\ Message("EventDispose", id[s], s) \in Payloads
            BY <3>1, PayloadOf
        <3> QED  BY <2>1, <3>2, UserKinds DEF ListenSend, DisposeSend, ConnNext, Send
    <2>2. CASE ListenBuild(s)
        BY <2>2, UserKinds DEF ListenBuild, ConnNext, Send
    <2> QED  BY <1>5, <2>1, <2>2 DEF Subscribe, ListenStart, ListenRegister, ListenDrop
<1>6. CASE Dispatch
    BY <1>6
    DEF Dispatch, DispatchRecv, DispatchSkip, DispatchInitialize, DispatchReply,
        DispatchDeliver, DispatchEvent, DispatchEnd, ConnNext
<1>7. ASSUME NEW t \in tasks, RunHandler(t)  PROVE UNCHANGED connVars
    BY <1>7 DEF RunHandler
<1>8. CASE UNCHANGED vars
    BY <1>8 DEF vars
<1> QED  BY <1>1, <1>2, <1>3, <1>4, <1>5, <1>6, <1>7, <1>8 DEF Next


-----------------------------------------------------------------------------
(* Types and ids                                                           *)

LEMMA IPCInit == Init => IPCInv
<1> SUFFICES ASSUME Init  PROVE IPCInv
    OBVIOUS
<1>1. Started = {}
    BY DEF Init, Started, Users
<1>2. IPCTypes
    BY DEF Init, IPCTypes, Steps, Users
<1>3. Fresh
    BY <1>1, FS_EmptySet DEF Init, Fresh, Users
<1>4. ServerInv
    BY DEF Init, ConnInit, ServerInv, Received
<1>5. FramesInv
    BY DEF Init, ConnInit, FramesInv, OnItsWay, Within
<1>6. TableInv
    BY IPCAssumption DEF Init, TableInv, WaitingIsReachable, Taken, Users
<1>7. EventsInv
    BY DEF Init, EventsInv, NoEventMissed, Users
<1>8. Unreturned
    BY DEF Init, Unreturned
<1> QED  BY <1>2, <1>3, <1>4, <1>5, <1>6, <1>7, <1>8 DEF IPCInv

LEMMA FreshSame ==
    ASSUME Fresh, UNCHANGED <<nextID, id>>, IPCTypes,
           \A x \in Users : (pc'[x] = "idle") <=> (pc[x] = "idle")
    PROVE  Fresh'
<1>1. Started' = Started
    BY DEF Started
<1> QED  BY <1>1 DEF Fresh

LEMMA FreshTake ==
    ASSUME IPCTypes, Fresh, NEW x \in Users, pc[x] = "idle", TakeID(x), Goto(x, "start")
    PROVE  Fresh'
<1>1. x \notin Started /\ Started' = Started \cup {x}
    BY DEF Started, Goto, IPCTypes
<1>2. Cardinality(Started') = Cardinality(Started) + 1
    BY <1>1, StartedFinite, FS_AddElement
<1>3. nextID' = Cardinality(Started')
    BY <1>2 DEF Fresh, TakeID
<1>4. /\ nextID \in Nat /\ id[x] = 0 /\ id'[x] = nextID + 1 /\ nextID' = nextID + 1
      /\ pc'[x] = "start"
      /\ \A y \in Users \ {x} : id'[y] = id[y] /\ pc'[y] = pc[y]
      /\ \A y \in Users : id[y] \in Nat /\ id[y] <= nextID
    BY DEF IPCTypes, Fresh, TakeID, Goto
<1>5. \A y \in Users : id'[y] <= nextID' /\ (id'[y] = 0 <=> pc'[y] = "idle")
    BY <1>4 DEF Fresh
<1>6. \A y, z \in Users : id'[y] = id'[z] /\ id'[y] # 0 => y = z
    BY <1>4 DEF Fresh
<1> QED  BY <1>3, <1>5, <1>6 DEF Fresh

(* What dispatchLoop knows of the frame it handles.                        *)
LEMMA CurrentKnown ==
    ASSUME IPCInv, dispatch # "recv"
    PROVE  /\ current.ID \in Nat /\ current.Payload \in IPCPayloads
           /\ current.Payload.type \in Replies =>
                 /\ current.Payload.id \in IDs /\ current.Payload.who \in Calls
                 /\ current.Payload.id = id[current.Payload.who]
                 /\ current.Payload.type \in replies[current.Payload.who]
           /\ current.Payload.type = "EventFire" => current.Payload.id \in IDs
           /\ \A e \in fired : e.event = current.ID =>
                 /\ current.Payload.type = "EventFire" /\ current.Payload.who = e.sub
                 /\ current.Payload.id = id[e.sub]
<1>1. current \in Frames /\ current.Type = "Regular" /\ Honest(current)
    BY DEF IPCInv, FramesInv, OnItsWay
<1>2. current.ID \in Nat /\ current.Payload \in IPCPayloads
    BY <1>1, IPCAssumption DEF Frames, BareTypes
<1>3. /\ current.Payload.type \in Replies =>
             current.Payload.id \in IDs /\ current.Payload.who \in Calls
      /\ current.Payload.type = "EventFire" => current.Payload.id \in IDs
    BY <1>2, PayloadKinds
<1> QED  BY <1>1, <1>2, <1>3 DEF Honest

LEMMA TypesServer ==
    ASSUME TypeInv, IPCTypes, Server
    PROVE  IPCTypes'
<1>1. ASSUME NEW c \in Calls, NEW type \in Replies, ServerReply(c, type)
      PROVE  IPCTypes'
    BY <1>1
    DEF IPCTypes, ServerReply, callVars, tableVars, dispatchVars, eventVars
<1>2. ASSUME NEW s \in Subscriptions, ServerFire(s)
      PROVE  IPCTypes'
    <2>1. serverID' \in Nat
        BY <1>2 DEF ServerFire, ServerRegular, TypeInv, ConnTypeOK
    <2>2. [sub |-> s, event |-> serverID'] \in Events
        BY <2>1 DEF Events
    <2> QED  BY <1>2, <2>2
             DEF IPCTypes, ServerFire, callVars, tableVars, dispatchVars, eventVars
<1>3. CASE UNCHANGED ipcVars
    BY <1>3
    DEF IPCTypes, ipcVars, callVars, tableVars, dispatchVars, eventVars, worldVars
<1> QED  BY <1>1, <1>2, <1>3 DEF Server, ServerInitialize, ServerUnreadable

LEMMA TypesCall ==
    ASSUME IPCInv, NEW c \in Calls, CallStart(c) \/ Proceed(c)
    PROVE  IPCTypes'
<1> USE DEF IPCTypes, Steps, Goto
<1>1. IPCTypes /\ c \in Users
    BY UserKinds DEF IPCInv
<1>2. CASE CallStart(c)
    BY <1>1, <1>2 DEF CallStart, TakeID, dispatchVars, eventVars, worldVars
<1>3. CASE CallRegister(c)
    BY <1>1, <1>3 DEF CallRegister, dispatchVars, eventVars, worldVars
<1>4. CASE CallBuild(c)
    BY <1>1, <1>4
    DEF CallBuild, ipcVars, callVars, tableVars, dispatchVars, eventVars, worldVars
<1>5. CASE CallSend(c) \/ CallSendFails(c) \/ CallTimeout(c)
    BY <1>1, <1>5
    DEF CallSend, CallSendFails, CallTimeout, tableVars, dispatchVars, eventVars, worldVars
<1>6. CASE CallReceive(c)
    <2>1. PICK m \in IPCPayloads : ch[c] = <<m>>
        BY <1>1, <1>6 DEF CallReceive
    <2>2. Head(ch[c]) = ch[c][1] /\ Tail(ch[c]) = <<>>
        BY <2>1
    <2>3. Head(ch[c]).type \in Replies
        BY <1>1, <1>6, <2>2 DEF CallReceive, IPCInv, TableInv
    <2> QED  BY <1>1, <1>6, <2>2, <2>3
             DEF CallReceive, tableVars, dispatchVars, eventVars, worldVars
<1>7. CASE CallGiveUp(c)
    BY <1>1, <1>7 DEF CallGiveUp, DropHandler, dispatchVars, eventVars, worldVars
<1> QED  BY <1>2, <1>3, <1>4, <1>5, <1>6, <1>7 DEF Proceed

LEMMA TypesSubscribe ==
    ASSUME IPCInv, NEW s \in Subscriptions, Subscribe(s)
    PROVE  IPCTypes'
<1> USE DEF IPCTypes, Steps, Goto
<1>1. IPCTypes /\ s \in Users
    BY UserKinds DEF IPCInv
<1>2. CASE ListenStart(s)
    BY <1>1, <1>2 DEF ListenStart, TakeID, dispatchVars, eventVars, worldVars
<1>3. CASE ListenRegister(s)
    BY <1>1, <1>3 DEF ListenRegister, dispatchVars, eventVars, worldVars
<1>4. CASE ListenBuild(s)
    BY <1>1, <1>4
    DEF ListenBuild, ipcVars, callVars, tableVars, dispatchVars, eventVars, worldVars
<1>5. CASE ListenSend(s) \/ DisposeSend(s)
    BY <1>1, <1>5
    DEF ListenSend, DisposeSend, tableVars, dispatchVars, eventVars, worldVars
<1>6. CASE ListenDrop(s)
    BY <1>1, <1>6 DEF ListenDrop, dispatchVars, eventVars, worldVars
<1> QED  BY <1>2, <1>3, <1>4, <1>5, <1>6 DEF Subscribe

LEMMA TypesDispatch ==
    ASSUME IPCInv, Dispatch
    PROVE  IPCTypes'
<1> USE DEF IPCTypes
<1>1. IPCTypes
    BY DEF IPCInv
<1>2. CASE DispatchRecv \/ DispatchSkip \/ DispatchInitialize
    BY <1>1, <1>2
    DEF DispatchRecv, DispatchSkip, DispatchInitialize, DispatchNext, callVars,
        tableVars, eventVars, worldVars
<1>3. CASE DispatchReply
    BY <1>1, <1>3, IPCAssumption
    DEF DispatchReply, LookupHandler, callVars, eventVars, worldVars
<1>4. CASE DispatchDeliver
    <2>1. current.Payload \in IPCPayloads
        BY <1>4, CurrentKnown DEF DispatchDeliver
    <2> QED  BY <1>1, <1>4, <2>1
             DEF DispatchDeliver, DispatchNext, tableVars, eventVars, worldVars
<1>5. CASE DispatchEvent
    <2>1. current.ID \in Nat /\ current.Payload.id \in IDs
        BY <1>5, CurrentKnown DEF DispatchEvent
    <2>2. eventHandlers[current.Payload.id] # NoOne =>
             [sub |-> eventHandlers[current.Payload.id], event |-> current.ID] \in Events
        BY <1>1, <2>1 DEF Events
    <2>3. tasks' \subseteq Events
        BY <1>1, <1>5, <2>2 DEF DispatchEvent
    <2> QED  BY <1>1, <1>5, <2>3
             DEF DispatchEvent, DispatchNext, callVars, tableVars, worldVars
<1>6. CASE DispatchEnd
    BY <1>1, <1>6
    DEF DispatchEnd, ipcVars, callVars, tableVars, dispatchVars, eventVars, worldVars
<1> QED  BY <1>2, <1>3, <1>4, <1>5, <1>6 DEF Dispatch

LEMMA TypesStep ==
    ASSUME TypeInv, IPCInv, [Next]_vars
    PROVE  IPCTypes'
<1>1. IPCTypes
    BY DEF IPCInv
<1>2. CASE Connection \/ UNCHANGED vars
    BY <1>1, <1>2
    DEF IPCTypes, Connection, vars, ipcVars, callVars, tableVars, dispatchVars,
        eventVars, worldVars
<1>3. CASE Boot
    BY <1>1, <1>3
    DEF IPCTypes, Boot, BootBuild, BootSend, BootReady, BootTimeout, ipcVars, callVars,
        tableVars, dispatchVars, eventVars, worldVars
<1>4. ASSUME NEW t \in tasks, RunHandler(t)  PROVE IPCTypes'
    BY <1>1, <1>4
    DEF IPCTypes, RunHandler, callVars, tableVars, dispatchVars, worldVars
<1> QED
    BY <1>1, <1>2, <1>3, <1>4, TypesServer, TypesCall, TypesSubscribe, TypesDispatch
    DEF Next

LEMMA FreshStep ==
    ASSUME IPCInv, [Next]_vars
    PROVE  Fresh'
<1>1. IPCTypes /\ Fresh
    BY DEF IPCInv
<1>2. ASSUME NEW c \in Calls, CallStart(c)  PROVE Fresh'
    BY <1>1, <1>2, FreshTake, UserKinds DEF CallStart
<1>3. ASSUME NEW s \in Subscriptions, ListenStart(s)  PROVE Fresh'
    BY <1>1, <1>3, FreshTake, UserKinds DEF ListenStart
<1>4. ASSUME NEW c \in Calls, Proceed(c)  PROVE Fresh'
    <2>1. UNCHANGED <<nextID, id>>
          /\ \A x \in Users : (pc'[x] = "idle") <=> (pc[x] = "idle")
        BY <1>1, <1>4
        DEF Proceed, CallRegister, CallBuild, CallSend, CallSendFails, CallReceive,
            CallTimeout, CallGiveUp, Goto, IPCTypes, ipcVars, callVars, tableVars
    <2> QED  BY <1>1, <2>1, FreshSame
<1>5. ASSUME NEW s \in Subscriptions, Subscribe(s), ~ListenStart(s)  PROVE Fresh'
    <2>1. UNCHANGED <<nextID, id>>
          /\ \A x \in Users : (pc'[x] = "idle") <=> (pc[x] = "idle")
        BY <1>1, <1>5
        DEF Subscribe, ListenRegister, ListenBuild, ListenSend, ListenDrop, DisposeSend,
            Goto, IPCTypes, ipcVars, callVars, tableVars
    <2> QED  BY <1>1, <2>1, FreshSame
<1>6. CASE UNCHANGED <<nextID, id, pc>>
    BY <1>1, <1>6, FreshSame
<1>7. \/ UNCHANGED <<nextID, id, pc>>
      \/ \E c \in Calls : CallStart(c) \/ Proceed(c)
      \/ \E s \in Subscriptions : Subscribe(s)
    BY DEF Next, Server, ServerInitialize, ServerUnreadable, ServerReply, ServerFire,
           Connection, Boot, BootBuild, BootSend, BootReady, BootTimeout, Dispatch,
           DispatchRecv, DispatchSkip, DispatchInitialize, DispatchReply,
           DispatchDeliver, DispatchEvent, DispatchEnd, RunHandler, vars, ipcVars,
           callVars, tableVars
<1> QED  BY <1>2, <1>3, <1>4, <1>5, <1>6, <1>7

LEMMA UnreturnedStep ==
    ASSUME IPCInv, [Next]_vars
    PROVE  Unreturned'
<1>1. /\ pc \in [Users -> Steps] /\ Unreturned
      /\ result \in [Calls -> Replies \cup {"none", "Timeout", "SendError"}]
      /\ \A c \in Calls : c \in Users /\ c \notin Subscriptions
    BY UserKinds DEF IPCInv, IPCTypes
<1>2. ASSUME NEW c \in Calls, CallStart(c) \/ Proceed(c)
      PROVE  Unreturned'
    BY <1>1, <1>2
    DEF CallStart, Proceed, CallRegister, CallBuild, CallSend, CallSendFails, CallReceive,
        CallTimeout, CallGiveUp, Goto, Unreturned, ipcVars, callVars
<1>3. ASSUME NEW s \in Subscriptions, Subscribe(s)
      PROVE  Unreturned'
    BY <1>1, <1>3
    DEF Subscribe, ListenStart, ListenRegister, ListenBuild, ListenSend, ListenDrop,
        DisposeSend, Goto, Unreturned, ipcVars, callVars
<1>4. \/ UNCHANGED <<pc, result>>
      \/ \E c \in Calls : CallStart(c) \/ Proceed(c)
      \/ \E s \in Subscriptions : Subscribe(s)
    BY DEF Next, Server, ServerInitialize, ServerUnreadable, ServerReply, ServerFire,
           Connection, Boot, BootBuild, BootSend, BootReady, BootTimeout, Dispatch,
           DispatchRecv, DispatchSkip, DispatchInitialize, DispatchReply,
           DispatchDeliver, DispatchEvent, DispatchEnd, RunHandler, vars, ipcVars,
           callVars
<1> QED  BY <1>1, <1>2, <1>3, <1>4 DEF Unreturned

-----------------------------------------------------------------------------
(* The server                                                              *)

(* Who has asked has asked for good, and under the same id.                *)
Onward ==
    /\ \A x \in Users : pc[x] # "idle" => id'[x] = id[x]
    /\ \A c \in Calls : Answerable(c) => Answerable(c)'
    /\ \A s \in Subscriptions : Listened(s) => Listened(s)'

LEMMA OnwardStep ==
    ASSUME IPCInv, [Next]_vars
    PROVE  Onward
<1> USE DEF Onward, Answerable, Listened
<1>1. IPCTypes /\ Fresh /\ (\A c \in Calls : c \in Users /\ c \notin Subscriptions)
      /\ \A s \in Subscriptions : s \in Users /\ s \notin Calls
    BY UserKinds DEF IPCInv
<1>2. ASSUME NEW c \in Calls, CallStart(c)  PROVE Onward
    BY <1>1, <1>2 DEF CallStart, TakeID, Goto, IPCTypes
<1>3. ASSUME NEW s \in Subscriptions, ListenStart(s)  PROVE Onward
    BY <1>1, <1>3 DEF ListenStart, TakeID, Goto, IPCTypes
<1>4. ASSUME NEW c \in Calls, Proceed(c)  PROVE Onward
    <2>1. CASE \/ CallRegister(c) \/ CallBuild(c) \/ CallSend(c) \/ CallSendFails(c)
               \/ CallTimeout(c)
        BY <1>1, <2>1
        DEF CallRegister, CallBuild, CallSend, CallSendFails, CallTimeout, Goto,
            IPCTypes, ipcVars, callVars
    <2>2. CASE CallReceive(c)
        <3>1. Head(ch[c]).type \in Replies
            BY <2>2 DEF CallReceive, IPCInv, IPCTypes, TableInv
        <3> QED  BY <1>1, <2>2, <3>1 DEF CallReceive, Goto, IPCTypes, Replies
    <2>3. CASE CallGiveUp(c)
        BY <1>1, <2>3 DEF CallGiveUp, Goto, IPCTypes
    <2> QED  BY <1>4, <2>1, <2>2, <2>3 DEF Proceed
<1>5. ASSUME NEW s \in Subscriptions, Subscribe(s), ~ListenStart(s)  PROVE Onward
    BY <1>1, <1>5
    DEF Subscribe, ListenRegister, ListenBuild, ListenSend, ListenDrop, DisposeSend,
        Goto, IPCTypes, ipcVars, callVars
<1>6. CASE UNCHANGED <<id, pc, result>>
    BY <1>6
<1>7. \/ UNCHANGED <<id, pc, result>>
      \/ \E c \in Calls : CallStart(c) \/ Proceed(c)
      \/ \E s \in Subscriptions : Subscribe(s)
    BY DEF Next, Server, ServerInitialize, ServerUnreadable, ServerReply, ServerFire,
           Connection, Boot, BootBuild, BootSend, BootReady, BootTimeout, Dispatch,
           DispatchRecv, DispatchSkip, DispatchInitialize, DispatchReply,
           DispatchDeliver, DispatchEvent, DispatchEnd, RunHandler, vars, ipcVars,
           callVars
<1> QED  BY <1>2, <1>3, <1>4, <1>5, <1>6, <1>7

LEMMA AskedKept ==
    ASSUME IPCInv, Onward, NEW m \in IPCPayloads, Asked(m)
    PROVE  Asked(m)'
<1>1. /\ m.type = "Promise" => m.who \in Calls
      /\ m.type = "EventListen" => m.who \in Subscriptions
    BY PayloadKinds
<1>2. /\ m.type = "Promise" => m.id = id[m.who] /\ Answerable(m.who)
      /\ m.type = "EventListen" => m.id = id[m.who] /\ Listened(m.who)
    BY DEF Asked
<1>3. /\ m.type = "Promise" => id'[m.who] = id[m.who] /\ Answerable(m.who)'
      /\ m.type = "EventListen" => id'[m.who] = id[m.who] /\ Listened(m.who)'
    BY <1>1, <1>2, UserKinds DEF Onward, Answerable, Listened
<1> QED  BY <1>2, <1>3 DEF Asked

LEMMA ServerRest ==
    ASSUME IPCInv, Onward, UNCHANGED <<replies, fired, serverID>>
    PROVE  /\ \A c \in Calls : replies'[c] # {} => Answerable(c)'
           /\ \A e \in fired' : e.event \in 1 .. serverID' /\ Listened(e.sub)'
<1>1. \A e \in fired : e.sub \in Subscriptions
    BY DEF IPCInv, IPCTypes, Events
<1> QED  BY <1>1 DEF IPCInv, ServerInv, Onward

LEMMA ServerWritten ==
    ASSUME TypeInv, IPCInv, Onward, NEW s \in Senders, NEW p \in IPCPayloads,
           WriteFrame(s, p), Asked(p)'
    PROVE  \A m \in IPCPayloads : Received(m)' => Asked(m)'
<1>1. /\ outbound \in Seq([ID : Nat, Payload : Payloads])
      /\ [ID |-> frame[s], Payload |-> p] \in [ID : Nat, Payload : Payloads]
    BY IPCAssumption DEF TypeInv, ConnTypeOK
<1>2. TAKE m \in IPCPayloads
<1>3. Received(m)' => Received(m) \/ m = p
    <2>1. CASE outbound' = outbound
        BY <2>1 DEF Received
    <2>2. CASE outbound' = Append(outbound, [ID |-> frame[s], Payload |-> p])
        <3>1. /\ Len(outbound') = Len(outbound) + 1 /\ Len(outbound) \in Nat
              /\ \A i \in 1 .. Len(outbound) : outbound'[i] = outbound[i]
              /\ outbound'[Len(outbound) + 1] = [ID |-> frame[s], Payload |-> p]
              /\ DOMAIN outbound' = 1 .. Len(outbound') /\ DOMAIN outbound = 1 .. Len(outbound)
            BY <1>1, <2>2, AppendProperties
        <3>2. \A i \in DOMAIN outbound' : i \in DOMAIN outbound \/ i = Len(outbound) + 1
            BY <3>1
        <3> QED  BY <3>1, <3>2 DEF Received
    <2> QED  BY <2>1, <2>2 DEF WriteFrame
<1>4. Received(m) => Asked(m)'
    BY AskedKept DEF IPCInv, ServerInv
<1> QED  BY <1>3, <1>4

LEMMA ServerStep ==
    ASSUME TypeInv, IPCInv, [Next]_vars
    PROVE  ServerInv'
<1>1. Onward
    BY OnwardStep
<1>2. ASSUME UNCHANGED outbound
      PROVE  \A m \in IPCPayloads : Received(m)' => Asked(m)'
    BY <1>1, <1>2, AskedKept DEF IPCInv, ServerInv, Received
<1>3. CASE UNCHANGED <<outbound, replies, fired, serverID>>
    BY <1>1, <1>2, <1>3, ServerRest DEF ServerInv
<1>4. ASSUME NEW s \in Senders, NEW p \in IPCPayloads, WriteFrame(s, p), Asked(p)',
             UNCHANGED <<replies, fired>>
      PROVE  ServerInv'
    BY <1>1, <1>4, ServerWritten, ServerRest DEF ServerInv, WriteFrame, serverVars
<1>5. ASSUME NEW c \in Calls, NEW type \in Replies, ServerReply(c, type)
      PROVE  ServerInv'
    <2>1. UNCHANGED <<outbound, pc, result, fired>>
        BY <1>5 DEF ServerReply, ServerRegular, sendVars, callVars
    <2>2. Answerable(c)
        <3>1. PICK i \in IDs : Received(Message("Promise", i, c))
            BY <1>5 DEF ServerReply
        <3>2. Message("Promise", i, c) \in IPCPayloads
            BY PayloadOf, IPCAssumption
        <3> QED  BY <3>1, <3>2 DEF IPCInv, ServerInv, Asked, Message
    <2>3. \A d \in Calls : replies'[d] # {} => Answerable(d)'
        <3>1. \A d \in Calls \ {c} : replies'[d] = replies[d]
            BY <1>5 DEF ServerReply, IPCInv, IPCTypes
        <3> QED  BY <2>1, <2>2, <3>1 DEF IPCInv, ServerInv, Answerable
    <2>4. serverID' >= serverID /\ serverID \in Nat /\ serverID' \in Nat
        BY <1>5 DEF ServerReply, ServerRegular, TypeInv, ConnTypeOK
    <2>5. \A e \in fired' : e.event \in 1 .. serverID' /\ Listened(e.sub)'
        BY <2>1, <2>4 DEF IPCInv, ServerInv, Listened
    <2> QED  BY <1>2, <2>1, <2>3, <2>5 DEF ServerInv
<1>6. ASSUME NEW s \in Subscriptions, ServerFire(s)
      PROVE  ServerInv'
    <2>1. UNCHANGED <<outbound, pc, result, replies>>
        BY <1>6 DEF ServerFire, ServerRegular, sendVars, callVars
    <2>2. Listened(s)
        <3>1. PICK i \in IDs : Received(Message("EventListen", i, s))
            BY <1>6 DEF ServerFire
        <3>2. Message("EventListen", i, s) \in IPCPayloads
            BY PayloadOf, IPCAssumption
        <3> QED  BY <3>1, <3>2 DEF IPCInv, ServerInv, Asked, Message
    <2>3. serverID' = serverID + 1 /\ serverID \in Nat
        BY <1>6 DEF ServerFire, ServerRegular, TypeInv, ConnTypeOK
    <2>4. \A e \in fired' : e.event \in 1 .. serverID' /\ Listened(e.sub)'
        BY <1>6, <2>1, <2>2, <2>3 DEF IPCInv, ServerInv, Listened, ServerFire
    <2> QED  BY <1>2, <2>1, <2>4 DEF ServerInv, IPCInv, Answerable
<1>7. CASE ServerInitialize \/ ServerUnreadable
    <2>1. serverID' >= serverID /\ serverID \in Nat /\ serverID' \in Nat
          /\ UNCHANGED <<outbound, pc, result, replies, fired>>
        BY <1>7 DEF ServerInitialize, ServerUnreadable, ServerRegular, TypeInv, ConnTypeOK,
                    sendVars, ipcVars, callVars, worldVars
    <2> QED  BY <1>2, <2>1 DEF ServerInv, IPCInv, Answerable, Listened
<1>8. CASE Boot
    <2>1. CASE BootSend /\ WriteFrame(Main, Message("Context", 0, NoOne))
        <3>1. Message("Context", 0, NoOne) \in IPCPayloads
              /\ Asked(Message("Context", 0, NoOne))'
            BY PayloadOf, IPCAssumption DEF Asked, Message
        <3> QED  BY <1>4, <2>1, <3>1, UserKinds DEF BootSend, worldVars
    <2> QED
        BY <1>3, <1>8, <2>1
        DEF Boot, BootBuild, BootSend, BootReady, BootTimeout, BuildFrame, WriteFails,
            ipcVars, worldVars, connVars, sendVars, serverVars
<1>9. ASSUME NEW c \in Calls, CallStart(c) \/ Proceed(c)
      PROVE  ServerInv'
    <2>1. CASE CallSend(c)
        <3>1. Message("Promise", id[c], c) \in IPCPayloads
            BY <2>1, PayloadOf, IPCAssumption, IDInTable, UserKinds DEF CallSend, IPCInv
        <3>2. id'[c] = id[c] /\ pc'[c] = "wait"
            BY <2>1, UserKinds DEF CallSend, Goto, IPCInv, IPCTypes
        <3>3. Asked(Message("Promise", id[c], c))'
            BY <2>1, <3>2 DEF Asked, Message, Answerable, CallSend
        <3> QED  BY <1>4, <2>1, <3>1, <3>3, UserKinds DEF CallSend, worldVars
    <2> QED
        BY <1>3, <1>9, <2>1
        DEF CallStart, Proceed, CallRegister, CallBuild, CallSendFails, CallReceive,
            CallTimeout, CallGiveUp, BuildFrame, WriteFails, ipcVars, worldVars, connVars,
            sendVars, serverVars
<1>10. ASSUME NEW s \in Subscriptions, Subscribe(s)
       PROVE  ServerInv'
    <2>1. CASE ListenSend(s) /\ WriteFrame(s, Message("EventListen", id[s], s))
               /\ Goto(s, "listening")
        <3>1. Message("EventListen", id[s], s) \in IPCPayloads
            BY <2>1, PayloadOf, IPCAssumption, IDInTable, UserKinds DEF ListenSend, IPCInv
        <3>2. id'[s] = id[s] /\ pc'[s] = "listening"
            BY <2>1, UserKinds DEF ListenSend, Goto, IPCInv, IPCTypes
        <3>3. Asked(Message("EventListen", id[s], s))'
            BY <2>1, <3>2 DEF Asked, Message, Listened, ListenSend
        <3> QED  BY <1>4, <2>1, <3>1, <3>3, UserKinds DEF ListenSend, worldVars
    <2>2. CASE DisposeSend(s) /\ WriteFrame(s, Message("EventDispose", id[s], s))
        <3>1. Message("EventDispose", id[s], s) \in IPCPayloads
            BY <2>2, PayloadOf, IPCAssumption, IDInTable, UserKinds DEF DisposeSend, IPCInv
        <3>2. Asked(Message("EventDispose", id[s], s))'
            BY DEF Asked, Message
        <3> QED  BY <1>4, <2>2, <3>1, <3>2, UserKinds DEF DisposeSend, worldVars
    <2> QED
        BY <1>3, <1>10, <2>1, <2>2
        DEF Subscribe, ListenStart, ListenRegister, ListenBuild, ListenSend, ListenDrop,
            DisposeSend, BuildFrame, WriteFails, ipcVars, worldVars, connVars, sendVars,
            serverVars
<1>11. CASE Connection \/ Dispatch \/ (\E t \in tasks : RunHandler(t)) \/ UNCHANGED vars
    BY <1>3, <1>11
    DEF Connection, ReadLoop, ReadMessage, ReadError, DecodeFrame, DeliverFrame,
        AbandonDelivery, ReaderSignals, ReaderClosesRegular, NetworkFailure, Close,
        Dispatch, DispatchRecv, DispatchSkip, DispatchInitialize, DispatchReply,
        DispatchDeliver, DispatchEvent, DispatchEnd, RecvRegular, RecvEnd, RunHandler,
        vars, ipcVars, connVars, worldVars, sendVars, serverVars
<1> QED  BY <1>5, <1>6, <1>7, <1>8, <1>9, <1>10, <1>11 DEF Next, Server

-----------------------------------------------------------------------------
(* Frames on their way                                                     *)

LEMMA HonestKept ==
    ASSUME TypeInv, IPCInv, Onward, NEW f \in Frames, Honest(f),
           \A c \in Calls : replies[c] \subseteq replies'[c],
           serverID \in Nat, serverID' \in Nat, serverID <= serverID',
           \A e \in fired' : e \in fired \/ e.event > serverID
    PROVE  Honest(f)'
<1> SUFFICES ASSUME f.Type = "Regular"
             PROVE  Honest(f)'
    BY DEF Honest
<1>1. f.ID \in Nat /\ f.Payload \in IPCPayloads
    BY IPCAssumption DEF Frames, BareTypes
<1>2. /\ f.Payload.type \in Replies => f.Payload.id \in IDs /\ f.Payload.who \in Calls
      /\ f.Payload.type = "EventFire" => f.Payload.id \in IDs /\ f.Payload.who \in Subscriptions
    BY <1>1, PayloadKinds
<1>3. \A x \in Users : id[x] \in IDs => id'[x] = id[x]
    BY UsersFinite DEF Onward, IPCInv, Fresh
<1>4. f.ID <= serverID'
    BY <1>1 DEF Honest
<1>5. f.Payload.type \in Replies =>
         f.Payload.id = id'[f.Payload.who] /\ f.Payload.type \in replies'[f.Payload.who]
    BY <1>2, <1>3, UserKinds DEF Honest
<1>6. f.Payload.type = "EventFire" => f.Payload.id = id'[f.Payload.who]
    BY <1>2, <1>3, UserKinds DEF Honest
<1>7. \A e \in fired' :
          e.event = f.ID => f.Payload.type = "EventFire" /\ f.Payload.who = e.sub
    BY <1>1 DEF Honest
<1> QED  BY <1>4, <1>5, <1>6, <1>7 DEF Honest

LEMMA WithinTail ==
    ASSUME NEW S, NEW s \in Seq(S), s # <<>>, NEW f, Within(f, Tail(s))
    PROVE  Within(f, s)
<1>1. /\ Len(s) \in Nat /\ Len(Tail(s)) = Len(s) - 1
      /\ \A i \in 1 .. Len(s) - 1 : Tail(s)[i] = s[i + 1]
    BY HeadTailProperties
<1>2. PICK i \in 1 .. Len(Tail(s)) : Tail(s)[i] = f
    BY DEF Within
<1>3. i + 1 \in 1 .. Len(s) /\ s[i + 1] = f
    BY <1>1, <1>2
<1> QED  BY <1>3 DEF Within

LEMMA WithinAppend ==
    ASSUME NEW S, NEW s \in Seq(S), NEW m \in S, NEW f, Within(f, Append(s, m))
    PROVE  Within(f, s) \/ f = m
<1>1. /\ Len(s) \in Nat /\ Len(Append(s, m)) = Len(s) + 1
      /\ \A i \in 1 .. Len(s) : Append(s, m)[i] = s[i]
      /\ Append(s, m)[Len(s) + 1] = m
    BY AppendProperties
<1>2. PICK i \in 1 .. Len(Append(s, m)) : Append(s, m)[i] = f
    BY DEF Within
<1>3. i \in 1 .. Len(s) \/ i = Len(s) + 1
    BY <1>1, <1>2
<1> QED  BY <1>1, <1>2, <1>3 DEF Within

LEMMA WithinHead ==
    ASSUME NEW S, NEW s \in Seq(S), s # <<>>
    PROVE  Within(Head(s), s)
<1>1. Len(s) \in Nat /\ Len(s) # 0 /\ Head(s) = s[1]
    BY HeadTailProperties, EmptySeq
<1>2. 1 \in 1 .. Len(s)
    BY <1>1
<1> QED  BY <1>1, <1>2 DEF Within

(* readLoop moves frames along and drops some.                             *)
LEMMA ConnectionMoves ==
    ASSUME TypeInv, Connection, NEW f \in Frames, OnItsWay(f)'
    PROVE  OnItsWay(f)
<1> DEFINE In(q) == \E m \in 1 .. Len(q) : Within(f, q[m])
<1>1. /\ inbound \in Seq(Seq(Frames)) /\ batch \in Seq(Frames) /\ regularCh \in Seq(Frames)
      /\ UNCHANGED <<current, dispatch>>
    BY DEF TypeInv, ConnTypeOK, Connection, ipcVars, dispatchVars
<1>2. CASE ReadMessage
    <2>1. inbound # <<>> /\ inbound' = Tail(inbound) /\ batch' = Head(inbound)
          /\ UNCHANGED regularCh
        BY <1>2 DEF ReadMessage, chanVars
    <2>2. /\ Len(inbound) \in Nat /\ Len(inbound) # 0 /\ Len(inbound') = Len(inbound) - 1
          /\ \A m \in 1 .. Len(inbound) - 1 : inbound'[m] = inbound[m + 1]
          /\ Head(inbound) = inbound[1]
        BY <1>1, <2>1, HeadTailProperties, EmptySeq
    <2>3. In(inbound') => In(inbound)
        <3> SUFFICES ASSUME NEW m \in 1 .. Len(inbound'), Within(f, inbound'[m])
                     PROVE  In(inbound)
            OBVIOUS
        <3>1. m + 1 \in 1 .. Len(inbound) /\ Within(f, inbound[m + 1])
            BY <2>2
        <3> QED  BY <3>1
    <2>4. Within(f, batch') => In(inbound)
        BY <2>1, <2>2
    <2> QED  BY <1>1, <2>1, <2>3, <2>4 DEF OnItsWay
<1>3. CASE DecodeFrame
    <2>1. batch # <<>> /\ UNCHANGED <<inbound, regularCh>>
          /\ batch' \in {batch, Tail(batch), <<>>}
        BY <1>3 DEF DecodeFrame, Advance, chanVars, serverVars, TypeInv, Framing
    <2>2. Within(f, Tail(batch)) => Within(f, batch)
        BY <1>1, <2>1, WithinTail
    <2>3. ~Within(f, <<>>)
        BY DEF Within
    <2>4. CASE batch' = <<>>
        BY <1>1, <2>1, <2>3, <2>4 DEF OnItsWay
    <2>5. CASE batch' = Tail(batch)
        BY <1>1, <2>1, <2>2, <2>5 DEF OnItsWay
    <2>6. CASE batch' = batch
        BY <1>1, <2>1, <2>6 DEF OnItsWay
    <2> QED  BY <2>1, <2>4, <2>5, <2>6
<1>4. CASE DeliverFrame
    <2>1. batch # <<>> /\ UNCHANGED inbound /\ batch' = Tail(batch)
          /\ \/ regularCh' = Append(regularCh, Head(batch))
             \/ regularCh' = regularCh
        BY <1>4 DEF DeliverFrame, QueueRegular, QueueControl, Advance, serverVars,
                    TypeInv, Framing
    <2>2. Head(batch) \in Frames /\ Within(Head(batch), batch)
        BY <1>1, <2>1, HeadTailProperties, WithinHead
    <2>3. Within(f, Append(regularCh, Head(batch))) => Within(f, regularCh) \/ Within(f, batch)
        BY <1>1, <2>2, WithinAppend
    <2>4. Within(f, Tail(batch)) => Within(f, batch)
        BY <1>1, <2>1, WithinTail
    <2>5. CASE regularCh' = regularCh
        BY <1>1, <2>1, <2>4, <2>5 DEF OnItsWay
    <2>6. CASE regularCh' = Append(regularCh, Head(batch))
        BY <1>1, <2>1, <2>3, <2>4, <2>6 DEF OnItsWay
    <2> QED  BY <2>1, <2>5, <2>6
<1>5. CASE UNCHANGED <<inbound, batch, regularCh>>
    BY <1>1, <1>5 DEF OnItsWay
<1> QED
    BY <1>2, <1>3, <1>4, <1>5
    DEF Connection, ReadLoop, ReadError, AbandonDelivery, ReaderSignals,
        ReaderClosesRegular, NetworkFailure, Close, readVars, chanVars, serverVars

(* The server adds one frame, and what it says in it is true.              *)
LEMMA ServerAdds ==
    ASSUME TypeInv, NEW m \in IPCPayloads, ServerRegular(<<m>>),
           UNCHANGED <<current, dispatch>>, NEW f \in Frames, OnItsWay(f)'
    PROVE  OnItsWay(f) \/ f = RegularFrame(serverID + 1, m)
<1> DEFINE w == [i \in 1 .. Len(<<m>>) |-> RegularFrame(serverID + i, <<m>>[i])]
<1>1. /\ inbound \in Seq(Seq(Frames)) /\ serverID \in Nat
      /\ inbound' = Append(inbound, w) /\ UNCHANGED <<batch, regularCh>>
    BY DEF TypeInv, ConnTypeOK, ServerRegular, readVars, chanVars
<1>2. w = <<RegularFrame(serverID + 1, m)>>
    OBVIOUS
<1>3. RegularFrame(serverID + 1, m) \in Frames
    BY <1>1, IPCAssumption DEF RegularFrame, Frames
<1>4. w \in Seq(Frames) /\ Len(w) = 1 /\ w[1] = RegularFrame(serverID + 1, m)
    BY <1>2, <1>3
<1> HIDE DEF w
<1>5. /\ Len(inbound) \in Nat /\ Len(inbound') = Len(inbound) + 1
      /\ \A i \in 1 .. Len(inbound) : inbound'[i] = inbound[i]
      /\ inbound'[Len(inbound) + 1] = w
    BY <1>1, <1>4, AppendProperties
<1>6. \A i \in 1 .. Len(inbound') : i \in 1 .. Len(inbound) \/ i = Len(inbound) + 1
    BY <1>5
<1>7. Within(f, w) => f = RegularFrame(serverID + 1, m)
    BY <1>4 DEF Within
<1>8. (\E i \in 1 .. Len(inbound') : Within(f, inbound'[i])) =>
         (\E i \in 1 .. Len(inbound) : Within(f, inbound[i])) \/ Within(f, w)
    BY <1>5, <1>6
<1> QED  BY <1>1, <1>7, <1>8 DEF OnItsWay

LEMMA FramesServer ==
    ASSUME TypeInv, IPCInv, Onward, Server
    PROVE  FramesInv'
<1>1. serverID \in Nat
    BY DEF TypeInv, ConnTypeOK
<1>2. ASSUME NEW m \in IPCPayloads, ServerRegular(<<m>>), UNCHANGED <<current, dispatch>>,
             \A c \in Calls : replies[c] \subseteq replies'[c],
             \A e \in fired' : e \in fired \/ e.event > serverID,
             m.type \in Replies => m.id = id'[m.who] /\ m.type \in replies'[m.who],
             m.type = "EventFire" => m.id = id'[m.who],
             \A e \in fired' :
                 e.event = serverID + 1 => m.type = "EventFire" /\ m.who = e.sub
      PROVE  FramesInv'
    <2>1. serverID' = serverID + 1
        BY <1>1, <1>2 DEF ServerRegular
    <2>2. ASSUME NEW f \in Frames, OnItsWay(f)'
          PROVE  Honest(f)'
        <3>1. CASE OnItsWay(f)
            <4>1. Honest(f)
                BY <3>1 DEF IPCInv, FramesInv
            <4> QED  BY <1>1, <1>2, <2>1, <4>1, HonestKept
        <3>2. CASE f = RegularFrame(serverID + 1, m)
            BY <1>1, <1>2, <2>1, <3>2 DEF Honest, RegularFrame
        <3> QED  BY <1>2, <2>2, <3>1, <3>2, ServerAdds
    <2> QED  BY <1>2, <2>2 DEF FramesInv, IPCInv
<1>3. \A e \in fired : e.event \in Nat /\ e.event <= serverID
    BY <1>1 DEF IPCInv, ServerInv
<1>4. ASSUME NEW c \in Calls, NEW type \in Replies, ServerReply(c, type)
      PROVE  FramesInv'
    <2>1. PICK i \in IDs : Received(Message("Promise", i, c))
                           /\ ServerRegular(<<Message(type, i, c)>>)
        BY <1>4 DEF ServerReply
    <2>2. Message("Promise", i, c) \in IPCPayloads /\ Message(type, i, c) \in IPCPayloads
        BY PayloadOf, IPCAssumption
    <2>3. i = id[c]
        BY <2>1, <2>2 DEF IPCInv, ServerInv, Asked, Message
    <2>4. /\ UNCHANGED <<current, dispatch, id, fired>>
          /\ \A d \in Calls : replies[d] \subseteq replies'[d]
          /\ type \in replies'[c]
        BY <1>4 DEF ServerReply, dispatchVars, callVars, IPCInv, IPCTypes
    <2>5. \A e \in fired' : e \in fired /\ e.event # serverID + 1
        BY <1>1, <1>3, <2>4
    <2> QED  BY <1>2, <2>1, <2>2, <2>3, <2>4, <2>5 DEF Message, Replies
<1>5. ASSUME NEW s \in Subscriptions, ServerFire(s)
      PROVE  FramesInv'
    <2>1. PICK i \in IDs : Received(Message("EventListen", i, s))
                           /\ ServerRegular(<<Message("EventFire", i, s)>>)
        BY <1>5 DEF ServerFire
    <2>2. Message("EventListen", i, s) \in IPCPayloads
          /\ Message("EventFire", i, s) \in IPCPayloads
        BY PayloadOf, IPCAssumption
    <2>3. i = id[s]
        BY <2>1, <2>2 DEF IPCInv, ServerInv, Asked, Message
    <2>4. serverID' = serverID + 1
        BY <1>1, <2>1 DEF ServerRegular
    <2>5. /\ UNCHANGED <<current, dispatch, id, replies>>
          /\ fired' = fired \cup {[sub |-> s, event |-> serverID + 1]}
        BY <1>5, <2>4 DEF ServerFire, dispatchVars, callVars
    <2>6. \A e \in fired' : e \in fired \/ e.event > serverID
        BY <1>1, <2>5
    <2>7. \A e \in fired' : e.event = serverID + 1 => e.sub = s
        BY <1>1, <1>3, <2>5
    <2> QED  BY <1>2, <2>1, <2>2, <2>3, <2>5, <2>6, <2>7 DEF Message, Replies
<1>6. ASSUME NEW type \in {"Initialize", "Unreadable"},
             ServerRegular(<<Message(type, 0, NoOne)>>), UNCHANGED ipcVars
      PROVE  FramesInv'
    <2>1. Message(type, 0, NoOne) \in IPCPayloads
        BY PayloadOf, IPCAssumption
    <2>2. /\ UNCHANGED <<current, dispatch, replies, fired>>
          /\ \A c \in Calls : replies[c] \subseteq replies'[c]
        BY <1>6 DEF ipcVars, dispatchVars, worldVars
    <2>3. \A e \in fired' : e \in fired /\ e.event # serverID + 1
        BY <1>1, <1>3, <2>2
    <2> QED  BY <1>2, <1>6, <2>1, <2>2, <2>3 DEF Message, Replies
<1> QED  BY <1>4, <1>5, <1>6 DEF Server, ServerInitialize, ServerUnreadable

LEMMA DispatchMoves ==
    ASSUME TypeInv, Dispatch, NEW f \in Frames, OnItsWay(f)'
    PROVE  OnItsWay(f)
<1>1. CASE DispatchRecv
    <2>1. /\ regularCh \in Seq(Frames) /\ regularCh # <<>>
          /\ regularCh' = Tail(regularCh) /\ current' = Head(regularCh)
          /\ UNCHANGED <<inbound, batch>>
        BY <1>1 DEF DispatchRecv, RecvRegular, readVars, serverVars, TypeInv, ConnTypeOK
    <2>2. Within(f, Tail(regularCh)) => Within(f, regularCh)
        BY <2>1, WithinTail
    <2>3. Within(Head(regularCh), regularCh)
        BY <2>1, WithinHead
    <2> QED  BY <2>1, <2>2, <2>3 DEF OnItsWay
<1>2. CASE \/ DispatchSkip \/ DispatchInitialize \/ DispatchReply
           \/ DispatchDeliver \/ DispatchEvent \/ DispatchEnd
    <2>1. UNCHANGED <<inbound, batch, regularCh>>
        BY <1>2 DEF DispatchSkip, DispatchInitialize, DispatchReply, DispatchDeliver,
                    DispatchEvent, DispatchEnd, RecvEnd, connVars, readVars, chanVars,
                    serverVars
    <2>2. dispatch' = "recv" \/ (dispatch # "recv" /\ UNCHANGED current)
          \/ UNCHANGED <<dispatch, current>>
        BY <1>2 DEF DispatchSkip, DispatchInitialize, DispatchReply, DispatchDeliver,
                    DispatchEvent, DispatchEnd, DispatchNext, ipcVars, dispatchVars
    <2> QED  BY <2>1, <2>2 DEF OnItsWay
<1> QED  BY <1>1, <1>2 DEF Dispatch

LEMMA FramesDispatch ==
    ASSUME TypeInv, Delivery, IPCInv, Onward, Dispatch
    PROVE  FramesInv'
<1>1. /\ UNCHANGED <<replies, fired, serverID>> /\ serverID \in Nat
    BY DEF Dispatch, DispatchRecv, DispatchSkip, DispatchInitialize, DispatchReply,
           DispatchDeliver, DispatchEvent, DispatchEnd, RecvRegular, RecvEnd, connVars,
           serverVars, ipcVars, worldVars, TypeInv, ConnTypeOK
<1>2. ASSUME NEW f \in Frames, OnItsWay(f)'
      PROVE  Honest(f)'
    <2>1. Honest(f)
        BY <1>2, DispatchMoves DEF IPCInv, FramesInv
    <2> QED  BY <1>1, <2>1, HonestKept
<1>3. (dispatch' = "recv" => current' = NoFrame)
      /\ (dispatch' # "recv" => current' \in Frames /\ current'.Type = "Regular")
    <2>1. CASE DispatchRecv
        <3>1. /\ regularCh \in Seq(Frames) /\ regularCh # <<>>
              /\ current' = Head(regularCh) /\ dispatch' = "handle"
            BY <2>1 DEF DispatchRecv, RecvRegular, TypeInv, ConnTypeOK
        <3>2. Head(regularCh) \in Frames /\ Head(regularCh) = regularCh[1]
              /\ 1 \in 1 .. Len(regularCh)
            BY <3>1, HeadTailProperties, EmptySeq, LenProperties
        <3>3. regularCh[1].Type = "Regular"
            BY <3>2 DEF Delivery, Run
        <3> QED  BY <3>1, <3>2, <3>3
    <2>2. CASE DispatchReply
        BY <2>2 DEF DispatchReply, IPCInv, FramesInv
    <2>3. CASE DispatchEnd
        BY <2>3 DEF DispatchEnd, ipcVars, dispatchVars, IPCInv, FramesInv
    <2>4. CASE DispatchSkip \/ DispatchInitialize \/ DispatchDeliver \/ DispatchEvent
        BY <2>4 DEF DispatchSkip, DispatchInitialize, DispatchDeliver, DispatchEvent,
                    DispatchNext
    <2> QED  BY <2>1, <2>2, <2>3, <2>4 DEF Dispatch
<1> QED  BY <1>2, <1>3 DEF FramesInv

LEMMA FramesStep ==
    ASSUME TypeInv, Delivery, IPCInv, [Next]_vars
    PROVE  FramesInv'
<1>1. Onward
    BY OnwardStep
<1>2. ASSUME UNCHANGED <<dispatch, current, replies, fired, serverID>>,
             \A f \in Frames : OnItsWay(f)' => OnItsWay(f)
      PROVE  FramesInv'
    <2>1. ASSUME NEW f \in Frames, OnItsWay(f)'
          PROVE  Honest(f)'
        <3>1. Honest(f)
            BY <1>2, <2>1 DEF IPCInv, FramesInv
        <3>2. serverID \in Nat
            BY DEF TypeInv, ConnTypeOK
        <3> QED  BY <1>1, <1>2, <3>1, <3>2, HonestKept
    <2> QED  BY <1>2, <2>1 DEF FramesInv, IPCInv
<1>3. CASE Connection
    <2>1. UNCHANGED <<dispatch, current, replies, fired, serverID>>
        BY <1>3 DEF Connection, ReadLoop, ReadMessage, ReadError, DecodeFrame,
                    DeliverFrame, AbandonDelivery, ReaderSignals, ReaderClosesRegular,
                    NetworkFailure, Close, ipcVars, dispatchVars, worldVars, serverVars
    <2> QED  BY <1>2, <1>3, <2>1, ConnectionMoves
<1>4. CASE UNCHANGED <<dispatch, current, replies, fired, serverID, inbound, batch, regularCh>>
    BY <1>2, <1>4 DEF OnItsWay
<1>5. CASE Boot \/ (\E t \in tasks : RunHandler(t)) \/ UNCHANGED vars
    BY <1>4, <1>5
    DEF Boot, BootBuild, BootSend, BootReady, BootTimeout, RunHandler, BuildFrame,
        WriteFails, WriteFrame, vars, ipcVars, dispatchVars, worldVars, connVars, readVars,
        chanVars, serverVars
<1>6. ASSUME NEW c \in Calls, CallStart(c) \/ Proceed(c)
      PROVE  FramesInv'
    BY <1>4, <1>6
    DEF CallStart, Proceed, CallRegister, CallBuild, CallSend, CallSendFails, CallReceive,
        CallTimeout, CallGiveUp, BuildFrame, WriteFails, WriteFrame, ipcVars, dispatchVars,
        worldVars, connVars, readVars, chanVars, serverVars
<1>7. ASSUME NEW s \in Subscriptions, Subscribe(s)
      PROVE  FramesInv'
    BY <1>4, <1>7
    DEF Subscribe, ListenStart, ListenRegister, ListenBuild, ListenSend, ListenDrop,
        DisposeSend, BuildFrame, WriteFails, WriteFrame, ipcVars, dispatchVars, worldVars,
        connVars, readVars, chanVars, serverVars
<1> QED  BY <1>1, <1>3, <1>5, <1>6, <1>7, FramesServer, FramesDispatch DEF Next

-----------------------------------------------------------------------------
(* The table of handlers                                                   *)

LEMMA TableQuiet ==
    ASSUME IPCInv, UNCHANGED <<handlers, ch, target, dispatch, current>>,
           \A c \in Calls : id'[c] = id[c] /\ pc'[c] = pc[c] /\ replies[c] \subseteq replies'[c]
    PROVE  TableInv'
BY DEF IPCInv, TableInv, WaitingIsReachable, Taken

(* A call that has not been sent has no answer.                            *)
LEMMA Unanswered ==
    ASSUME IPCInv, NEW c \in Calls, ~Answerable(c)
    PROVE  ch[c] = <<>> /\ ~Taken(c)
<1>1. replies[c] = {}
    BY DEF IPCInv, ServerInv
<1>2. ch[c] = <<>>
    BY <1>1 DEF IPCInv, TableInv
<1>3. ~Taken(c)
    BY <1>1, CurrentKnown DEF Taken, IPCInv, TableInv
<1> QED  BY <1>2, <1>3

LEMMA TableCall ==
    ASSUME IPCInv, NEW c \in Calls, CallStart(c) \/ Proceed(c)
    PROVE  TableInv'
<1> USE DEF TableInv, WaitingIsReachable, Taken, Goto
<1>1. /\ IPCTypes /\ Fresh /\ TableInv /\ c \in Users
      /\ \A d \in Calls : d \in Users /\ d # NoOne
    BY UserKinds DEF IPCInv
<1>2. /\ handlers \in [IDs -> Calls \cup {NoOne}] /\ id \in [Users -> Nat]
      /\ pc \in [Users -> Steps] /\ ch \in [Calls -> {<<>>} \cup {<<m>> : m \in IPCPayloads}]
    BY <1>1 DEF IPCTypes
<1>3. \A d, e \in Calls : id[d] = id[e] /\ pc[d] # "idle" => d = e
    BY <1>1 DEF Fresh
<1>4. CASE CallStart(c)
    <2>1. /\ UNCHANGED <<handlers, ch, target, dispatch, current, replies>>
          /\ pc[c] = "idle" /\ pc'[c] = "start"
          /\ \A d \in Calls \ {c} : id'[d] = id[d] /\ pc'[d] = pc[d]
        BY <1>1, <1>2, <1>4 DEF CallStart, TakeID, dispatchVars, worldVars
    <2> QED  BY <1>1, <2>1
<1>5. CASE CallRegister(c)
    <2>1. id[c] \in IDs
        BY <1>1, <1>5, IDInTable DEF CallRegister
    <2>2. ch[c] = <<>> /\ ~Taken(c)
        BY <1>5, Unanswered DEF CallRegister, Answerable
    <2>3. /\ UNCHANGED <<id, ch, target, dispatch, current, replies>>
          /\ pc[c] = "start" /\ pc'[c] = "send"
          /\ \A d \in Calls \ {c} : pc'[d] = pc[d]
          /\ handlers'[id[c]] = c
          /\ \A i \in IDs \ {id[c]} : handlers'[i] = handlers[i]
        BY <1>1, <1>2, <1>5, <2>1 DEF CallRegister, dispatchVars, worldVars
    <2>4. \A d \in Calls \ {c} : pc[d] # "idle" => id[d] \in IDs /\ id[d] # id[c]
        BY <1>1, <1>3, IDInTable
    <2>5. \A i \in IDs : handlers[i] # c
        BY <1>1, <2>3
    <2> QED  BY <1>1, <2>1, <2>2, <2>3, <2>4, <2>5
<1>6. CASE CallBuild(c)
    BY <1>6, TableQuiet DEF CallBuild, ipcVars, callVars, tableVars, dispatchVars, worldVars
<1>7. CASE CallSend(c) \/ CallSendFails(c) \/ CallTimeout(c)
    <2>1. /\ UNCHANGED <<handlers, id, ch, target, dispatch, current, replies>>
          /\ \/ pc[c] = "send" /\ pc'[c] \in {"wait", "sendError"}
             \/ pc[c] = "wait" /\ pc'[c] = "timeout"
          /\ \A d \in Calls \ {c} : pc'[d] = pc[d]
        BY <1>1, <1>2, <1>7
        DEF CallSend, CallSendFails, CallTimeout, tableVars, dispatchVars, worldVars
    <2> QED  BY <1>1, <2>1
<1>8. CASE CallReceive(c)
    <2>1. PICK m \in IPCPayloads : ch[c] = <<m>>
        BY <1>2, <1>8 DEF CallReceive
    <2>2. Tail(ch[c]) = <<>> /\ ch[c] # <<>>
        BY <2>1
    <2>3. /\ UNCHANGED <<handlers, id, target, dispatch, current, replies>>
          /\ ch'[c] = <<>> /\ pc'[c] = "done"
          /\ \A d \in Calls \ {c} : pc'[d] = pc[d] /\ ch'[d] = ch[d]
        BY <1>1, <1>2, <1>8, <2>2 DEF CallReceive, tableVars, dispatchVars, worldVars
    <2> QED  BY <1>1, <2>2, <2>3
<1>9. CASE CallGiveUp(c)
    <2>1. id[c] \in IDs
        BY <1>1, <1>9, IDInTable DEF CallGiveUp
    <2>2. /\ UNCHANGED <<id, ch, target, dispatch, current, replies>>
          /\ pc'[c] = "done"
          /\ \A d \in Calls \ {c} : pc'[d] = pc[d]
          /\ handlers'[id[c]] = NoOne
          /\ \A i \in IDs \ {id[c]} : handlers'[i] = handlers[i]
        BY <1>1, <1>2, <1>9, <2>1 DEF CallGiveUp, DropHandler, dispatchVars, worldVars
    <2>3. \A d \in Calls \ {c} : pc[d] # "idle" => id[d] \in IDs /\ id[d] # id[c]
        BY <1>1, <1>3, IDInTable
    <2> QED  BY <1>1, <2>1, <2>2, <2>3
<1> QED  BY <1>4, <1>5, <1>6, <1>7, <1>8, <1>9 DEF Proceed

LEMMA TableDispatch ==
    ASSUME IPCInv, Dispatch
    PROVE  TableInv'
<1> USE DEF TableInv, WaitingIsReachable, Taken
<1>1. /\ IPCTypes /\ Fresh /\ TableInv /\ NoOne \notin Calls
      /\ \A d \in Calls : d \in Users
    BY UserKinds DEF IPCInv
<1>2. handlers \in [IDs -> Calls \cup {NoOne}]
      /\ ch \in [Calls -> {<<>>} \cup {<<m>> : m \in IPCPayloads}]
    BY <1>1 DEF IPCTypes
<1>3. CASE DispatchRecv \/ DispatchSkip \/ DispatchInitialize \/ DispatchEvent
    <2>1. UNCHANGED <<handlers, id, pc, ch, replies>>
          /\ dispatch # "deliver" /\ dispatch' # "deliver"
        BY <1>3 DEF DispatchRecv, DispatchSkip, DispatchInitialize, DispatchEvent,
                    DispatchNext, callVars, tableVars, worldVars
    <2> QED  BY <1>1, <2>1
<1>4. CASE DispatchEnd
    BY <1>4, TableQuiet
    DEF DispatchEnd, ipcVars, callVars, tableVars, dispatchVars, worldVars
<1>5. CASE DispatchReply
    <2> DEFINE i == current.Payload.id
               who == current.Payload.who
    <2>1. i \in IDs /\ who \in Calls /\ i = id[who] /\ current.Payload.type \in Replies
        BY <1>5, CurrentKnown DEF DispatchReply
    <2>2. /\ UNCHANGED <<id, pc, ch, replies>>
          /\ dispatch = "handle" /\ target' = handlers[i]
          /\ handlers'[i] = NoOne
          /\ \A j \in IDs \ {i} : handlers'[j] = handlers[j]
          /\ target' = NoOne => dispatch' = "recv"
          /\ target' # NoOne => dispatch' = "deliver" /\ current' = current
        BY <1>2, <1>5, <2>1 DEF DispatchReply, LookupHandler, callVars, worldVars
    <2> HIDE DEF i, who
    <2>3. id[who] # 0
        BY <2>1, UsersFinite
    <2>4. target' # NoOne => target' = who
        <3>1. target' # NoOne => target' \in Calls /\ id[target'] = i
            BY <1>1, <1>2, <2>1, <2>2
        <3> QED  BY <1>1, <2>1, <2>3, <3>1 DEF Fresh
    <2>5. \A c \in Calls : handlers[i] = c => target' = c /\ dispatch' = "deliver"
        BY <1>1, <2>2
    <2>6. dispatch' = "deliver" =>
             /\ target' \in Calls /\ ch'[target'] = <<>>
             /\ current'.Payload.type \in Replies /\ current'.Payload.who = target'
        BY <1>1, <2>1, <2>2, <2>4 DEF who
    <2>7. \A j \in IDs : \A c \in Calls :
             handlers'[j] = c => handlers[j] = c /\ j # i
        BY <1>1, <2>1, <2>2
    <2>8. \A j \in IDs : \A c \in Calls : handlers'[j] = c =>
             /\ id'[c] = j /\ pc'[c] \in {"send", "sendError", "wait", "timeout"}
             /\ ch'[c] = <<>> /\ ~Taken(c)'
        BY <1>1, <2>1, <2>2, <2>4, <2>7
    <2>9. \A c \in Calls : pc'[c] \in {"send", "sendError"} => handlers'[id'[c]] = c
        <3> SUFFICES ASSUME NEW c \in Calls, pc[c] \in {"send", "sendError"}
                     PROVE  handlers'[id[c]] = c
            BY <2>2
        <3>1. handlers[id[c]] = c /\ id[c] \in IDs
            BY <1>1, IDInTable
        <3>2. ~Answerable(c)
            BY DEF Answerable
        <3>3. current.Payload.type \in replies[who]
            BY <1>5, CurrentKnown DEF DispatchReply, who
        <3>4. c # who
            BY <3>2, <3>3, <2>1 DEF IPCInv, ServerInv
        <3>5. id[c] # i
            BY <1>1, <2>1, <2>3, <3>4 DEF Fresh
        <3> QED  BY <2>2, <3>1, <3>5
    <2>10. WaitingIsReachable'
        <3> SUFFICES ASSUME NEW c \in Calls, pc[c] = "wait"
                     PROVE  \/ handlers'[id[c]] = c
                            \/ dispatch' = "deliver" /\ target' = c
                            \/ ch[c] # <<>>
            BY <2>2
        <3>1. id[c] \in IDs
            BY <1>1, IDInTable
        <3> QED  BY <1>1, <2>2, <2>5, <3>1
    <2> QED  BY <1>1, <2>2, <2>6, <2>8, <2>9, <2>10
<1>6. CASE DispatchDeliver
    <2>1. /\ UNCHANGED <<handlers, id, pc, replies>>
          /\ dispatch = "deliver" /\ dispatch' = "recv"
          /\ ch'[target] = <<current.Payload>>
          /\ \A c \in Calls \ {target} : ch'[c] = ch[c]
          /\ target \in Calls
        BY <1>1, <1>2, <1>6
        DEF DispatchDeliver, DispatchNext, tableVars, worldVars
    <2>2. ch'[target] # <<>> /\ ch'[target][1] = current.Payload
        BY <2>1
    <2>3. current.Payload.type \in replies[target]
        BY <1>1, <2>1, CurrentKnown
    <2>4. \A i \in IDs : handlers[i] # target
        BY <1>1, <2>1
    <2> QED  BY <1>1, <2>1, <2>2, <2>3, <2>4
<1> QED  BY <1>3, <1>4, <1>5, <1>6 DEF Dispatch

LEMMA TableStep ==
    ASSUME IPCInv, [Next]_vars
    PROVE  TableInv'
<1>1. CASE \/ Server \/ Connection \/ Boot \/ (\E s \in Subscriptions : Subscribe(s))
           \/ (\E t \in tasks : RunHandler(t)) \/ UNCHANGED vars
    <2>1. UNCHANGED <<handlers, ch, target, dispatch, current>>
        BY <1>1
        DEF Server, ServerInitialize, ServerUnreadable, ServerReply, ServerFire, Connection,
            Boot, BootBuild, BootSend, BootReady, BootTimeout, Subscribe, ListenStart,
            ListenRegister, ListenBuild, ListenSend, ListenDrop, DisposeSend, RunHandler,
            vars, ipcVars, callVars, tableVars, dispatchVars
    <2>2. \A c \in Calls : replies[c] \subseteq replies'[c]
        <3>1. ASSUME NEW c \in Calls, NEW type \in Replies, ServerReply(c, type)
              PROVE  \A d \in Calls : replies[d] \subseteq replies'[d]
            BY <3>1 DEF ServerReply, IPCInv, IPCTypes
        <3> QED
            BY <1>1, <3>1
            DEF Server, ServerInitialize, ServerUnreadable, ServerFire, Connection,
                Boot, BootBuild, BootSend, BootReady, BootTimeout, Subscribe, ListenStart,
                ListenRegister, ListenBuild, ListenSend, ListenDrop, DisposeSend,
                RunHandler, vars, ipcVars, worldVars
    <2>3. \A c \in Calls : id'[c] = id[c] /\ pc'[c] = pc[c]
        <3>1. ASSUME NEW s \in Subscriptions, Subscribe(s)
              PROVE  \A c \in Calls : id'[c] = id[c] /\ pc'[c] = pc[c]
            BY <3>1, UserKinds
            DEF Subscribe, ListenStart, ListenRegister, ListenBuild, ListenSend,
                ListenDrop, DisposeSend, TakeID, Goto, IPCInv, IPCTypes, ipcVars, callVars
        <3> QED
            BY <1>1, <3>1
            DEF Server, ServerInitialize, ServerUnreadable, ServerReply, ServerFire,
                Connection, Boot, BootBuild, BootSend, BootReady, BootTimeout, RunHandler,
                vars, ipcVars, callVars
    <2> QED  BY <2>1, <2>2, <2>3, TableQuiet
<1> QED  BY <1>1, TableCall, TableDispatch DEF Next

-----------------------------------------------------------------------------
(* Events                                                                  *)

LEMMA ConsumedSent ==
    ASSUME TypeInv, Delivery
    PROVE  consumed <= serverID /\ consumed \in Nat /\ serverID \in Nat
<1>1. PICK before : Numbered(before)
    BY DEF Delivery
<1>2. /\ inbound \in Seq(Seq(Frames)) /\ regularCh \in Seq(Frames) /\ batch \in Seq(Frames)
      /\ consumed \in Nat /\ serverID \in Nat
    BY DEF TypeInv, ConnTypeOK
<1>3. Len(inbound) \in Nat /\ Len(regularCh) \in Nat /\ Regulars(batch) \in Nat
    BY <1>2 DEF Regulars
<1>4. before[1] <= serverID /\ before[1] = Queued + Regulars(batch)
    BY <1>1, <1>3 DEF Numbered
<1> QED  BY <1>2, <1>3, <1>4 DEF Queued

(* readLoop does not come back.                                            *)
LEMMA ReaderActive ==
    ASSUME [ConnNext]_connVars, reader' \in {"read", "decode", "select"}
    PROVE  reader \in {"read", "decode", "select"}
BY DEF ConnNext, ServerWrites, ServerRegular, ServerBare, NetworkFailure, ReadLoop,
       ReadMessage, ReadError, DecodeFrame, DeliverFrame, Advance, AbandonDelivery,
       ReaderSignals, ReaderClosesRegular, KeepAliveLoop, KeepAliveTick, KeepAliveSend,
       KeepAliveStop, Send, BuildFrame, WriteFails, WriteFrame, Close, RecvRegular,
       RecvEnd, TakeControl, connVars, readVars

(* Subscriptions.                                                          *)
LEMMA EventHandlersStep ==
    ASSUME IPCInv, [Next]_vars
    PROVE  \A s \in Subscriptions :
               pc'[s] \in {"send", "sendError", "listening"} => eventHandlers'[id'[s]] = s
<1>1. /\ IPCTypes /\ Fresh
      /\ \A s \in Subscriptions : s \in Users /\ s \notin Calls /\ s # NoOne
      /\ \A s \in Subscriptions :
            pc[s] \in {"send", "sendError", "listening"} => eventHandlers[id[s]] = s
    BY UserKinds DEF IPCInv, EventsInv
<1>2. /\ eventHandlers \in [IDs -> Subscriptions \cup {NoOne}] /\ id \in [Users -> Nat]
      /\ pc \in [Users -> Steps]
    BY <1>1 DEF IPCTypes
<1>3. ASSUME NEW s \in Subscriptions, NEW u \in Subscriptions, pc[u] # "idle",
             pc[s] # "idle", u # s
      PROVE  id[u] \in IDs /\ id[u] # id[s]
    BY <1>1, <1>3, IDInTable, UsersFinite DEF Fresh
<1>4. ASSUME UNCHANGED eventHandlers,
             \A s \in Subscriptions : id'[s] = id[s] /\ pc'[s] = pc[s]
      PROVE  \A s \in Subscriptions :
                 pc'[s] \in {"send", "sendError", "listening"} => eventHandlers'[id'[s]] = s
    BY <1>1, <1>4
<1>5. ASSUME NEW s \in Subscriptions, Subscribe(s), NEW u \in Subscriptions,
             pc'[u] \in {"send", "sendError", "listening"}
      PROVE  eventHandlers'[id'[u]] = u
    <2> USE DEF Goto
    <2>1. CASE ListenStart(s)
        <3>1. /\ UNCHANGED eventHandlers /\ pc'[s] = "start"
              /\ \A t \in Subscriptions \ {s} : id'[t] = id[t] /\ pc'[t] = pc[t]
            BY <1>1, <1>2, <2>1 DEF ListenStart, TakeID
        <3> QED  BY <1>1, <1>5, <3>1
    <2>2. CASE ListenRegister(s) \/ ListenDrop(s)
        <3>1. pc[s] # "idle" /\ id[s] \in IDs
            BY <1>1, <2>2, IDInTable DEF ListenRegister, ListenDrop
        <3>2. /\ UNCHANGED id
              /\ \A t \in Subscriptions \ {s} : pc'[t] = pc[t]
              /\ \/ eventHandlers'[id[s]] = s
                 \/ pc'[s] \in {"done", "dispose"}
              /\ \A i \in IDs \ {id[s]} : eventHandlers'[i] = eventHandlers[i]
            BY <1>1, <1>2, <2>2, <3>1 DEF ListenRegister, ListenDrop
        <3> QED  BY <1>1, <1>3, <1>5, <3>1, <3>2
    <2>3. CASE ListenBuild(s)
        BY <1>1, <1>5, <2>3 DEF ListenBuild, ipcVars, callVars, tableVars
    <2>4. CASE ListenSend(s) \/ DisposeSend(s)
        BY <1>1, <1>2, <1>5, <2>4 DEF ListenSend, DisposeSend, tableVars
    <2> QED  BY <1>5, <2>1, <2>2, <2>3, <2>4 DEF Subscribe
<1>6. ASSUME NEW c \in Calls, CallStart(c) \/ Proceed(c)
      PROVE  \A s \in Subscriptions :
                 pc'[s] \in {"send", "sendError", "listening"} => eventHandlers'[id'[s]] = s
    <2>1. /\ UNCHANGED eventHandlers
          /\ \A s \in Subscriptions : id'[s] = id[s] /\ pc'[s] = pc[s]
        BY <1>1, <1>2, <1>6
        DEF CallStart, Proceed, CallRegister, CallBuild, CallSend, CallSendFails,
            CallReceive, CallTimeout, CallGiveUp, TakeID, Goto, ipcVars, callVars, tableVars
    <2> QED  BY <1>4, <2>1
<1>7. CASE UNCHANGED <<eventHandlers, id, pc>>
    BY <1>4, <1>7
<1>8. \/ UNCHANGED <<eventHandlers, id, pc>>
      \/ \E c \in Calls : CallStart(c) \/ Proceed(c)
      \/ \E s \in Subscriptions : Subscribe(s)
    BY DEF Next, Server, ServerInitialize, ServerUnreadable, ServerReply, ServerFire,
           Connection, Boot, BootBuild, BootSend, BootReady, BootTimeout, Dispatch,
           DispatchRecv, DispatchSkip, DispatchInitialize, DispatchReply,
           DispatchDeliver, DispatchEvent, DispatchEnd, RunHandler, vars, ipcVars,
           callVars, tableVars
<1> QED  BY <1>5, <1>6, <1>7, <1>8

(* Subscribers that leave do not come back.                                *)
LEMMA LeavingStays ==
    ASSUME IPCInv, [Next]_vars, NEW s \in Subscriptions, pc[s] \in {"dispose", "done"}
    PROVE  pc'[s] \in {"dispose", "done"}
<1>1. pc \in [Users -> Steps] /\ s \in Users /\ s \notin Calls
    BY UserKinds DEF IPCInv, IPCTypes
<1>2. ASSUME NEW c \in Calls, CallStart(c) \/ Proceed(c)
      PROVE  pc'[s] = pc[s]
    BY <1>1, <1>2
    DEF CallStart, Proceed, CallRegister, CallBuild, CallSend, CallSendFails, CallReceive,
        CallTimeout, CallGiveUp, Goto, ipcVars, callVars
<1>3. ASSUME NEW u \in Subscriptions, Subscribe(u)
      PROVE  pc'[s] \in {"dispose", "done"}
    BY <1>1, <1>3
    DEF Subscribe, ListenStart, ListenRegister, ListenBuild, ListenSend, ListenDrop,
        DisposeSend, Goto, ipcVars, callVars
<1>4. \/ UNCHANGED pc
      \/ \E c \in Calls : CallStart(c) \/ Proceed(c)
      \/ \E u \in Subscriptions : Subscribe(u)
    BY DEF Next, Server, ServerInitialize, ServerUnreadable, ServerReply, ServerFire,
           Connection, Boot, BootBuild, BootSend, BootReady, BootTimeout, Dispatch,
           DispatchRecv, DispatchSkip, DispatchInitialize, DispatchReply,
           DispatchDeliver, DispatchEvent, DispatchEnd, RunHandler, vars, ipcVars,
           callVars
<1> QED  BY <1>2, <1>3, <1>4

(* Where an event is, or that it need not be anywhere.                     *)
Placed(e) ==
    \/ e.event > consumed
    \/ current.ID = e.event
    \/ e \in tasks \cup handled
    \/ pc[e.sub] \in {"dispose", "done"}

LEMMA PlacedDispatch ==
    ASSUME TypeInv, Delivery, IPCInv, Dispatch, NEW e \in fired, Placed(e)
    PROVE  Placed(e)'
<1>1. /\ e.sub \in Subscriptions /\ e.event \in Nat /\ e = [sub |-> e.sub, event |-> e.event]
      /\ e.event # 0 /\ Listened(e.sub)
    BY ConsumedSent DEF IPCInv, IPCTypes, Events, ServerInv
<1>2. CASE DispatchRecv
    <2>1. consumed' = consumed + 1 /\ consumed \in Nat
        BY <1>2, DeliveryRecv, ConsumedSent DEF DispatchRecv
    <2>2. current'.ID = consumed' /\ current = NoFrame /\ UNCHANGED <<tasks, handled, pc>>
        BY <1>2 DEF DispatchRecv, RecvRegular, IPCInv, FramesInv, eventVars, callVars
    <2>3. current.ID # e.event
        BY <1>1, <2>2 DEF NoFrame
    <2> QED  BY <1>1, <2>1, <2>2, <2>3 DEF Placed
<1>3. CASE DispatchSkip \/ DispatchInitialize \/ DispatchDeliver
    <2>1. dispatch # "recv" /\ current.Payload.type # "EventFire"
        BY <1>3 DEF DispatchSkip, DispatchInitialize, DispatchDeliver, IPCInv, TableInv,
                    Replies
    <2>2. current.ID # e.event
        BY <2>1, CurrentKnown
    <2>3. UNCHANGED <<consumed, tasks, handled, pc>>
        BY <1>3 DEF DispatchSkip, DispatchInitialize, DispatchDeliver, connVars, recvVars,
                    eventVars, callVars
    <2> QED  BY <2>2, <2>3 DEF Placed
<1>4. CASE DispatchReply
    <2>1. dispatch # "recv" /\ current.Payload.type # "EventFire"
        BY <1>4 DEF DispatchReply, Replies
    <2>2. current.ID # e.event
        BY <2>1, CurrentKnown
    <2>3. UNCHANGED <<consumed, tasks, handled, pc>>
        BY <1>4 DEF DispatchReply, connVars, recvVars, eventVars, callVars
    <2> QED  BY <2>2, <2>3 DEF Placed
<1>5. CASE DispatchEvent
    <2>1. UNCHANGED <<consumed, handled, pc>> /\ tasks \subseteq tasks' /\ dispatch # "recv"
        BY <1>5 DEF DispatchEvent, connVars, recvVars, callVars
    <2>2. CASE current.ID = e.event /\ pc[e.sub] = "listening"
        <3>1. current.Payload.id = id[e.sub] /\ eventHandlers[id[e.sub]] = e.sub
            BY <1>1, <2>1, <2>2, CurrentKnown DEF IPCInv, EventsInv
        <3>2. e.sub # NoOne
            BY <1>1, UserKinds
        <3>3. e \in tasks'
            BY <1>1, <1>5, <2>2, <3>1, <3>2 DEF DispatchEvent
        <3> QED  BY <3>3 DEF Placed
    <2> QED  BY <1>1, <2>1, <2>2 DEF Placed, Listened
<1>6. CASE DispatchEnd
    BY <1>6 DEF DispatchEnd, RecvEnd, Placed, ipcVars, eventVars, dispatchVars, callVars
<1> QED  BY <1>2, <1>3, <1>4, <1>5, <1>6 DEF Dispatch

LEMMA EventsStep ==
    ASSUME TypeInv, Delivery, IPCInv, [Next]_vars
    PROVE  EventsInv'
<1>1. [ConnNext]_connVars
    BY ConnStep DEF IPCInv
<1>2. SUFFICES ASSUME reader' \in {"read", "decode", "select"}, NEW e \in fired'
               PROVE  Placed(e)'
    BY EventHandlersStep DEF EventsInv, NoEventMissed, Placed
<1>3. reader \in {"read", "decode", "select"}
    BY <1>1, <1>2, ReaderActive
<1>4. e \in fired => Placed(e) /\ e.sub \in Subscriptions
    BY <1>3 DEF IPCInv, EventsInv, NoEventMissed, Placed, IPCTypes, Events
<1>5. ASSUME UNCHANGED <<consumed, current>>, tasks \cup handled \subseteq tasks' \cup handled',
             e \in fired
      PROVE  Placed(e)'
    BY <1>4, <1>5, LeavingStays DEF Placed
<1>6. CASE Server
    <2>1. UNCHANGED <<consumed, current, tasks, handled>>
        BY <1>6 DEF Server, ServerInitialize, ServerUnreadable, ServerReply, ServerFire,
                    ServerRegular, recvVars, ipcVars, dispatchVars, eventVars
    <2>2. CASE e \in fired
        BY <1>5, <2>1, <2>2
    <2>3. CASE e \notin fired
        <3>1. PICK s \in Subscriptions : ServerFire(s)
            BY <1>2, <1>6, <2>3
            DEF Server, ServerInitialize, ServerUnreadable, ServerReply, ipcVars, worldVars
        <3>2. serverID' = serverID + 1
            BY <3>1, ConsumedSent DEF ServerFire, ServerRegular
        <3>3. e.event = serverID'
            BY <1>2, <2>3, <3>1 DEF ServerFire
        <3> QED  BY <2>1, <3>2, <3>3, ConsumedSent DEF Placed
    <2> QED  BY <2>2, <2>3
<1>7. CASE Dispatch
    <2>1. e \in fired
        BY <1>2, <1>7
        DEF Dispatch, DispatchRecv, DispatchSkip, DispatchInitialize, DispatchReply,
            DispatchDeliver, DispatchEvent, DispatchEnd, ipcVars, worldVars
    <2> QED  BY <1>4, <1>7, <2>1, PlacedDispatch
<1>8. ASSUME NEW t \in tasks, RunHandler(t)
      PROVE  Placed(e)'
    BY <1>2, <1>5, <1>8 DEF RunHandler, connVars, recvVars, dispatchVars, worldVars
<1>9. CASE Connection \/ Boot \/ UNCHANGED vars
    <2>1. UNCHANGED <<consumed, current, tasks, handled, fired>>
        BY <1>9
        DEF Connection, ReadLoop, ReadMessage, ReadError, DecodeFrame, DeliverFrame,
            AbandonDelivery, ReaderSignals, ReaderClosesRegular, NetworkFailure, Close,
            Boot, BootBuild, BootSend, BootReady, BootTimeout, BuildFrame, WriteFails,
            WriteFrame, vars, connVars, ipcVars, recvVars, dispatchVars, eventVars, worldVars
    <2> QED  BY <1>2, <1>5, <2>1
<1>10. ASSUME NEW c \in Calls, CallStart(c) \/ Proceed(c)
       PROVE  Placed(e)'
    <2>1. UNCHANGED <<consumed, current, tasks, handled, fired>>
        BY <1>10
        DEF CallStart, Proceed, CallRegister, CallBuild, CallSend, CallSendFails,
            CallReceive, CallTimeout, CallGiveUp, BuildFrame, WriteFails, WriteFrame,
            connVars, ipcVars, recvVars, dispatchVars, eventVars, worldVars
    <2> QED  BY <1>2, <1>5, <2>1
<1>11. ASSUME NEW s \in Subscriptions, Subscribe(s)
       PROVE  Placed(e)'
    <2>1. UNCHANGED <<consumed, current, tasks, handled, fired>>
        BY <1>11
        DEF Subscribe, ListenStart, ListenRegister, ListenBuild, ListenSend, ListenDrop,
            DisposeSend, BuildFrame, WriteFails, WriteFrame, connVars, ipcVars, recvVars,
            dispatchVars, eventVars, worldVars
    <2> QED  BY <1>2, <1>5, <2>1
<1> QED  BY <1>6, <1>7, <1>8, <1>9, <1>10, <1>11 DEF Next

-----------------------------------------------------------------------------
(* The theorems                                                            *)

IPCSafe == TypeInv /\ Delivery /\ IPCInv

LEMMA IPCInvStep == IPCSafe /\ [Next]_vars => IPCSafe'
<1> SUFFICES ASSUME IPCSafe, [Next]_vars  PROVE IPCSafe'
    OBVIOUS
<1>1. TypeInv /\ Delivery /\ IPCInv
    BY DEF IPCSafe
<1>2. [ConnNext]_connVars
    BY <1>1, ConnStep DEF IPCInv
<1>3. TypeInv' /\ Delivery'
    BY <1>1, <1>2, TypeStep, DeliveryStep
<1>4. IPCInv'
    BY <1>1, TypesStep, FreshStep, ServerStep, FramesStep, TableStep, EventsStep,
       UnreturnedStep
    DEF IPCInv
<1> QED  BY <1>3, <1>4 DEF IPCSafe

LEMMA IPCInvariant == Safety => []IPCSafe
<1>1. Init => IPCSafe
    BY TypeInit, DeliveryInit, IPCInit DEF IPCSafe, Init
<1> QED  BY <1>1, IPCInvStep, PTL DEF Safety

(* The client uses its connection as Conn allows, so that all Conn promises*)
(* holds under it: what IPCClient adds are senders and a consumer.         *)
THEOREM IPCClientIsConn == Safety => ConnSafety
<1>1. Init => ConnInit
    BY DEF Init
<1>2. IPCSafe /\ [Next]_vars => [ConnNext]_connVars
    BY ConnStep DEF IPCSafe, IPCInv
<1> QED  BY <1>1, <1>2, IPCInvariant, PTL DEF Safety, ConnSafety

(* A call that waits can still be answered: no interleaving of register,   *)
(* send, timeout and dispatch leaves it without a way for its answer.      *)
THEOREM WaitingIsReachableHolds == Safety => []WaitingIsReachable
<1>1. IPCSafe => WaitingIsReachable
    BY DEF IPCSafe, IPCInv, TableInv
<1> QED  BY <1>1, IPCInvariant, PTL

(* dispatchLoop never finds a response channel full, because it takes the  *)
(* channel out of the table under the lock and each is registered once.    *)
THEOREM DispatchNeverBlocksHolds == Safety => []DispatchNeverBlocks
<1>1. IPCSafe => DispatchNeverBlocks
    BY DEF IPCSafe, IPCInv, TableInv, DispatchNeverBlocks
<1> QED  BY <1>1, IPCInvariant, PTL

(* A call that has returned is not in c.handlers, under any id.            *)
THEOREM NoHandlerLeftHolds == Safety => []NoHandlerLeft
<1>1. IPCSafe => NoHandlerLeft
    BY DEF IPCSafe, IPCInv, TableInv, NoHandlerLeft
<1> QED  BY <1>1, IPCInvariant, PTL

(* Between Listen and unsubscribe every event the server fires is on its   *)
(* way, with dispatchLoop, waiting for its goroutine, or handled.          *)
THEOREM NoEventMissedHolds == Safety => []NoEventMissed
<1>1. IPCSafe => NoEventMissed
    BY DEF IPCSafe, IPCInv, EventsInv
<1> QED  BY <1>1, IPCInvariant, PTL

(* Call implements RPC: a call returns once, with an answer the server gave*)
(* to that very call, a timeout, or the error of a send that never left.   *)
THEOREM ImplementsRPCHolds == Safety => ImplementsRPC
<1> DEFINE phases == [c \in Calls |-> Phase(c)]
           rpcVars == <<phases, replies, result>>
<1>1. Init => Abstract!Init
    <2> SUFFICES ASSUME Init  PROVE Abstract!Init
        OBVIOUS
    <2>1. \A c \in Calls : Phase(c) = "idle"
        BY DEF Init, Phase
    <2> QED  BY <2>1 DEF Init, Abstract!Init
<1>2. IPCSafe /\ [Next]_vars => [Abstract!Next]_rpcVars
    <2> SUFFICES ASSUME IPCSafe, [Next]_vars
                 PROVE  Abstract!Next \/ UNCHANGED rpcVars
        OBVIOUS
    <2>1. IPCInv /\ IPCTypes /\ Fresh /\ \A c \in Calls : c \in Users /\ c \notin Subscriptions
        BY UserKinds DEF IPCSafe, IPCInv
    <2>2. /\ pc \in [Users -> Steps] /\ replies \in [Calls -> SUBSET Replies]
          /\ result \in [Calls -> Replies \cup {"none", "Timeout", "SendError"}]
          /\ ch \in [Calls -> {<<>>} \cup {<<m>> : m \in IPCPayloads}]
        BY <2>1 DEF IPCTypes
    <2>3. ASSUME \A c \in Calls : Phase(c)' = Phase(c), UNCHANGED <<replies, result>>
          PROVE  UNCHANGED rpcVars
        <3>1. phases' = phases
            BY <2>3
        <3> QED  BY <2>3, <3>1
    <2>4. ASSUME NEW c \in Calls, NEW there \in Steps, Goto(c, there)
          PROVE  phases' = [phases EXCEPT ![c] = Phase(c)']
                 /\ pc'[c] = there
        <3>1. pc'[c] = there /\ \A d \in Calls \ {c} : pc'[d] = pc[d]
            BY <2>1, <2>2, <2>4 DEF Goto
        <3>2. \A d \in Calls \ {c} : Phase(d)' = Phase(d)
            BY <3>1 DEF Phase
        <3> QED  BY <3>1, <3>2
    <2>5. ASSUME NEW c \in Calls, CallStart(c)  PROVE Abstract!Next
        <3>1. /\ phases' = [phases EXCEPT ![c] = Phase(c)'] /\ pc'[c] = "start"
              /\ pc[c] = "idle" /\ UNCHANGED <<replies, result>>
            BY <2>4, <2>5 DEF CallStart, Steps, worldVars
        <3>2. phases[c] = "idle" /\ Phase(c)' = "pending"
            BY <3>1 DEF Phase
        <3>3. Abstract!Issue(c)
            BY <3>1, <3>2 DEF Abstract!Issue
        <3> QED  BY <3>3 DEF Abstract!Next
    <2>6. ASSUME NEW c \in Calls, NEW r \in Replies \cup {"Timeout", "SendError"},
                 Goto(c, "done"), pc[c] \notin {"idle", "done"}, UNCHANGED replies,
                 result' = [result EXCEPT ![c] = r],
                 \/ r \in replies[c] \cup {"Timeout"}
                 \/ r = "SendError" /\ replies[c] = {}
          PROVE  Abstract!Next
        <3>1. phases' = [phases EXCEPT ![c] = Phase(c)'] /\ pc'[c] = "done"
            BY <2>4, <2>6 DEF Steps
        <3>2. phases[c] = "pending" /\ Phase(c)' = "done"
            BY <2>6, <3>1 DEF Phase
        <3>3. Abstract!Return(c, r)
            BY <2>6, <3>1, <3>2 DEF Abstract!Return
        <3> QED  BY <3>3 DEF Abstract!Next
    <2>7. ASSUME NEW c \in Calls, CallReceive(c)  PROVE Abstract!Next
        <3>1. PICK m \in IPCPayloads : ch[c] = <<m>>
            BY <2>2, <2>7 DEF CallReceive
        <3>2. Head(ch[c]) = m /\ ch[c][1] = m
            BY <3>1
        <3>3. m.type \in replies[c] /\ m.type \in Replies
            BY <2>1, <2>2, <2>7, <3>2 DEF CallReceive, IPCInv, TableInv
        <3> QED  BY <2>6, <2>7, <3>2, <3>3 DEF CallReceive, worldVars
    <2>8. ASSUME NEW c \in Calls, CallGiveUp(c)  PROVE Abstract!Next
        <3>1. CASE pc[c] = "timeout"
            BY <2>6, <2>8, <3>1 DEF CallGiveUp, worldVars
        <3>2. CASE pc[c] = "sendError"
            <4>1. replies[c] = {}
                BY <2>1, <3>2 DEF IPCInv, ServerInv, Answerable
            <4> QED  BY <2>6, <2>8, <3>2, <4>1 DEF CallGiveUp, worldVars
        <3> QED  BY <2>8, <3>1, <3>2 DEF CallGiveUp
    <2>9. ASSUME NEW c \in Calls, Proceed(c), ~CallReceive(c), ~CallGiveUp(c)
          PROVE  UNCHANGED rpcVars
        <3>1. \A d \in Calls : Phase(d)' = Phase(d)
            BY <2>1, <2>2, <2>9
            DEF Proceed, CallRegister, CallBuild, CallSend, CallSendFails, CallTimeout,
                Goto, Phase, ipcVars, callVars
        <3>2. UNCHANGED <<replies, result>>
            BY <2>9
            DEF Proceed, CallRegister, CallBuild, CallSend, CallSendFails, CallTimeout,
                ipcVars, callVars, worldVars
        <3> QED  BY <2>3, <3>1, <3>2
    <2>10. ASSUME NEW s \in Subscriptions, Subscribe(s)  PROVE UNCHANGED rpcVars
        <3>1. \A d \in Calls : pc'[d] = pc[d]
            BY <2>1, <2>2, <2>10
            DEF Subscribe, ListenStart, ListenRegister, ListenBuild, ListenSend, ListenDrop,
                DisposeSend, Goto, ipcVars, callVars
        <3>2. UNCHANGED <<replies, result>>
            BY <2>10
            DEF Subscribe, ListenStart, ListenRegister, ListenBuild, ListenSend, ListenDrop,
                DisposeSend, ipcVars, callVars, worldVars
        <3> QED  BY <2>3, <3>1, <3>2 DEF Phase
    <2>11. ASSUME NEW c \in Calls, NEW type \in Replies, ServerReply(c, type)
           PROVE  Abstract!Next
        <3>1. UNCHANGED <<pc, result>> /\ replies' = [replies EXCEPT ![c] = @ \cup {type}]
            BY <2>11 DEF ServerReply, callVars
        <3>2. Answerable(c)
            <4>1. PICK i \in IDs : Received(Message("Promise", i, c))
                BY <2>11 DEF ServerReply
            <4>2. Message("Promise", i, c) \in IPCPayloads
                BY PayloadOf, IPCAssumption
            <4> QED  BY <2>1, <4>1, <4>2 DEF IPCInv, ServerInv, Asked, Message
        <3>3. phases' = phases
            BY <3>1 DEF Phase
        <3>4. phases[c] # "idle" /\ result[c] # "SendError"
            <4>1. phases[c] # "idle"
                BY <3>2 DEF Answerable, Phase
            <4>2. pc[c] \in {"wait", "timeout"} => result[c] # "SendError"
                BY <2>1 DEF IPCInv, Unreturned
            <4> QED  BY <3>2, <4>1, <4>2 DEF Answerable
        <3>5. Abstract!Reply(c, type)
            BY <3>1, <3>3, <3>4 DEF Abstract!Reply
        <3> QED  BY <3>5 DEF Abstract!Next
    <2>12. CASE UNCHANGED <<pc, replies, result>>
        BY <2>3, <2>12 DEF Phase
    <2>13. \/ UNCHANGED <<pc, replies, result>>
           \/ \E c \in Calls, type \in Replies : ServerReply(c, type)
           \/ \E c \in Calls : CallStart(c) \/ Proceed(c)
           \/ \E s \in Subscriptions : Subscribe(s)
        BY DEF Next, Server, ServerInitialize, ServerUnreadable, ServerFire,
               Connection, Boot, BootBuild, BootSend, BootReady, BootTimeout, Dispatch,
               DispatchRecv, DispatchSkip, DispatchInitialize, DispatchReply,
               DispatchDeliver, DispatchEvent, DispatchEnd, RunHandler, vars, ipcVars,
               callVars, worldVars
    <2> QED  BY <2>5, <2>7, <2>8, <2>9, <2>10, <2>11, <2>12, <2>13
<1> QED  BY <1>1, <1>2, IPCInvariant, PTL DEF Safety, ImplementsRPC, Abstract!Spec

=============================================================================
