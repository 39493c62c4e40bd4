----------------------------- MODULE IPCClient ------------------------------
(***************************************************************************)
(* internal/protocol/ipc.go on top of a Conn.  Callers register a channel  *)
(* under a fresh id, send a request and wait; dispatchLoop, the consumer   *)
(* of RegularMessages(), matches responses to them by id and starts a      *)
(* goroutine per event.  The serialised bytes are abstracted to what the   *)
(* code reads back from them: type, id, and whose request it was.          *)
(*                                                                         *)
(* Definitions marked Slip are not the code: they are mistakes it could    *)
(* have made, which the properties below notice.                           *)
(***************************************************************************)
EXTENDS Conn, FiniteSets

CONSTANTS
    Calls,          \* the invocations of Call
    Subscriptions,  \* the invocations of Listen
    Main,           \* the goroutine that runs NewIPCClient
    NoOne           \* neither a call nor a subscription

IDs == 1 .. (Cardinality(Calls) + Cardinality(Subscriptions))

Replies   == {"PromiseSuccess", "PromiseError"}
Message(type, id, who) == [type |-> type, id |-> id, who |-> who]

IPCPayloads ==
    [type : {"Context", "Initialize", "Unreadable"}, id : {0}, who : {NoOne}]
    \cup [type : {"Promise"} \cup Replies, id : IDs, who : Calls]
    \cup [type : {"EventListen", "EventDispose", "EventFire"}, id : IDs,
          who : Subscriptions]

ASSUME IPCAssumption ==
    /\ IsFiniteSet(Calls) /\ IsFiniteSet(Subscriptions)
    /\ Calls \cap Subscriptions = {}
    /\ Main \notin Calls \cup Subscriptions
    /\ NoOne \notin Calls \cup Subscriptions
    /\ Senders = Calls \cup Subscriptions \cup {Main}
    /\ Payloads = IPCPayloads
    /\ MaxSends >= 1 + Cardinality(Calls) + 2 * Cardinality(Subscriptions)
    /\ MaxMessage >= 1

VARIABLES
    boot,           \* where Main is
    initialized,    \* TRUE once c.initialized is closed
    nextID,         \* c.nextID
    id,             \* per call and subscription: its id, 0 before it has one
    pc,             \* per call and subscription: where it is
    handlers,       \* c.handlers: the call whose channel is registered
    eventHandlers,  \* c.eventHandlers, likewise
    ch,             \* per call: its response channel, of capacity 1
    result,         \* per call: what it returned
    dispatch,       \* where dispatchLoop is
    current,        \* the frame it handles
    target,         \* the call whose channel it has found
    tasks,          \* events whose handler's goroutine has not run yet
    handled,        \* events whose handler has run
    replies,        \* external: per call, the outcomes the server answered
    fired           \* external: the events the server has fired

callVars     == <<id, pc, ch, result>>
tableVars    == <<nextID, handlers, eventHandlers>>
dispatchVars == <<dispatch, current, target>>
eventVars    == <<tasks, handled>>
worldVars    == <<replies, fired>>
ipcVars      == <<boot, initialized, callVars, tableVars, dispatchVars,
                  eventVars, worldVars>>
vars         == <<connVars, ipcVars>>

NoFrame == [ID |-> 0]

Init ==
    /\ ConnInit
    /\ boot = "context"
    /\ initialized = FALSE
    /\ nextID = 0
    /\ id = [x \in Calls \cup Subscriptions |-> 0]
    /\ pc = [x \in Calls \cup Subscriptions |-> "idle"]
    /\ handlers = [i \in IDs |-> NoOne]
    /\ eventHandlers = [i \in IDs |-> NoOne]
    /\ ch = [c \in Calls |-> <<>>]
    /\ result = [c \in Calls |-> "none"]
    /\ dispatch = "recv" /\ current = NoFrame /\ target = NoOne
    /\ tasks = {} /\ handled = {}
    /\ replies = [c \in Calls |-> {}] /\ fired = {}

-----------------------------------------------------------------------------
(* External: the server.  It waits for the context, answers requests in    *)
(* any order, perhaps more than once, and fires events for the             *)
(* subscriptions it has seen.                                              *)

Received(m) == \E i \in DOMAIN outbound : outbound[i].Payload = m

ServerInitialize ==
    /\ Received(Message("Context", 0, NoOne))
    /\ serverID = 0
    /\ ServerRegular(<<Message("Initialize", 0, NoOne)>>)
    /\ UNCHANGED ipcVars

ServerUnreadable ==
    /\ serverID # 0
    /\ ServerRegular(<<Message("Unreadable", 0, NoOne)>>)
    /\ UNCHANGED ipcVars

ServerReply(c, type) ==
    /\ \E i \in IDs :
          /\ Received(Message("Promise", i, c))
          /\ ServerRegular(<<Message(type, i, c)>>)
    /\ replies' = [replies EXCEPT ![c] = @ \cup {type}]
    /\ UNCHANGED <<boot, initialized, callVars, tableVars, dispatchVars,
                   eventVars, fired>>

ServerFire(s) ==
    /\ \E i \in IDs :
          /\ Received(Message("EventListen", i, s))
          /\ ~Received(Message("EventDispose", i, s))
          /\ ServerRegular(<<Message("EventFire", i, s)>>)
    /\ fired' = fired \cup {[sub |-> s, event |-> serverID']}
    /\ UNCHANGED <<boot, initialized, callVars, tableVars, dispatchVars,
                   eventVars, replies>>

-----------------------------------------------------------------------------
(* Main: NewIPCClient and WaitInitialized.                                 *)

BootBuild ==
    /\ boot = "context"
    /\ BuildFrame(Main)
    /\ UNCHANGED ipcVars

(* The error of sending the context is ignored.                            *)
BootSend ==
    /\ boot = "context"
    /\ WriteFrame(Main, Message("Context", 0, NoOne)) \/ WriteFails(Main)
    /\ boot' = "wait"
    /\ UNCHANGED <<initialized, callVars, tableVars, dispatchVars, eventVars,
                   worldVars>>

BootReady ==
    /\ boot = "wait"
    /\ initialized
    /\ boot' = "ready"
    /\ UNCHANGED <<connVars, initialized, callVars, tableVars, dispatchVars,
                   eventVars, worldVars>>

BootTimeout ==
    /\ boot = "wait"
    /\ boot' = "failed"
    /\ UNCHANGED <<connVars, initialized, callVars, tableVars, dispatchVars,
                   eventVars, worldVars>>

-----------------------------------------------------------------------------
(* Call                                                                    *)

Goto(x, there) == pc' = [pc EXCEPT ![x] = there]

(* Slip: racing callers take the same id.                                  *)
ReuseID(x) ==
    /\ nextID' = nextID + 1
    /\ id' = [id EXCEPT ![x] = IF \E y \in DOMAIN pc : pc[y] = "start"
                               THEN nextID ELSE nextID + 1]

(* c.nextID.Add(1), before the id is used.                                 *)
TakeID(x) ==
    /\ nextID' = nextID + 1
    /\ id' = [id EXCEPT ![x] = nextID + 1]

CallStart(c) ==
    /\ boot = "ready"
    /\ pc[c] = "idle"
    /\ TakeID(c)
    /\ Goto(c, "start")
    /\ UNCHANGED <<connVars, boot, initialized, ch, result, handlers,
                   eventHandlers, dispatchVars, eventVars, worldVars>>

CallRegister(c) ==
    /\ pc[c] = "start"
    /\ handlers' = [handlers EXCEPT ![id[c]] = c]
    /\ Goto(c, "send")
    /\ UNCHANGED <<connVars, boot, initialized, id, ch, result, nextID,
                   eventHandlers, dispatchVars, eventVars, worldVars>>

CallBuild(c) ==
    /\ pc[c] = "send"
    /\ BuildFrame(c)
    /\ UNCHANGED ipcVars

CallSend(c) ==
    /\ pc[c] = "send"
    /\ WriteFrame(c, Message("Promise", id[c], c))
    /\ Goto(c, "wait")
    /\ UNCHANGED <<boot, initialized, id, ch, result, tableVars, dispatchVars,
                   eventVars, worldVars>>

CallSendFails(c) ==
    /\ pc[c] = "send"
    /\ WriteFails(c)
    /\ Goto(c, "sendError")
    /\ UNCHANGED <<boot, initialized, id, ch, result, tableVars, dispatchVars,
                   eventVars, worldVars>>

(* A response that has come in does not exclude the timer.                 *)
CallReceive(c) ==
    /\ pc[c] = "wait"
    /\ ch[c] # <<>>
    /\ ch' = [ch EXCEPT ![c] = Tail(@)]
    /\ result' = [result EXCEPT ![c] = Head(ch[c]).type]
    /\ Goto(c, "done")
    /\ UNCHANGED <<connVars, boot, initialized, id, tableVars, dispatchVars,
                   eventVars, worldVars>>

(* Slip: no timer once the connection is closed.                           *)
TimerOnlyWhileOpen(c) ==
    /\ pc[c] = "wait"
    /\ ~closed
    /\ Goto(c, "timeout")
    /\ UNCHANGED <<connVars, boot, initialized, id, ch, result, tableVars,
                   dispatchVars, eventVars, worldVars>>

(* Slip: a timeout leaves its handler behind.                              *)
TimeoutKeepsHandler(c) ==
    /\ pc[c] = "wait"
    /\ Goto(c, "done")
    /\ result' = [result EXCEPT ![c] = "Timeout"]
    /\ UNCHANGED <<connVars, boot, initialized, id, ch, tableVars,
                   dispatchVars, eventVars, worldVars>>

CallTimeout(c) ==
    /\ pc[c] = "wait"
    /\ Goto(c, "timeout")
    /\ UNCHANGED <<connVars, boot, initialized, id, ch, result, tableVars,
                   dispatchVars, eventVars, worldVars>>

(* Slip: a failed call clears the whole table.                             *)
DropAllHandlers(c) == handlers' = [i \in IDs |-> NoOne]

(* delete(c.handlers, id), then the error is returned.                     *)
DropHandler(c) == handlers' = [handlers EXCEPT ![id[c]] = NoOne]

CallGiveUp(c) ==
    /\ pc[c] \in {"sendError", "timeout"}
    /\ DropHandler(c)
    /\ result' = [result EXCEPT ![c] =
                     IF pc[c] = "timeout" THEN "Timeout" ELSE "SendError"]
    /\ Goto(c, "done")
    /\ UNCHANGED <<connVars, boot, initialized, id, ch, nextID, eventHandlers,
                   dispatchVars, eventVars, worldVars>>

-----------------------------------------------------------------------------
(* Listen, and the function it returns.                                    *)

ListenStart(s) ==
    /\ boot = "ready"
    /\ pc[s] = "idle"
    /\ TakeID(s)
    /\ Goto(s, "start")
    /\ UNCHANGED <<connVars, boot, initialized, ch, result, handlers,
                   eventHandlers, dispatchVars, eventVars, worldVars>>

ListenRegister(s) ==
    /\ pc[s] = "start"
    /\ eventHandlers' = [eventHandlers EXCEPT ![id[s]] = s]
    /\ Goto(s, "send")
    /\ UNCHANGED <<connVars, boot, initialized, id, ch, result, nextID,
                   handlers, dispatchVars, eventVars, worldVars>>

ListenBuild(s) ==
    /\ pc[s] \in {"send", "dispose"}
    /\ BuildFrame(s)
    /\ UNCHANGED ipcVars

ListenSend(s) ==
    /\ pc[s] = "send"
    /\ \/ /\ WriteFrame(s, Message("EventListen", id[s], s))
          /\ Goto(s, "listening")
       \/ /\ WriteFails(s)
          /\ Goto(s, "sendError")
    /\ UNCHANGED <<boot, initialized, id, ch, result, tableVars, dispatchVars,
                   eventVars, worldVars>>

(* The handler is deleted: Listen failed, or the subscriber unsubscribes.  *)
ListenDrop(s) ==
    /\ \/ pc[s] = "sendError" /\ Goto(s, "done")
       \/ pc[s] = "listening" /\ Goto(s, "dispose")
    /\ eventHandlers' = [eventHandlers EXCEPT ![id[s]] = NoOne]
    /\ UNCHANGED <<connVars, boot, initialized, id, ch, result, nextID,
                   handlers, dispatchVars, eventVars, worldVars>>

(* The error of sending EventDispose is ignored.                           *)
DisposeSend(s) ==
    /\ pc[s] = "dispose"
    /\ WriteFrame(s, Message("EventDispose", id[s], s)) \/ WriteFails(s)
    /\ Goto(s, "done")
    /\ UNCHANGED <<boot, initialized, id, ch, result, tableVars, dispatchVars,
                   eventVars, worldVars>>

-----------------------------------------------------------------------------
(* dispatchLoop                                                            *)

DispatchNext ==
    /\ dispatch' = "recv" /\ current' = NoFrame /\ target' = NoOne

DispatchRecv ==
    /\ dispatch = "recv"
    /\ RecvRegular
    /\ dispatch' = "handle"
    /\ current' = Head(regularCh)
    /\ UNCHANGED <<boot, initialized, callVars, tableVars, target, eventVars,
                   worldVars>>

(* A header that is no array, too short or of an unknown type.             *)
DispatchSkip ==
    /\ dispatch = "handle"
    /\ current.Payload.type = "Unreadable"
    /\ DispatchNext
    /\ UNCHANGED <<connVars, boot, initialized, callVars, tableVars, eventVars,
                   worldVars>>

DispatchInitialize ==
    /\ dispatch = "handle"
    /\ current.Payload.type = "Initialize"
    /\ initialized' = TRUE
    /\ DispatchNext
    /\ UNCHANGED <<connVars, boot, callVars, tableVars, eventVars, worldVars>>

(* Slip: an answer leaves the handler in the table.                        *)
LookupKeepsHandler ==
    /\ target' = handlers[current.Payload.id]
    /\ UNCHANGED handlers

(* Under c.mu: take the call's channel out of the table ...                *)
LookupHandler ==
    /\ target' = handlers[current.Payload.id]
    /\ handlers' = [handlers EXCEPT ![current.Payload.id] = NoOne]

DispatchReply ==
    /\ dispatch = "handle"
    /\ current.Payload.type \in Replies
    /\ LookupHandler
    /\ IF target' = NoOne
       THEN dispatch' = "recv" /\ current' = NoFrame
       ELSE dispatch' = "deliver" /\ UNCHANGED current
    /\ UNCHANGED <<connVars, boot, initialized, callVars, nextID, eventHandlers,
                   eventVars, worldVars>>

(* ... and, without it, send into the channel, which must have room.       *)
DispatchDeliver ==
    /\ dispatch = "deliver"
    /\ ch[target] = <<>>
    /\ ch' = [ch EXCEPT ![target] = <<current.Payload>>]
    /\ DispatchNext
    /\ UNCHANGED <<connVars, boot, initialized, id, pc, result, tableVars,
                   eventVars, worldVars>>

(* Slip: one handler at a time, and no queue.                              *)
DropEventWhenBusy ==
    /\ dispatch = "handle"
    /\ current.Payload.type = "EventFire"
    /\ LET s == eventHandlers[current.Payload.id]
       IN  tasks' = IF s = NoOne \/ tasks # {} THEN tasks
                    ELSE tasks \cup {[sub |-> s, event |-> current.ID]}
    /\ DispatchNext
    /\ UNCHANGED <<connVars, boot, initialized, callVars, tableVars, handled,
                   worldVars>>

DispatchEvent ==
    /\ dispatch = "handle"
    /\ current.Payload.type = "EventFire"
    /\ LET s == eventHandlers[current.Payload.id]
       IN  tasks' = IF s = NoOne THEN tasks
                    ELSE tasks \cup {[sub |-> s, event |-> current.ID]}
    /\ DispatchNext
    /\ UNCHANGED <<connVars, boot, initialized, callVars, tableVars, handled,
                   worldVars>>

DispatchEnd ==
    /\ dispatch = "recv"
    /\ RecvEnd
    /\ UNCHANGED ipcVars

Dispatch ==
    \/ DispatchRecv \/ DispatchSkip \/ DispatchInitialize
    \/ DispatchReply \/ DispatchDeliver \/ DispatchEvent \/ DispatchEnd

(* Events wait for their goroutine and run in any order.                   *)
RunHandler(t) ==
    /\ tasks' = tasks \ {t}
    /\ handled' = handled \cup {t}
    /\ UNCHANGED <<connVars, boot, initialized, callVars, tableVars,
                   dispatchVars, worldVars>>

-----------------------------------------------------------------------------

Server ==
    \/ ServerInitialize \/ ServerUnreadable
    \/ \E c \in Calls, type \in Replies : ServerReply(c, type)
    \/ \E s \in Subscriptions : ServerFire(s)

Boot == BootBuild \/ BootSend \/ BootReady \/ BootTimeout

Proceed(c) ==
    \/ CallRegister(c) \/ CallBuild(c) \/ CallSend(c) \/ CallSendFails(c)
    \/ CallReceive(c) \/ CallTimeout(c) \/ CallGiveUp(c)

Subscribe(s) ==
    \/ ListenStart(s) \/ ListenRegister(s) \/ ListenBuild(s) \/ ListenSend(s)
    \/ ListenDrop(s) \/ DisposeSend(s)

(* keepAliveLoop and frames that are not Regular touch nothing here.       *)
Connection == (ReadLoop \/ NetworkFailure \/ Close) /\ UNCHANGED ipcVars

Next ==
    \/ Server
    \/ Connection
    \/ Boot
    \/ \E c \in Calls : CallStart(c) \/ Proceed(c)
    \/ \E s \in Subscriptions : Subscribe(s)
    \/ Dispatch
    \/ \E t \in tasks : RunHandler(t)

Safety == Init /\ [][Next]_vars

(* A call is a goroutine that runs, and its timer fires.                   *)
Spec == Safety /\ \A c \in Calls : WF_vars(Proceed(c))

-----------------------------------------------------------------------------
(* Properties                                                              *)

Events == [sub : Subscriptions, event : Nat]

(* A call that waits can be answered: its channel is registered, or        *)
(* dispatchLoop has taken it and is about to send, or the answer is in it. *)
WaitingIsReachable ==
    \A c \in Calls :
        pc[c] = "wait" => \/ handlers[id[c]] = c
                          \/ dispatch = "deliver" /\ target = c
                          \/ ch[c] # <<>>

(* dispatchLoop never blocks on a channel that is full, so one slow or     *)
(* departed caller, or an answer given twice, cannot stall the others.     *)
DispatchNeverBlocks == dispatch = "deliver" => ch[target] = <<>>

(* A call that has returned leaves no entry behind in c.handlers, whether  *)
(* it was answered, timed out or could not be sent.                        *)
NoHandlerLeft ==
    \A c \in Calls : pc[c] = "done" => \A i \in IDs : handlers[i] # c

(* A subscription misses nothing between Listen and unsubscribe: each      *)
(* event fired for it is still on its way, with dispatchLoop, waiting for  *)
(* its goroutine, or handled.                                              *)
NoEventMissed ==
    reader \in {"read", "decode", "select"} =>
        \A e \in fired :
            \/ e.event > consumed
            \/ current.ID = e.event
            \/ e \in tasks \cup handled
            \/ pc[e.sub] \in {"dispose", "done"}

(* The answer a call returns is one the server gave to that call.          *)
(* (Part of the refinement: Call implements the abstract RPC.)             *)
Phase(x) == CASE pc[x] = "idle" -> "idle"
              [] pc[x] = "done" -> "done"
              [] OTHER -> "pending"

Abstract == INSTANCE RPC WITH
                Outcomes <- Replies, NoResult <- "none",
                phase <- [c \in Calls |-> Phase(c)]

ImplementsRPC == Abstract!Spec

(* Every call returns, whatever becomes of the connection.                 *)
CallsReturn == \A c \in Calls : (pc[c] # "idle") ~> (pc[c] = "done")
=============================================================================
