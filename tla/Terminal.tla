------------------------------- MODULE Terminal -------------------------------
(***************************************************************************)
(* internal/terminal: RunSession with its goroutines, and the flow control *)
(* of SubscribeOutput, whose handler runs in a goroutine for each event    *)
(* (IPCClient).  The remote process, the user and the other terminals of   *)
(* the server are external.                                                *)
(*                                                                         *)
(* Definitions marked Slip are not the code: they are mistakes it could    *)
(* have made, which the properties below notice.                           *)
(***************************************************************************)
EXTENDS Process, Integers, FiniteSets, Functions

CONSTANTS
    Handlers,     \* bound: goroutines of output events at a time
    Chunks,       \* an output event: its characters and its bytes
    AckSize,      \* charCountAckSize
    High, Low,    \* external: the server holds the output back beyond High
                  \*   characters and resumes it below Low
    MaxOutput     \* bound: bytes of output

ASSUME TerminalAssumption ==
    /\ IsFiniteSet(Handlers)
    /\ \A c \in Chunks : c[1] \in Nat \ {0} /\ c[2] \in Nat /\ c[2] >= c[1]
    /\ AckSize \in Nat \ {0} /\ Low >= AckSize /\ High >= Low - 1

VARIABLES
    raw,         \* the local terminal is in raw mode
    pty,         \* external: the remote process: "none", "created",
                 \*   "running", "exited"
    subs,        \* what is subscribed to: "output", "exit"
    exit,        \* the exit event: "none", "flying", "handled"
    stdin,       \* the goroutine that forwards keys, ...
    resizer,     \* ... and the one that forwards resizes
    done,        \* whether done is closed
    handler,     \* per goroutine of an output event: its step, whose
                 \*   output it is, and a number of bytes
    charCount,   \* Client.charCount
    unacked,     \* external: characters the server has sent, and thinks
                 \*   unread, of this terminal ...
    held,        \* ... and whether it holds back the rest
    sent,        \* history: bytes of output in all events
    acked, lost, \* history: bytes acknowledged; in acknowledgements that failed
    foreign,     \* history: another terminal's output was counted
    abandoned    \* history: the request to shut the process down failed

sessionVars == <<raw, subs, stdin, resizer, done, exit>>
flowVars    == <<handler, charCount, unacked, held, sent, acked, lost, foreign>>
terminalVars == <<sessionVars, flowVars, pty, abandoned>>

Idle == [step |-> "idle", mine |-> TRUE, bytes |-> 0]

TerminalInit ==
    /\ raw = FALSE /\ pty = "none" /\ subs = {} /\ exit = "none"
    /\ stdin = "none" /\ resizer = "none"
    /\ done = FALSE
    /\ handler = [h \in Handlers |-> Idle]
    /\ charCount = 0 /\ unacked = 0 /\ held = FALSE
    /\ sent = 0 /\ acked = 0 /\ lost = 0 /\ foreign = FALSE /\ abandoned = FALSE

(* A call that moves the process to a state: it may fail, and have been    *)
(* carried out or not.                                                     *)
Becomes(state)    == Answered /\ pty' = state
MayBecome(state)  == pty' = pty \/ Becomes(state)

-----------------------------------------------------------------------------
(* RunSession                                                              *)

MakeRaw ==
    /\ at = "session"
    /\ \/ raw' = TRUE /\ Defer("Restore", "create")
       \/ Return /\ UNCHANGED raw
    /\ UNCHANGED <<conn, signal, subs, stdin, resizer, done, exit, flowVars, pty, abandoned>>

CreateProcess ==
    /\ at = "create"
    /\ \/ Becomes("created") /\ Goto("subscribeOutput")
       \/ MayBecome("created") /\ Return
    /\ UNCHANGED <<conn, signal, sessionVars, flowVars, abandoned>>

Subscribe(step, what, call, next) ==
    /\ at = step
    /\ \/ Sent /\ subs' = subs \cup {what} /\ Defer(call, next)
       \/ SendFails /\ Return /\ UNCHANGED subs
    /\ UNCHANGED <<conn, signal, raw, stdin, resizer, done, exit, flowVars, pty, abandoned>>

SubscribeOutput == Subscribe("subscribeOutput", "output", "unsubOutput", "subscribeExit")
SubscribeExit   == Subscribe("subscribeExit", "exit", "unsubExit", "start")

Start ==
    /\ at = "start"
    /\ \/ Becomes("running") /\ Goto("spawn")
       \/ MayBecome("running") /\ Return
    /\ UNCHANGED <<conn, signal, sessionVars, flowVars, abandoned>>

Spawn ==
    /\ at = "spawn"
    /\ resizer' = "waiting" /\ stdin' = "reading"
    /\ Defer("stopResizes", "notify")
    /\ UNCHANGED <<conn, signal, raw, subs, done, exit, flowVars, pty, abandoned>>

Notify ==
    /\ at = "notify"
    /\ signal' = "caught"
    /\ Defer("stopSignals", "bridge")
    /\ UNCHANGED <<conn, terminalVars>>

(* select: the session is done, or a signal ends it.                       *)
Select ==
    /\ at = "bridge"
    /\ \/ done /\ Return /\ UNCHANGED signal
       \/ signal = "pending" /\ signal' = "caught" /\ Goto("shutdown")
    /\ UNCHANGED <<conn, terminalVars>>

(* External: the process ends, and whoever has subscribed is told, if      *)
(* there is still a connection.                                            *)
Exits ==
    /\ pty' = "exited"
    /\ exit' = IF "exit" \in subs /\ Answered THEN "flying" ELSE exit

Shutdown ==
    /\ at = "shutdown"
    /\ Return
    /\ \/ Answered /\ Exits /\ UNCHANGED abandoned
       \/ /\ (Answered /\ Exits) \/ UNCHANGED <<pty, exit>>
          /\ abandoned' = TRUE
    /\ UNCHANGED <<conn, signal, raw, subs, stdin, resizer, done, flowVars>>

(* The deferred calls of RunSession.                                       *)
StopSignals ==
    /\ Undo("stopSignals")
    /\ signal' = "default"
    /\ UNCHANGED <<conn, terminalVars>>

(* No resize is noticed any more; its goroutine waits on for done.         *)
StopResizes ==
    /\ Undo("stopResizes")
    /\ UNCHANGED <<conn, signal, terminalVars>>

Unsubscribe(call, what) ==
    /\ Undo(call)
    /\ subs' = subs \ {what}
    /\ UNCHANGED <<conn, signal, raw, stdin, resizer, done, exit, flowVars, pty, abandoned>>

Restore ==
    /\ Undo("Restore")
    /\ raw' = FALSE
    /\ UNCHANGED <<conn, signal, subs, stdin, resizer, done, exit, flowVars, pty, abandoned>>

RunSession ==
    \/ MakeRaw \/ CreateProcess \/ SubscribeOutput \/ SubscribeExit \/ Start \/ Spawn
    \/ Notify \/ Select \/ Shutdown
    \/ StopSignals \/ StopResizes \/ Unsubscribe("unsubExit", "exit") \/ Unsubscribe("unsubOutput", "output")
    \/ Restore

-----------------------------------------------------------------------------
(* What else closes done, or waits for it.                                 *)

(* Only the first of several closes it (sync.Once).                        *)
CloseDone == done' = TRUE

(* The user presses a key, the input ends, or it cannot be read.           *)
ReadStdin ==
    /\ stdin = "reading"
    /\ \/ stdin' = "sending" /\ UNCHANGED done
       \/ stdin' = "ended" /\ UNCHANGED done
       \/ stdin' = "ended" /\ CloseDone

(* Slip: a key that cannot be sent is taken for the end of the input.      *)
LikeEOF == stdin' = "ended" /\ UNCHANGED done

InputFails == stdin' = "ended" /\ CloseDone

Input ==
    /\ stdin = "sending"
    /\ \/ Answered /\ stdin' = "reading" /\ UNCHANGED done
       \/ InputFails

Stdin(step) ==
    step /\ UNCHANGED <<processVars, raw, subs, resizer, exit, flowVars, pty, abandoned>>

(* Resize, whose error is ignored, changes nothing here.                   *)
ResizerEnds ==
    /\ resizer = "waiting" /\ done
    /\ resizer' = "ended"
    /\ UNCHANGED <<processVars, raw, subs, stdin, done, exit, flowVars, pty, abandoned>>

(* External: the shell ends by itself.                                     *)
ProcessExits ==
    /\ pty = "running"
    /\ Exits
    /\ UNCHANGED <<processVars, raw, subs, stdin, resizer, done, flowVars, abandoned>>

ExitHandler ==
    /\ exit = "flying"
    /\ exit' = "handled"
    /\ CloseDone
    /\ UNCHANGED <<processVars, raw, subs, stdin, resizer, flowVars, pty, abandoned>>

-----------------------------------------------------------------------------
(* SubscribeOutput: the events of this terminal, if mine, and of others.   *)

Emit(h, mine, chunk) ==
    /\ Answered /\ "output" \in subs
    /\ handler[h] = Idle
    /\ sent + chunk[2] <= MaxOutput
    /\ mine => (pty = "running" /\ ~held)
    /\ handler' = [handler EXCEPT ![h] = [step |-> "event", mine |-> mine, bytes |-> chunk[2]]]
    /\ sent' = sent + chunk[2]
    /\ unacked' = IF mine THEN unacked + chunk[1] ELSE unacked
    /\ held' = (held \/ unacked' > High)
    /\ UNCHANGED <<processVars, sessionVars, charCount, acked, lost, foreign, pty, abandoned>>

(* Slip: what exceeds the unit is forgotten.                               *)
OneUnit(total) == AckSize

AckOf(total) == total

(* Slip: the acknowledgement waits for one more byte.                      *)
Beyond(total) == total > AckSize

Due(total) == total >= AckSize

(* Print the data; count it; acknowledge once there is enough.             *)
HandleOutput(h) ==
    LET total == charCount + handler[h].bytes
    IN  /\ handler[h].step = "event"
        /\ foreign' = (foreign \/ ~handler[h].mine)
        /\ IF Due(total)
           THEN /\ charCount' = 0
                /\ handler' = [handler EXCEPT ![h] = [@ EXCEPT !.step = "ack", !.bytes = AckOf(total)]]
           ELSE /\ charCount' = total
                /\ handler' = [handler EXCEPT ![h] = Idle]
        /\ UNCHANGED <<processVars, sessionVars, unacked, held, sent, acked, lost, pty, abandoned>>

(* External: the server subtracts what it is told, down to nothing.        *)
Acknowledged(n) ==
    /\ Answered
    /\ unacked' = IF n > unacked THEN 0 ELSE unacked - n
    /\ held' = (held /\ unacked' >= Low)

Ignored == UNCHANGED <<unacked, held>>

(* AcknowledgeDataEvent: an error is ignored.                              *)
AckReturns(h) ==
    LET n == handler[h].bytes
        Arrives == IF handler[h].mine THEN Acknowledged(n) ELSE Answered /\ Ignored
    IN  /\ handler[h].step = "ack"
        /\ \/ Arrives /\ acked' = acked + n /\ UNCHANGED lost
           \/ (Arrives \/ Ignored) /\ lost' = lost + n /\ UNCHANGED acked
        /\ handler' = [handler EXCEPT ![h] = Idle]
        /\ UNCHANGED <<processVars, sessionVars, charCount, sent, foreign, pty, abandoned>>

-----------------------------------------------------------------------------
(* What goes on beside main.                                               *)

EventGoroutines == ExitHandler \/ \E h \in Handlers : HandleOutput(h) \/ AckReturns(h)

BesideMain ==
    \/ Stdin(ReadStdin) \/ Stdin(Input)
    \/ ResizerEnds
    \/ EventGoroutines

TerminalWorld ==
    \/ ProcessExits
    \/ \E h \in Handlers : \E mine \in BOOLEAN : \E chunk \in Chunks : Emit(h, mine, chunk)

-----------------------------------------------------------------------------
(* Properties                                                              *)

(* Every byte of output is in an event that is not handled yet, or in the  *)
(* counter, or in exactly one acknowledgement.                             *)
OutputAccounted ==
    /\ sent = charCount + acked + lost + FoldFunction(LAMBDA x, n : x.bytes + n, 0, handler)
    /\ charCount < AckSize

(* The remote process is never held back for good by acknowledgements that *)
(* are due: unless one was lost, or output of other terminals was counted  *)
(* with this one's, its output resumes while the connection lasts.         *)
OutputResumes ==
    held ~> (~held \/ lost > 0 \/ foreign \/ pty = "exited" \/ conn # "open" \/ ~Running)
=============================================================================
