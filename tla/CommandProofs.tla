---------------------------- MODULE CommandProofs ----------------------------
(***************************************************************************)
(* What a command leaves behind, what becomes of its output, and what the  *)
(* requests of a mount may do to the tree: for any terminal output, any    *)
(* tree, any number of goroutines and any failures.                        *)
(***************************************************************************)
EXTENDS Command, SequenceTheorems, FiniteSetTheorems, WellFoundedInduction, TLAPS

-----------------------------------------------------------------------------
(* The deferred calls as a stack: Close was the first, and is the last.    *)

Calls == {"Close", "stopRemote", "Restore", "unsubOutput", "unsubExit", "stopResizes", "stopSignals"}

Holds(s, call) == \E i \in 1 .. Len(s) : s[i] = call

Stack(s) ==
    /\ s \in Seq(Calls)
    /\ s # <<>> => s[Len(s)] = "Close"
    /\ \A i \in 1 .. (Len(s) - 1) : s[i] # "Close"

LEMMA EmptyStack == Stack(<<>>) /\ \A x \in Calls : ~Holds(<<>>, x)
BY DEF Stack, Holds

LEMMA FirstCall ==
    Stack(<<"Close">> \o <<>>) /\ <<"Close">> \o <<>> # <<>>
BY DEF Stack, Calls

LEMMA Push ==
    ASSUME NEW s, Stack(s), s # <<>>, NEW call \in Calls \ {"Close"}
    PROVE  /\ Stack(<<call>> \o s)
           /\ <<call>> \o s # <<>>
           /\ Holds(<<call>> \o s, call)
           /\ \A x \in Calls : Holds(s, x) => Holds(<<call>> \o s, x)
<1> DEFINE t == <<call>> \o s
<1>1. s \in Seq(Calls) /\ Len(s) \in Nat \ {0} /\ s[Len(s)] = "Close"
    BY DEF Stack
<1>2. /\ t \in Seq(Calls) /\ Len(t) = Len(s) + 1 /\ t[1] = call
      /\ \A i \in 1 .. Len(s) : t[i + 1] = s[i]
    BY <1>1
<1>3. t # <<>> /\ t[Len(t)] = "Close"
    BY <1>1, <1>2
<1>4. \A i \in 1 .. (Len(t) - 1) : t[i] # "Close"
    <2> TAKE i \in 1 .. (Len(t) - 1)
    <2>1. CASE i = 1
        BY <2>1, <1>2
    <2>2. CASE i # 1
        <3>1. i - 1 \in 1 .. (Len(s) - 1) /\ t[(i - 1) + 1] = s[i - 1]
            BY <2>2, <1>1, <1>2
        <3> QED  BY <3>1 DEF Stack
    <2> QED  BY <2>1, <2>2
<1>5. Holds(t, call)
    BY <1>1, <1>2 DEF Holds
<1>6. ASSUME NEW x \in Calls, Holds(s, x)  PROVE Holds(t, x)
    <2>1. PICK i \in 1 .. Len(s) : s[i] = x
        BY <1>6 DEF Holds
    <2>2. i + 1 \in 1 .. Len(t) /\ t[i + 1] = x
        BY <2>1, <1>1, <1>2
    <2> QED  BY <2>2 DEF Holds
<1>7. Stack(t)
    BY <1>2, <1>3, <1>4 DEF Stack
<1> QED  BY <1>3, <1>5, <1>6, <1>7

LEMMA Pop ==
    ASSUME NEW s, Stack(s), s # <<>>
    PROVE  /\ Stack(Tail(s))
           /\ \A x \in Calls : Holds(s, x) /\ x # Head(s) => Holds(Tail(s), x)
           /\ Head(s) = "Close" <=> Tail(s) = <<>>
<1> DEFINE t == Tail(s)
<1>1. s \in Seq(Calls) /\ Len(s) \in Nat \ {0} /\ s[Len(s)] = "Close"
    BY DEF Stack
<1>2. /\ t \in Seq(Calls) /\ Len(t) = Len(s) - 1 /\ Head(s) = s[1]
      /\ \A i \in 1 .. Len(t) : t[i] = s[i + 1]
    BY <1>1
<1>3. Stack(t)
    <2>1. t # <<>> => t[Len(t)] = "Close"
        BY <1>1, <1>2
    <2>2. \A i \in 1 .. (Len(t) - 1) : t[i] # "Close"
        <3> TAKE i \in 1 .. (Len(t) - 1)
        <3>1. i + 1 \in 1 .. (Len(s) - 1) /\ t[i] = s[i + 1]
            BY <1>1, <1>2
        <3> QED  BY <3>1 DEF Stack
    <2> QED  BY <1>2, <2>1, <2>2 DEF Stack
<1>4. ASSUME NEW x \in Calls, Holds(s, x), x # Head(s)  PROVE Holds(t, x)
    <2>1. PICK i \in 1 .. Len(s) : s[i] = x
        BY <1>4 DEF Holds
    <2>2. i - 1 \in 1 .. Len(t) /\ t[i - 1] = s[(i - 1) + 1]
        BY <2>1, <1>1, <1>2, <1>4
    <2>3. t[i - 1] = x
        BY <2>1, <2>2
    <2> QED  BY <2>2, <2>3 DEF Holds
<1>5. ASSUME Head(s) = "Close"  PROVE t = <<>>
    <2>1. 1 \notin 1 .. (Len(s) - 1)
        BY <1>2, <1>5 DEF Stack
    <2> QED  BY <2>1, <1>1, <1>2
<1>6. ASSUME t = <<>>  PROVE Head(s) = "Close"
    <2>1. Len(t) = 0
        BY <1>6
    <2>2. Len(s) = 1
        BY <2>1, <1>1, <1>2
    <2> QED  BY <2>2, <1>1, <1>2
<1> QED  BY <1>3, <1>4, <1>5, <1>6

-----------------------------------------------------------------------------
(* The inductive invariant                                                 *)

Pending(call) == Holds(defers, call)

(* Whoever has a connection has its Close to come; without one there is    *)
(* nothing to undo.                                                        *)
StackInv ==
    /\ Stack(defers)
    /\ conn \in {"none", "open", "dead", "closed"}
    /\ conn = "none" => defers = <<>> /\ at \in {"login", "dial", "return", "over", "killed"}
    /\ conn \in {"open", "dead"} => defers # <<>>
    /\ conn = "closed" => at = "killed" \/ (at \in {"return", "over"} /\ defers = <<>>)
    /\ at \in {"login", "dial"} => conn = "none"
    /\ at = "over" => defers = <<>>

(* What has been done is undone by a deferred call, or on record as        *)
(* failed.                                                                 *)
UndoneInv ==
    /\ raw => Pending("Restore")
    /\ subs \subseteq {"output", "exit"}
    /\ "output" \in subs => Pending("unsubOutput")
    /\ "exit" \in subs => Pending("unsubExit")
    /\ listening => Pending("stopRemote")
    /\ watching => missed \/ at \in {"listen", "killed"} \/ Pending("stopRemote")

(* A session is left when its set-up fails, when it is done, or when its   *)
(* process has been shut down.                                             *)
ShellInv ==
    /\ stdin # "none" => at \in {"notify", "bridge", "shutdown", "return", "over", "killed"}
    /\ at \in {"return", "over"} /\ pty \in {"created", "running"} => abandoned \/ Deserted

CommandInv == StackInv /\ UndoneInv /\ ShellInv

LEMMA CommandInvInit == Init => CommandInv
<1> SUFFICES ASSUME Init  PROVE CommandInv
    OBVIOUS
<1>1. /\ conn = "none" /\ at = "login" /\ defers = <<>>
      /\ raw = FALSE /\ subs = {} /\ stdin = "none"
      /\ watching = FALSE /\ listening = FALSE
    BY DEF Init, ProcessInit, TerminalInit
<1> QED  BY <1>1, EmptyStack
            DEF CommandInv, StackInv, UndoneInv, ShellInv, Deserted

LEMMA CommandInvImplies == CommandInv => NothingLeft
<1> SUFFICES ASSUME CommandInv, at = "over"  PROVE NothingLeft
    BY DEF NothingLeft
<1>1. defers = <<>> /\ \A x \in Calls : ~Pending(x)
    BY EmptyStack DEF CommandInv, StackInv, Pending
<1>2. ~raw /\ subs = {} /\ ~listening /\ (watching => missed)
    BY <1>1 DEF CommandInv, UndoneInv, Calls
<1>3. conn \in {"none", "closed"}
    BY <1>1 DEF CommandInv, StackInv
<1>4. pty \in {"created", "running"} => abandoned \/ Deserted
    BY DEF CommandInv, ShellInv, Deserted
<1> QED  BY <1>2, <1>3, <1>4 DEF NothingLeft

-----------------------------------------------------------------------------
(* How main moves, and what that does to the stack                         *)

Busy == at \notin {"login", "dial", "return", "over", "killed"}

LEMMA BusyConnected == StackInv /\ Busy => conn \in {"open", "dead"} /\ defers # <<>>
BY DEF StackInv, Busy

LEMMA StackGoto ==
    ASSUME StackInv, Busy, NEW next, Goto(next), next \notin {"login", "dial", "over"},
           UNCHANGED conn
    PROVE  StackInv' /\ \A x \in Calls : Pending(x)' = Pending(x)
<1>1. at' = next /\ defers' = defers /\ conn' = conn
    BY DEF Goto
<1>2. StackInv'
    BY <1>1, BusyConnected DEF StackInv, Busy
<1> QED  BY <1>1, <1>2 DEF Pending

LEMMA StackDefer ==
    ASSUME StackInv, Busy, NEW call \in Calls \ {"Close"},
           NEW next, Defer(call, next), next \notin {"login", "dial", "over"}, UNCHANGED conn
    PROVE  /\ StackInv' /\ Pending(call)'
           /\ \A x \in Calls : Pending(x) => Pending(x)'
<1>1. at' = next /\ defers' = <<call>> \o defers /\ conn' = conn
    BY DEF Defer, Deferred
<1>2. conn \in {"open", "dead"} /\ defers # <<>> /\ Stack(defers)
    BY BusyConnected DEF StackInv
<1>3. /\ Stack(defers') /\ defers' # <<>> /\ Holds(defers', call)
      /\ \A x \in Calls : Holds(defers, x) => Holds(defers', x)
    BY <1>1, <1>2, Push
<1>4. StackInv'
    BY <1>1, <1>2, <1>3 DEF StackInv
<1> QED  BY <1>3, <1>4 DEF Pending

LEMMA StackUndo ==
    ASSUME StackInv, NEW call \in Calls \ {"Close"}, Undo(call), UNCHANGED conn
    PROVE  /\ StackInv' /\ at = "return" /\ at' = at /\ conn \in {"open", "dead"}
           /\ \A x \in Calls \ {call} : Pending(x) => Pending(x)'
<1>1. /\ at = "return" /\ at' = at /\ conn' = conn
      /\ defers # <<>> /\ Head(defers) = call /\ defers' = Tail(defers)
    BY DEF Undo
<1>2. conn \in {"open", "dead"} /\ Stack(defers)
    BY <1>1 DEF StackInv
<1>3. /\ Stack(defers') /\ defers' # <<>>
      /\ \A x \in Calls : Holds(defers, x) /\ x # call => Holds(defers', x)
    BY <1>1, <1>2, Pop
<1>4. StackInv'
    BY <1>1, <1>2, <1>3 DEF StackInv
<1> QED  BY <1>1, <1>2, <1>3, <1>4 DEF Pending

-----------------------------------------------------------------------------
(* The parts of the invariant, when their variables are left alone         *)

LEMMA StackSame ==
    ASSUME StackInv, UNCHANGED <<conn, at, defers>>
    PROVE  StackInv' /\ \A x \in Calls : Pending(x)' = Pending(x)
BY DEF StackInv, Pending

LEMMA UndoneSame ==
    ASSUME UndoneInv, UNCHANGED <<raw, subs, listening, watching, missed>>,
           \A x \in Calls : Pending(x) => Pending(x)', at # "listen" \/ at' \in {"listen", "killed"},
           at # "killed" \/ at' = "killed"
    PROVE  UndoneInv'
BY DEF UndoneInv, Calls

LEMMA ShellBefore ==
    ASSUME stdin' = "none"
    PROVE  ShellInv'
BY DEF ShellInv, Deserted

LEMMA ShellSame ==
    ASSUME ShellInv, UNCHANGED <<at, pty, stdin, done, abandoned>>
    PROVE  ShellInv'
BY DEF ShellInv, Deserted

(* Before the session has begun to read, nothing has been read.            *)
LEMMA NotSpawned ==
    ASSUME ShellInv, at \notin {"notify", "bridge", "shutdown", "return", "over", "killed"}
    PROVE  stdin = "none"
BY DEF ShellInv, Deserted

(* Steps of main that move it, and leave alone what is to be undone.       *)
LEMMA MainMoves ==
    ASSUME CommandInv, Busy, at # "listen",
           NEW next, Goto(next), next \notin {"login", "dial", "over"},
           UNCHANGED <<conn, raw, subs, listening, watching, missed, done>>,
           ShellInv'
    PROVE  CommandInv'
<1>1. StackInv' /\ \A x \in Calls : Pending(x)' = Pending(x)
    BY StackGoto DEF CommandInv
<1>2. UndoneInv'
    BY <1>1, UndoneSame DEF CommandInv, Busy
<1> QED  BY <1>1, <1>2 DEF CommandInv

-----------------------------------------------------------------------------
(* Steps beside main                                                       *)

LEMMA Besides ==
    ASSUME CommandInv,
           UNCHANGED <<conn, at, defers, raw, subs, listening, watching, missed>>,
           ShellInv'
    PROVE  CommandInv'
<1>1. StackInv' /\ \A x \in Calls : Pending(x)' = Pending(x)
    BY StackSame DEF CommandInv
<1>2. UndoneInv'
    BY <1>1, UndoneSame DEF CommandInv
<1> QED  BY <1>1, <1>2 DEF CommandInv

LEMMA FurtherBesides ==
    ASSUME CommandInv,
           UNCHANGED <<conn, at, defers, raw, subs, listening, watching, missed>>,
           UNCHANGED <<pty, stdin, done, abandoned>>
    PROVE  CommandInv'
<1>1. ShellInv'
    BY ShellSame DEF CommandInv
<1> QED  BY <1>1, Besides

LEMMA ReadStdinStep == ASSUME CommandInv, Stdin(ReadStdin), UNCHANGED mountVars  PROVE CommandInv'
<1>1. /\ UNCHANGED <<conn, at, defers, raw, subs, pty, abandoned>>
      /\ stdin # "none" /\ ((UNCHANGED done \/ CloseDone) /\ stdin' # "none")
    BY DEF Stdin, ReadStdin, processVars
<1>2. done => done'
    BY <1>1 DEF CloseDone
<1>3. ShellInv'
    BY <1>1, <1>2 DEF CommandInv, ShellInv, Deserted
<1> QED  BY <1>1, <1>3, Besides DEF mountVars

LEMMA InputStep == ASSUME CommandInv, Stdin(Input), UNCHANGED mountVars  PROVE CommandInv'
<1>1. /\ UNCHANGED <<conn, at, defers, raw, subs, pty, abandoned>>
      /\ stdin # "none" /\ ((UNCHANGED done \/ CloseDone) /\ stdin' # "none")
    BY DEF Stdin, Input, InputFails, processVars
<1>2. done => done'
    BY <1>1 DEF CloseDone
<1>3. ShellInv'
    BY <1>1, <1>2 DEF CommandInv, ShellInv, Deserted
<1> QED  BY <1>1, <1>3, Besides DEF mountVars

LEMMA ExitHandlerStep == ASSUME CommandInv, ExitHandler, UNCHANGED mountVars  PROVE CommandInv'
<1>1. UNCHANGED <<conn, at, defers, raw, subs, pty, stdin, abandoned>> /\ CloseDone
    BY DEF ExitHandler, processVars
<1>2. done'
    BY <1>1 DEF CloseDone
<1>3. ShellInv'
    BY <1>1, <1>2 DEF CommandInv, ShellInv, Deserted
<1> QED  BY <1>1, <1>3, Besides DEF mountVars

LEMMA ProcessExitsStep == ASSUME CommandInv, ProcessExits, UNCHANGED mountVars  PROVE CommandInv'
<1>1. /\ UNCHANGED <<conn, at, defers, raw, subs, stdin, done, abandoned>>
      /\ pty' = "exited"
    BY DEF ProcessExits, Exits, processVars
<1>2. ShellInv'
    BY <1>1 DEF CommandInv, ShellInv, Deserted
<1> QED  BY <1>1, <1>2, Besides DEF mountVars

LEMMA TerminalGoroutinesStep == ASSUME CommandInv, TerminalGoroutines  PROVE CommandInv'
<1>1. UNCHANGED mountVars
    BY DEF TerminalGoroutines
<1>2. CASE Stdin(ReadStdin)
    BY <1>1, <1>2, ReadStdinStep
<1>3. CASE Stdin(Input)
    BY <1>1, <1>3, InputStep
<1>4. CASE ResizerEnds
    BY <1>1, <1>4, FurtherBesides DEF ResizerEnds, processVars, mountVars
<1>5. CASE ExitHandler
    BY <1>1, <1>5, ExitHandlerStep
<1>6. ASSUME NEW h \in Handlers, HandleOutput(h)  PROVE CommandInv'
    BY <1>1, <1>6, FurtherBesides DEF HandleOutput, processVars, sessionVars, mountVars
<1>7. ASSUME NEW h \in Handlers, AckReturns(h)  PROVE CommandInv'
    BY <1>1, <1>7, FurtherBesides DEF AckReturns, processVars, sessionVars, mountVars
<1> QED  BY <1>2, <1>3, <1>4, <1>5, <1>6, <1>7
            DEF TerminalGoroutines, BesideMain, EventGoroutines

LEMMA TerminalWorldStep ==
    ASSUME CommandInv, TerminalWorld, UNCHANGED mountVars
    PROVE  CommandInv'
<1>1. CASE ProcessExits
    BY <1>1, ProcessExitsStep
<1>2. ASSUME NEW h \in Handlers, NEW mine \in BOOLEAN, NEW chunk \in Chunks, Emit(h, mine, chunk)
      PROVE  CommandInv'
    BY <1>2, FurtherBesides DEF Emit, processVars, sessionVars, mountVars
<1> QED  BY <1>1, <1>2 DEF TerminalWorld

LEMMA DavRequestsLeave == ASSUME DavRequests \/ DavWorld  PROVE UNCHANGED processVars
<1>1. ASSUME DavRequests  PROVE UNCHANGED processVars
    BY <1>1 DEF DavRequests, Mkdir, Rename, RemoveAll, Starts, OpenDir, Readdir, CloseDir
<1>2. ASSUME DavWorld  PROVE UNCHANGED processVars
    BY <1>2 DEF DavWorld, RemoteDoes, Returns, Forget, OthersChange
<1> QED  BY <1>1, <1>2

LEMMA RequestsStep == ASSUME CommandInv, Requests  PROVE CommandInv'
<1>1. UNCHANGED processVars
    BY DavRequestsLeave DEF Requests
<1>2. UNCHANGED <<terminalVars, mountVars>>
    BY DEF Requests
<1> QED  BY <1>1, <1>2, FurtherBesides DEF processVars, terminalVars, sessionVars, mountVars

LEMMA ServeFailsStep == ASSUME CommandInv, ServeFails  PROVE CommandInv'
BY FurtherBesides DEF ServeFails, processVars, Mount, terminalVars, sessionVars

LEMMA ConnectionDiesStep == ASSUME CommandInv, ConnectionDies, Alone  PROVE CommandInv'
<1>1. conn = "open" /\ conn' = "dead" /\ UNCHANGED <<at, defers>>
    BY DEF ConnectionDies
<1>2. StackInv' /\ \A x \in Calls : Pending(x)' = Pending(x)
    BY <1>1 DEF CommandInv, StackInv, Pending
<1>3. UndoneInv'
    BY <1>1, <1>2, UndoneSame DEF CommandInv, Alone, terminalVars, sessionVars, mountVars
<1>4. ShellInv'
    BY <1>1, ShellSame DEF CommandInv, Alone, terminalVars, sessionVars
<1> QED  BY <1>2, <1>3, <1>4 DEF CommandInv

LEMMA SignalStep == ASSUME CommandInv, Signal, Alone  PROVE CommandInv'
<1> USE DEF Alone, terminalVars, sessionVars, mountVars
<1>1. CASE signal = "default"
    <2>1. /\ at' = "killed" /\ conn' = "closed" /\ defers' = defers
        BY <1>1 DEF Signal
    <2>2. StackInv' /\ \A x \in Calls : Pending(x)' = Pending(x)
        BY <2>1 DEF CommandInv, StackInv, Pending
    <2>3. UndoneInv'
        BY <2>1, <2>2, UndoneSame DEF CommandInv
    <2>4. ShellInv'
        BY <2>1 DEF CommandInv, ShellInv, Deserted
    <2> QED  BY <2>2, <2>3, <2>4 DEF CommandInv
<1>2. CASE signal # "default"
    BY <1>2, FurtherBesides DEF Signal
<1> QED  BY <1>1, <1>2

-----------------------------------------------------------------------------
(* Steps of main                                                           *)

(* The steps of either command until the mount or the session begins.      *)
LEMMA StartUp ==
    ASSUME CommandInv, Alone, UNCHANGED conn, Busy, at # "listen",
           at \notin {"notify", "bridge", "shutdown"},
           NEW next, Goto(next), next \notin {"login", "dial", "over"}
    PROVE  CommandInv'
<1> USE DEF Alone, terminalVars, sessionVars, mountVars
<1>1. ShellInv'
    BY NotSpawned, ShellBefore DEF CommandInv, Busy
<1> QED  BY <1>1, MainMoves

LEMMA LoginStep == ASSUME CommandInv, Login  PROVE CommandInv'
<1> USE DEF Alone, terminalVars, sessionVars, mountVars
<1>1. /\ at = "login" /\ at' \in {"dial", "return"} /\ defers' = defers /\ conn' = conn
      /\ Alone
    BY DEF Login, Goto, Return
<1>2. StackInv' /\ \A x \in Calls : Pending(x)' = Pending(x)
    BY <1>1 DEF CommandInv, StackInv, Pending
<1>3. UndoneInv'
    BY <1>1, <1>2, UndoneSame DEF CommandInv
<1>4. ShellInv'
    BY <1>1, NotSpawned, ShellBefore DEF CommandInv
<1> QED  BY <1>2, <1>3, <1>4 DEF CommandInv

LEMMA DialStep == ASSUME CommandInv, Dial  PROVE CommandInv'
<1> USE DEF Alone, terminalVars, sessionVars, mountVars
<1>1. at = "dial" /\ conn = "none" /\ defers = <<>> /\ Alone
    BY DEF Dial, CommandInv, StackInv
<1>2. at' \in {"handshake", "return"}
    BY DEF Dial, Defer, Return, Goto
<1>3. StackInv'
    <2>1. CASE Return /\ UNCHANGED conn
        BY <1>1, <2>1 DEF CommandInv, StackInv, Return, Goto
    <2>2. CASE conn' = "open" /\ Defer("Close", "handshake")
        <3>1. defers' = <<"Close">> \o <<>> /\ at' = "handshake"
            BY <1>1, <2>2 DEF Defer, Deferred
        <3>2. Stack(defers') /\ defers' # <<>>
            BY <3>1, FirstCall
        <3> QED  BY <2>2, <3>1, <3>2 DEF StackInv
    <2> QED  BY <2>1, <2>2 DEF Dial
<1>4. \A x \in Calls : ~Pending(x)
    BY <1>1, EmptyStack DEF Pending
<1>5. UndoneInv'
    BY <1>1, <1>2, <1>4, UndoneSame DEF CommandInv
<1>6. ShellInv'
    BY <1>1, NotSpawned, ShellBefore DEF CommandInv
<1> QED  BY <1>3, <1>5, <1>6 DEF CommandInv

LEMMA StartUpSteps ==
    ASSUME CommandInv, Handshake \/ WaitInitialized \/ Stat \/ CreateBackend
    PROVE  CommandInv'
<1>1. CASE Handshake
    BY <1>1, StartUp DEF Handshake, Busy, Return
<1>2. CASE WaitInitialized
    <2>1. PICK next \in {"session", "stat", "return"} : Goto(next)
        BY <1>2 DEF WaitInitialized, Return
    <2> QED  BY <1>2, <2>1, StartUp DEF WaitInitialized, Busy
<1>3. CASE Stat
    BY <1>3, StartUp DEF Stat, Busy, Return
<1>4. CASE CreateBackend
    BY <1>4, StartUp DEF CreateBackend, Busy, Return
<1> QED  BY <1>1, <1>2, <1>3, <1>4

LEMMA WatchStep == ASSUME CommandInv, Watch  PROVE CommandInv'
<1>1. /\ at = "watch" /\ conn' = conn /\ listening' = listening
      /\ UNCHANGED <<raw, subs, stdin, done>>
    BY DEF Watch, Mount, terminalVars, sessionVars
<1>2. PICK next \in {"listen", "return"} : Goto(next)
    BY DEF Watch, Return
<1>3. StackInv' /\ \A x \in Calls : Pending(x)' = Pending(x)
    BY <1>1, <1>2, StackGoto DEF CommandInv, Busy
<1>4. watching' => missed' \/ at' = "listen"
    BY DEF Watch, Goto
<1>5. UndoneInv'
    BY <1>1, <1>3, <1>4 DEF CommandInv, UndoneInv, Calls
<1>6. ShellInv'
    BY <1>1, NotSpawned, ShellBefore DEF CommandInv
<1> QED  BY <1>3, <1>5, <1>6 DEF CommandInv

LEMMA ListenStep == ASSUME CommandInv, Listen  PROVE CommandInv'
<1>1. /\ at = "listen" /\ conn' = conn /\ watching' = watching
      /\ UNCHANGED <<raw, subs, stdin, done>>
    BY DEF Listen, Mount, terminalVars, sessionVars
<1>2. ShellInv'
    BY <1>1, NotSpawned, ShellBefore DEF CommandInv
<1>3. CASE Defer("stopRemote", "createBackend")
    <2>1. /\ StackInv' /\ Pending("stopRemote")'
          /\ \A x \in Calls : Pending(x) => Pending(x)'
        BY <1>1, <1>3, StackDefer DEF CommandInv, Busy, Calls
    <2>2. UndoneInv'
        BY <1>1, <2>1 DEF CommandInv, UndoneInv, Calls
    <2> QED  BY <1>2, <2>1, <2>2 DEF CommandInv
<1>4. CASE Return /\ missed' = TRUE /\ UNCHANGED listening
    <2>1. StackInv' /\ \A x \in Calls : Pending(x)' = Pending(x)
        BY <1>1, <1>4, StackGoto DEF CommandInv, Busy, Return
    <2>2. UndoneInv'
        BY <1>1, <1>4, <2>1 DEF CommandInv, UndoneInv, Calls
    <2> QED  BY <1>2, <2>1, <2>2 DEF CommandInv
<1> QED  BY <1>3, <1>4 DEF Listen

LEMMA MkdirAllStep == ASSUME CommandInv, MkdirAll  PROVE CommandInv'
<1>1. /\ at = "mkdir" /\ UNCHANGED <<conn, watching, listening, missed>>
      /\ UNCHANGED <<raw, subs, stdin, done>>
    BY DEF MkdirAll, Mount, terminalVars, sessionVars
<1>2. PICK next \in {"serve", "return"} : Goto(next)
    BY DEF MkdirAll, Return
<1>3. ShellInv'
    BY <1>1, NotSpawned, ShellBefore DEF CommandInv
<1> QED  BY <1>1, <1>2, <1>3, MainMoves DEF Busy

LEMMA ServeStep == ASSUME CommandInv, Serve  PROVE CommandInv'
<1>1. /\ at = "serve" /\ UNCHANGED <<conn, watching, listening, missed>>
      /\ UNCHANGED <<raw, subs, stdin, done>> /\ Goto("return")
    BY DEF Serve, Mount, terminalVars, sessionVars, Return
<1>2. ShellInv'
    BY <1>1, NotSpawned, ShellBefore DEF CommandInv
<1> QED  BY <1>1, <1>2, MainMoves DEF Busy

LEMMA StopRemoteStep == ASSUME CommandInv, StopRemote  PROVE CommandInv'
<1>1. /\ Undo("stopRemote") /\ conn' = conn /\ listening' = FALSE
      /\ UNCHANGED <<raw, subs, stdin, pty, done, abandoned>>
    BY DEF StopRemote, Mount, terminalVars, sessionVars
<1>2. /\ StackInv' /\ at' = at /\ conn # "closed"
      /\ \A x \in Calls \ {"stopRemote"} : Pending(x) => Pending(x)'
    BY <1>1, StackUndo DEF CommandInv, Calls
<1>3. watching' => missed'
    BY <1>2 DEF StopRemote
<1>4. UndoneInv'
    BY <1>1, <1>2, <1>3 DEF CommandInv, UndoneInv, Calls
<1>5. ShellInv'
    BY <1>1, <1>2, ShellSame DEF CommandInv
<1> QED  BY <1>2, <1>4, <1>5 DEF CommandInv

LEMMA CloseConnStep == ASSUME CommandInv, CloseConn, Alone  PROVE CommandInv'
<1>1. /\ at = "return" /\ at' = at /\ conn' = "closed"
      /\ defers # <<>> /\ Head(defers) = "Close" /\ defers' = Tail(defers)
    BY DEF CloseConn, Undo
<1>2. Stack(defers') /\ defers' = <<>>
    BY <1>1, Pop DEF CommandInv, StackInv
<1>3. \A x \in Calls : Pending(x) => x = "Close"
    <2> SUFFICES ASSUME NEW x \in Calls, Pending(x), x # "Close"  PROVE FALSE
        OBVIOUS
    <2>1. Holds(Tail(defers), x)
        BY <1>1, Pop DEF CommandInv, StackInv, Pending
    <2> QED  BY <1>1, <1>2, <2>1, EmptyStack
<1>4. StackInv'
    BY <1>1, <1>2 DEF StackInv
<1>5. UndoneInv'
    BY <1>1, <1>3 DEF CommandInv, UndoneInv, Calls, Alone, terminalVars, sessionVars, mountVars
<1>6. ShellInv'
    BY <1>1, ShellSame DEF CommandInv, Alone, terminalVars, sessionVars
<1> QED  BY <1>4, <1>5, <1>6 DEF CommandInv

LEMMA FinishStep == ASSUME CommandInv, Finish, Alone  PROVE CommandInv'
<1> USE DEF Alone, terminalVars, sessionVars, mountVars
<1>1. at = "return" /\ defers = <<>> /\ at' = "over" /\ UNCHANGED <<conn, defers>>
    BY DEF Finish
<1>2. StackInv' /\ \A x \in Calls : Pending(x)' = Pending(x)
    BY <1>1 DEF CommandInv, StackInv, Pending
<1>3. UndoneInv'
    BY <1>1, <1>2, UndoneSame DEF CommandInv
<1>4. ShellInv'
    BY <1>1 DEF CommandInv, ShellInv, Deserted
<1> QED  BY <1>2, <1>3, <1>4 DEF CommandInv

-----------------------------------------------------------------------------
(* RunSession                                                              *)

LEMMA MakeRawStep == ASSUME CommandInv, MakeRaw, UNCHANGED mountVars  PROVE CommandInv'
<1>1. at = "session" /\ UNCHANGED <<conn, subs, stdin, done>>
    BY DEF MakeRaw
<1>2. ShellInv'
    BY <1>1, NotSpawned, ShellBefore DEF CommandInv
<1>3. CASE Defer("Restore", "create")
    <2>1. /\ StackInv' /\ Pending("Restore")'
          /\ \A x \in Calls : Pending(x) => Pending(x)'
        BY <1>1, <1>3, StackDefer DEF CommandInv, Busy, Calls
    <2>2. UndoneInv'
        BY <1>1, <2>1 DEF CommandInv, UndoneInv, Calls, mountVars
    <2> QED  BY <1>2, <2>1, <2>2 DEF CommandInv
<1>4. CASE Return /\ UNCHANGED raw
    BY <1>1, <1>2, <1>4, MainMoves DEF Busy, Return, mountVars
<1> QED  BY <1>3, <1>4 DEF MakeRaw

LEMMA SubscribeStep ==
    ASSUME CommandInv, NEW step, Busy, step \notin {"listen", "notify", "bridge", "shutdown"},
           NEW what \in {"output", "exit"}, NEW call \in Calls \ {"Close"},
           call = (IF what = "output" THEN "unsubOutput" ELSE "unsubExit"),
           NEW next \in {"subscribeExit", "start"},
           Subscribe(step, what, call, next), UNCHANGED mountVars
    PROVE  CommandInv'
<1>1. at = step /\ UNCHANGED <<conn, raw, stdin, done>>
    BY DEF Subscribe
<1>2. ShellInv'
    BY <1>1, NotSpawned, ShellBefore DEF CommandInv, Busy
<1>3. CASE Defer(call, next) /\ subs' = subs \cup {what}
    <2>1. /\ StackInv' /\ Pending(call)'
          /\ \A x \in Calls : Pending(x) => Pending(x)'
        BY <1>1, <1>3, StackDefer DEF CommandInv
    <2>2. UndoneInv'
        BY <1>1, <1>3, <2>1 DEF CommandInv, UndoneInv, Calls, mountVars, Busy
    <2> QED  BY <1>2, <2>1, <2>2 DEF CommandInv
<1>4. CASE Return /\ UNCHANGED subs
    BY <1>1, <1>2, <1>4, MainMoves DEF Return, mountVars
<1> QED  BY <1>3, <1>4 DEF Subscribe

LEMMA SubscribeSteps ==
    ASSUME CommandInv, SubscribeOutput \/ SubscribeExit, UNCHANGED mountVars
    PROVE  CommandInv'
<1>1. CASE SubscribeOutput
    <2>1. at = "subscribeOutput" /\ Subscribe("subscribeOutput", "output", "unsubOutput", "subscribeExit")
        BY <1>1 DEF SubscribeOutput, Subscribe
    <2> QED  BY <2>1, SubscribeStep DEF Busy, Calls
<1>2. CASE SubscribeExit
    <2>1. at = "subscribeExit" /\ Subscribe("subscribeExit", "exit", "unsubExit", "start")
        BY <1>2 DEF SubscribeExit, Subscribe
    <2> QED  BY <2>1, SubscribeStep DEF Busy, Calls
<1> QED  BY <1>1, <1>2

LEMMA CreateStartStep ==
    ASSUME CommandInv, CreateProcess \/ Start, UNCHANGED mountVars
    PROVE  CommandInv'
<1>1. /\ at \in {"create", "start"}
      /\ UNCHANGED <<conn, raw, subs, stdin, done>>
    BY DEF CreateProcess, Start, sessionVars
<1>2. PICK next \in {"subscribeOutput", "spawn", "return"} : Goto(next)
    BY DEF CreateProcess, Start, Return
<1>3. ShellInv'
    BY <1>1, NotSpawned, ShellBefore DEF CommandInv
<1> QED  BY <1>1, <1>2, <1>3, MainMoves DEF Busy, mountVars

LEMMA SpawnStep == ASSUME CommandInv, Spawn, UNCHANGED mountVars  PROVE CommandInv'
<1>1. /\ at = "spawn" /\ Defer("stopResizes", "notify")
      /\ UNCHANGED <<conn, raw, subs, done>>
    BY DEF Spawn
<1>2. ShellInv'
    BY <1>1 DEF ShellInv, Deserted, Defer
<1>3. /\ StackInv' /\ at' = "notify"
      /\ \A x \in Calls : Pending(x) => Pending(x)'
    BY <1>1, StackDefer DEF CommandInv, Busy, Calls, Defer
<1>4. UndoneInv'
    BY <1>1, <1>3, UndoneSame DEF CommandInv, mountVars
<1> QED  BY <1>2, <1>3, <1>4 DEF CommandInv

LEMMA NotifyStep == ASSUME CommandInv, Notify, UNCHANGED mountVars  PROVE CommandInv'
<1> USE DEF terminalVars, sessionVars, mountVars
<1>1. at = "notify" /\ UNCHANGED <<conn, terminalVars>> /\ Defer("stopSignals", "bridge")
    BY DEF Notify
<1>2. StackInv' /\ \A x \in Calls : Pending(x) => Pending(x)'
    BY <1>1, StackDefer DEF CommandInv, Busy, Calls
<1>3. UndoneInv'
    BY <1>1, <1>2, UndoneSame DEF CommandInv
<1>4. ShellInv'
    BY <1>1 DEF CommandInv, ShellInv, Deserted, Defer
<1> QED  BY <1>2, <1>3, <1>4 DEF CommandInv

LEMMA SelectStep == ASSUME CommandInv, Select, UNCHANGED mountVars  PROVE CommandInv'
<1> USE DEF terminalVars, sessionVars, mountVars
<1>1. at = "bridge" /\ UNCHANGED <<conn, terminalVars>>
    BY DEF Select
<1>2. PICK next \in {"return", "shutdown"} : Goto(next) /\ (next = "return" => done)
    BY DEF Select, Return
<1>3. ShellInv'
    BY <1>1, <1>2 DEF CommandInv, ShellInv, Deserted, Goto
<1> QED  BY <1>1, <1>2, <1>3, MainMoves DEF Busy

LEMMA ShutdownStep == ASSUME CommandInv, Shutdown, UNCHANGED mountVars  PROVE CommandInv'
<1>1. /\ at = "shutdown" /\ Goto("return")
      /\ UNCHANGED <<conn, raw, subs, stdin, done>>
    BY DEF Shutdown, Return
<1>2. pty' = "exited" \/ abandoned'
    BY DEF Shutdown, Exits
<1>3. ShellInv'
    BY <1>1, <1>2 DEF ShellInv, Deserted, Goto
<1> QED  BY <1>1, <1>3, MainMoves DEF Busy, mountVars

LEMMA StopSignalsStep == ASSUME CommandInv, StopSignals, UNCHANGED mountVars  PROVE CommandInv'
<1> USE DEF terminalVars, sessionVars, mountVars
<1>1. Undo("stopSignals") /\ UNCHANGED <<conn, terminalVars>>
    BY DEF StopSignals
<1>2. /\ StackInv' /\ at' = at /\ at = "return"
      /\ \A x \in Calls \ {"stopSignals"} : Pending(x) => Pending(x)'
    BY <1>1, StackUndo DEF CommandInv, Calls
<1>3. UndoneInv'
    BY <1>1, <1>2 DEF CommandInv, UndoneInv, Calls
<1>4. ShellInv'
    BY <1>1, <1>2, ShellSame DEF CommandInv
<1> QED  BY <1>2, <1>3, <1>4 DEF CommandInv

LEMMA StopResizesStep == ASSUME CommandInv, StopResizes, UNCHANGED mountVars  PROVE CommandInv'
<1> USE DEF terminalVars, sessionVars, mountVars
<1>1. Undo("stopResizes") /\ UNCHANGED <<conn, terminalVars>>
    BY DEF StopResizes
<1>2. /\ StackInv' /\ at' = at /\ at = "return"
      /\ \A x \in Calls \ {"stopResizes"} : Pending(x) => Pending(x)'
    BY <1>1, StackUndo DEF CommandInv, Calls
<1>3. UndoneInv'
    BY <1>1, <1>2 DEF CommandInv, UndoneInv, Calls
<1>4. ShellInv'
    BY <1>1, <1>2, ShellSame DEF CommandInv
<1> QED  BY <1>2, <1>3, <1>4 DEF CommandInv

LEMMA UnsubscribeStep ==
    ASSUME CommandInv, NEW what \in {"output", "exit"}, NEW call \in Calls \ {"Close"},
           call = (IF what = "output" THEN "unsubOutput" ELSE "unsubExit"),
           Unsubscribe(call, what), UNCHANGED mountVars
    PROVE  CommandInv'
<1>1. /\ Undo(call) /\ UNCHANGED <<conn, raw, stdin, pty, done, abandoned>>
      /\ subs' = subs \ {what}
    BY DEF Unsubscribe
<1>2. /\ StackInv' /\ at' = at /\ at = "return"
      /\ \A x \in Calls \ {call} : Pending(x) => Pending(x)'
    BY <1>1, StackUndo DEF CommandInv
<1>3. UndoneInv'
    BY <1>1, <1>2 DEF CommandInv, UndoneInv, Calls, mountVars
<1>4. ShellInv'
    BY <1>1, <1>2, ShellSame DEF CommandInv
<1> QED  BY <1>2, <1>3, <1>4 DEF CommandInv

LEMMA RestoreStep == ASSUME CommandInv, Restore, UNCHANGED mountVars  PROVE CommandInv'
<1>1. /\ Undo("Restore") /\ raw' = FALSE
      /\ UNCHANGED <<conn, subs, stdin, pty, done, abandoned>>
    BY DEF Restore
<1>2. /\ StackInv' /\ at' = at /\ at = "return"
      /\ \A x \in Calls \ {"Restore"} : Pending(x) => Pending(x)'
    BY <1>1, StackUndo DEF CommandInv, Calls
<1>3. UndoneInv'
    BY <1>1, <1>2 DEF CommandInv, UndoneInv, Calls, mountVars
<1>4. ShellInv'
    BY <1>1, <1>2, ShellSame DEF CommandInv
<1> QED  BY <1>2, <1>3, <1>4 DEF CommandInv

LEMMA RunSessionStep ==
    ASSUME CommandInv, RunSession, UNCHANGED mountVars
    PROVE  CommandInv'
<1>1. CASE Unsubscribe("unsubExit", "exit")
    BY <1>1, UnsubscribeStep DEF Calls
<1>2. CASE Unsubscribe("unsubOutput", "output")
    BY <1>2, UnsubscribeStep DEF Calls
<1> QED  BY <1>1, <1>2, MakeRawStep, CreateStartStep, SubscribeSteps, SpawnStep, NotifyStep,
            SelectStep, ShutdownStep, StopSignalsStep, StopResizesStep,
            RestoreStep DEF RunSession

-----------------------------------------------------------------------------
(* The specification                                                       *)

LEMMA MainStep == ASSUME CommandInv, Main  PROVE CommandInv'
BY LoginStep, DialStep, StartUpSteps, WatchStep, ListenStep, MkdirAllStep, ServeStep,
   StopRemoteStep, RunSessionStep, CloseConnStep, FinishStep DEF Main

LEMMA CommandInvStep == CommandInv /\ [Next]_commandVars => CommandInv'
<1> SUFFICES ASSUME CommandInv, [Next]_commandVars  PROVE CommandInv'
    OBVIOUS
<1>1. CASE UNCHANGED commandVars
    BY <1>1, FurtherBesides
       DEF commandVars, processVars, terminalVars, sessionVars, mountVars
<1>2. CASE World
    BY <1>2, SignalStep, ConnectionDiesStep, TerminalWorldStep DEF World
<1> QED  BY <1>1, <1>2, MainStep, ServeFailsStep, RequestsStep, TerminalGoroutinesStep
            DEF Next

LEMMA CommandInvariant == Safety => []CommandInv
BY CommandInvInit, CommandInvStep, PTL DEF Safety

(* A command that returns has closed its connection, restored the          *)
(* terminal, and stopped what it started on the server, unless a request   *)
(* for that failed: every Return of main.go and session.go meets a stack   *)
(* of deferred calls that undoes what has been done by then.  The shell is *)
(* shut down by signals alone, and stays where RunSession deserts it: a    *)
(* set-up that failed after CreateProcess, a key or an input that failed.  *)
THEOREM NothingLeftHolds == Safety => []NothingLeft
BY CommandInvariant, CommandInvImplies, PTL

-----------------------------------------------------------------------------
(* The tree behind a WebDAV mount.                                         *)

TreeInv ==
    /\ node \in [Paths -> Nodes]
    /\ known \in [Paths -> SUBSET Nodes]
    /\ request = [c \in Clients |-> request[c]]
    /\ \A c \in Clients :
          request[c].op = "delete" /\ request[c].saw = "file" => ~request[c].recursive

LEMMA OnlyRequestsMeetTheTree ==
    ASSUME [Next]_commandVars
    PROVE  DavRequests \/ DavWorld \/ UNCHANGED davTreeVars
<1>1. CASE Main
    BY <1>1 DEF Main, Alone, Mount, Login, Dial, Handshake, WaitInitialized, Stat, Watch,
                Listen, CreateBackend, MkdirAll, Serve, StopRemote
<1>2. CASE ServeFails \/ TerminalGoroutines \/ World
    BY <1>2 DEF ServeFails, TerminalGoroutines, World, Alone, Mount
<1>3. CASE Requests
    BY <1>3 DEF Requests
<1>4. CASE UNCHANGED commandVars
    BY <1>4 DEF commandVars
<1> QED  BY <1>1, <1>2, <1>3, <1>4 DEF Next

(* A step that only moves requests.                                        *)
LEMMA TreeStarts ==
    ASSUME TreeInv, NEW c \in Clients, NEW r, request' = [request EXCEPT ![c] = r],
           r.op = "delete" /\ r.saw = "file" => ~r.recursive, UNCHANGED <<node, known>>
    PROVE  TreeInv'
<1>1. request' = [x \in Clients |-> IF x = c THEN r ELSE request[x]]
    BY DEF TreeInv
<1> QED  BY <1>1 DEF TreeInv

LEMMA NothingThere == Nothing \in Nodes /\ [type |-> "dir", entries |-> {}] \in Nodes
BY DavTreeAssumption DEF Nodes, Nothing

LEMMA PutsStep ==
    ASSUME TreeInv, NEW p, NEW n \in Nodes, Puts(p, n)
    PROVE  node' \in [Paths -> Nodes] /\ known' \in [Paths -> SUBSET Nodes]
<1>1. node \in [Paths -> Nodes] /\ known \in [Paths -> SUBSET Nodes]
    BY DEF TreeInv
<1>2. node' \in [Paths -> Nodes]
    BY <1>1 DEF Puts
<1>3. PICK old \in known[p] : known' = [known EXCEPT ![p] = {old, n}]
    BY DEF Puts
<1>4. known' = [x \in Paths |-> IF x = p THEN {old, n} ELSE known[x]]
    BY <1>1, <1>3
<1>5. p \in Paths => {old, n} \in SUBSET Nodes
    BY <1>1, <1>3
<1>6. known' \in [Paths -> SUBSET Nodes]
    BY <1>1, <1>4, <1>5
<1> QED  BY <1>2, <1>6

LEMMA MovesStep ==
    ASSUME TreeInv, NEW p, NEW q, NEW n \in Nodes, Moves(p, q, n)
    PROVE  node' \in [Paths -> Nodes] /\ known' \in [Paths -> SUBSET Nodes]
<1>1. node \in [Paths -> Nodes] /\ known \in [Paths -> SUBSET Nodes]
    BY DEF TreeInv
<1>2. node' \in [Paths -> Nodes]
    BY <1>1, NothingThere DEF Moves
<1>3. PICK old \in [Paths -> Nodes] :
         known' = [x \in Paths |-> IF x \in {p, q} THEN {old[x], node'[x]} ELSE known[x]]
    BY DEF Moves
<1> QED  BY <1>1, <1>2, <1>3

LEMMA CarriedStep ==
    ASSUME TreeInv, NEW r, Carried(r)
    PROVE  node' \in [Paths -> Nodes] /\ known' \in [Paths -> SUBSET Nodes]
<1>1. CASE r.op = "mkdir"
    <2>1. Puts(r.path, [type |-> "dir", entries |-> {}])
        BY <1>1 DEF Carried
    <2> QED  BY <2>1, NothingThere, PutsStep
<1>2. CASE r.op = "delete"
    <2>1. Puts(r.path, Nothing)
        BY <1>2 DEF Carried
    <2> QED  BY <2>1, NothingThere, PutsStep
<1>3. CASE r.op = "rename"
    <2>1. PICK n \in (IF r.path \in Paths THEN {node[r.path]} ELSE Nodes) \ {Nothing} :
             Moves(r.path, r.to, n)
        BY <1>3 DEF Carried
    <2>2. n \in Nodes
        BY <2>1 DEF TreeInv
    <2> QED  BY <2>1, <2>2, MovesStep
<1>4. CASE r.op \notin {"mkdir", "rename", "delete"}
    BY <1>4 DEF Carried
<1> QED  BY <1>1, <1>2, <1>3, <1>4

LEMMA TreeRequests == ASSUME TreeInv, DavRequests  PROVE TreeInv'
<1>1. ASSUME NEW c \in Clients, NEW p \in Paths, Mkdir(c, p)  PROVE TreeInv'
    BY <1>1, TreeStarts DEF Mkdir, Starts
<1>2. ASSUME NEW c \in Clients, NEW p, NEW q, Rename(c, p, q)  PROVE TreeInv'
    BY <1>2, TreeStarts DEF Rename, Starts
<1>3. ASSUME NEW c \in Clients, NEW p \in Paths, RemoveAll(c, p)  PROVE TreeInv'
    <2>1. PICK n \in known[p] :
             Starts(c, [op |-> "delete", path |-> p, saw |-> n.type,
                        recursive |-> Recursive(n.type)])
        BY <1>3 DEF RemoveAll
    <2>2. n.type = "file" => ~Recursive(n.type)
        BY DEF Recursive
    <2> QED  BY <2>1, <2>2, TreeStarts DEF Starts
<1>4. ASSUME UNCHANGED <<node, known, request>>  PROVE TreeInv'
    BY <1>4 DEF TreeInv
<1>5. ASSUME (\E p \in Paths : OpenDir(p)) \/ (\E count \in Counts : Readdir(count)) \/ CloseDir
      PROVE  UNCHANGED <<node, known, request>>
    BY <1>5 DEF OpenDir, Readdir, CloseDir
<1> QED  BY <1>1, <1>2, <1>3, <1>4, <1>5 DEF DavRequests

LEMMA TreeWorld == ASSUME TreeInv, DavWorld  PROVE TreeInv'
<1>1. ASSUME NEW c \in Clients, RemoteDoes(c)  PROVE TreeInv'
    <2>1. request' = [x \in Clients |-> IF x = c THEN [op |-> "done"] ELSE request[x]]
        BY <1>1 DEF RemoteDoes, TreeInv
    <2>2. node' \in [Paths -> Nodes] /\ known' \in [Paths -> SUBSET Nodes]
        BY <1>1, CarriedStep DEF RemoteDoes
    <2> QED  BY <2>1, <2>2 DEF TreeInv
<1>2. ASSUME NEW c \in Clients, Returns(c)  PROVE TreeInv'
    BY <1>2, TreeStarts DEF Returns, NoRequest
<1>3. ASSUME NEW p \in Paths, Forget(p)  PROVE TreeInv'
    BY <1>3 DEF Forget, TreeInv
<1>4. ASSUME NEW p \in Paths, NEW n \in Nodes, OthersChange(p, n)  PROVE TreeInv'
    <2>1. node' \in [Paths -> Nodes] /\ known' \in [Paths -> SUBSET Nodes]
        BY <1>4, PutsStep DEF OthersChange
    <2> QED  BY <1>4, <2>1 DEF OthersChange, TreeInv
<1> QED  BY <1>1, <1>2, <1>3, <1>4 DEF DavWorld

LEMMA TreeInvariant == Safety => []TreeInv
<1>1. Init => TreeInv
    <2> SUFFICES ASSUME Init  PROVE TreeInv
        OBVIOUS
    <2>1. /\ node \in [Paths -> Nodes] /\ known = [p \in Paths |-> {node[p]}]
          /\ request = [c \in Clients |-> NoRequest]
        BY DEF Init, DavTreeInit
    <2> QED  BY <2>1 DEF TreeInv, NoRequest
<1>2. TreeInv /\ [Next]_commandVars => TreeInv'
    <2> SUFFICES ASSUME TreeInv, [Next]_commandVars  PROVE TreeInv'
        OBVIOUS
    <2>1. CASE UNCHANGED davTreeVars
        BY <2>1 DEF davTreeVars, TreeInv
    <2> QED  BY <2>1, OnlyRequestsMeetTheTree, TreeRequests, TreeWorld
<1> QED  BY <1>1, <1>2, PTL DEF Safety

(* A file that a directory with entries has replaced since is not removed  *)
(* with all that is in it (RemoveAll in internal/webdav/filesystem.go).    *)
THEOREM RemovesOnlyWhatItSawHolds == Safety => RemovesOnlyWhatItSaw
<1>1. ASSUME TreeInv, NEW c \in Clients, RemoteDoes(c),
             request[c].op = "delete", request[c].saw = "file"
      PROVE  node[request[c].path].entries = {}
    <2>1. Carried(request[c]) /\ ~request[c].recursive
        BY <1>1 DEF RemoteDoes, TreeInv
    <2> QED  BY <1>1, <2>1 DEF Carried
<1>2. TreeInv => [\A c \in Clients :
                     (RemoteDoes(c) /\ request[c].op = "delete" /\ request[c].saw = "file")
                        => node[request[c].path].entries = {}]_<<processVars, davTreeVars>>
    BY <1>1
<1> QED  BY <1>2, TreeInvariant, PTL DEF RemovesOnlyWhatItSaw

-----------------------------------------------------------------------------
(* The pages of a directory: the position is all that Readdir remembers of *)
(* what it has answered.                                                   *)

Entries == UNION Contents

PagesInv ==
    /\ dir \in [open : BOOLEAN, path : Paths \cup {Shut.path}, loaded : BOOLEAN,
                infos : Seq(Entries), pos : Nat]
    /\ dir.open => dir.path \in Paths
    /\ dir.pos <= Len(dir.infos)
    /\ listing = dir.infos
    /\ given = SubSeq(dir.infos, 1, dir.pos)
    /\ ~dir.loaded => dir.infos = <<>>
    /\ last.count \in Int
    /\ dir.loaded => IF last.count > 0 THEN last.eof <=> dir.pos = Len(dir.infos)
                                       ELSE dir.pos = Len(dir.infos)

(* What ReadDir answers is a list of the entries.                          *)
LEMMA Listed ==
    ASSUME NEW S \in Contents
    PROVE  SetToSeq(S) \in Seq(Entries)
<1>1. IsFiniteSet(S)
    BY DavTreeAssumption
<1>2. Cardinality(S) \in Nat /\ ExistsBijection(1 .. Cardinality(S), S)
    BY <1>1, FS_CardinalityType
<1>3. PICK f : f \in Bijection(1 .. Cardinality(S), S)
    BY <1>2 DEF ExistsBijection
<1>4. f \in [1 .. Cardinality(S) -> S] /\ IsInjective(f)
    BY <1>3 DEF Bijection, Injection, IsInjective
<1>5. SetToSeq(S) \in [1 .. Cardinality(S) -> S]
    BY <1>4 DEF SetToSeq
<1>6. S \subseteq Entries
    BY DEF Entries
<1> QED  BY <1>2, <1>5, <1>6

LEMMA EmptyListing ==
    SubSeq(<<>>, 1, 0) = <<>> /\ Len(<<>>) = 0 /\ <<>> \in Seq(Entries)
<1>1. SubSeq(<<>>, 1, 0) = <<>>
    BY SubSeqEmpty
<1>2. Len(<<>>) = 0 /\ <<>> \in Seq(Entries)
    OBVIOUS
<1> QED  BY <1>1, <1>2

(* Neither a directory that has just been opened nor one that is closed has *)
(* been read.                                                              *)
Unread ==
    /\ dir \in [open : BOOLEAN, path : Paths \cup {Shut.path}, loaded : BOOLEAN,
                infos : Seq(Entries), pos : Nat]
    /\ dir.open => dir.path \in Paths
    /\ dir.infos = <<>> /\ dir.pos = 0 /\ dir.loaded = FALSE
    /\ listing = <<>> /\ given = <<>> /\ last = [count |-> 0, eof |-> FALSE]

LEMMA UnreadPages == Unread => PagesInv
<1> SUFFICES ASSUME Unread  PROVE PagesInv
    OBVIOUS
<1>1. given = SubSeq(dir.infos, 1, dir.pos) /\ listing = dir.infos
    BY EmptyListing, Zenon DEF Unread
<1>2. dir.pos <= Len(dir.infos)
    BY DEF Unread
<1>3. last.count \in Int
    BY DEF Unread
<1> QED  BY <1>1, <1>2, <1>3 DEF Unread, PagesInv

NewOrNone ==
    /\ dir = Shut \/ \E p \in Paths : dir = [Shut EXCEPT !.open = TRUE, !.path = p]
    /\ listing = <<>> /\ given = <<>> /\ last = [count |-> 0, eof |-> FALSE]

LEMMA NewOrNonePages == NewOrNone => PagesInv
<1> SUFFICES ASSUME NewOrNone  PROVE Unread
    BY UnreadPages
<1> USE DEF NewOrNone
<1>1. /\ Shut.infos = <<>> /\ Shut.pos = 0 /\ Shut.loaded = FALSE /\ Shut.open = FALSE
      /\ Shut \in [open : BOOLEAN, path : Paths \cup {Shut.path}, loaded : BOOLEAN,
                   infos : Seq(Entries), pos : Nat]
    BY EmptyListing DEF Shut
<1>2. CASE dir = Shut
    BY <1>1, <1>2 DEF Unread
<1>3. ASSUME NEW p \in Paths, dir = [Shut EXCEPT !.open = TRUE, !.path = p]
      PROVE  Unread
    BY <1>1, <1>3 DEF Unread
<1> QED  BY <1>2, <1>3

LEMMA OpenedOrClosed ==
    CloseDir \/ (\E p \in Paths : OpenDir(p)) => PagesInv'
<1>1. CloseDir \/ (\E p \in Paths : OpenDir(p)) => NewOrNone'
    BY DEF CloseDir, OpenDir, NewOrNone, Shut
<1> QED  BY <1>1, NewOrNonePages, PTL

LEMMA ReaddirStep ==
    ASSUME TreeInv, PagesInv, NEW count \in Counts, Readdir(count)
    PROVE  PagesInv'
<1>0. count \in Int
    BY DavTreeAssumption
<1>1. PICK d \in Loaded :
         LET size == Len(d.infos)
             to   == IF count <= 0 \/ d.pos + count > size THEN size ELSE d.pos + count
         IN  /\ dir' = [d EXCEPT !.pos = to]
             /\ listing' = IF dir.loaded THEN listing ELSE d.infos
             /\ given' = given \o SubSeq(d.infos, d.pos + 1, to)
             /\ last' = [count |-> count, eof |-> AtEnd(count, d.pos, to, size)]
    BY DEF Readdir
<1>2. /\ d \in [open : BOOLEAN, path : Paths \cup {Shut.path}, loaded : BOOLEAN,
                infos : Seq(Entries), pos : Nat]
      /\ d.open /\ d.path \in Paths /\ d.loaded
      /\ d.pos <= Len(d.infos)
      /\ given = SubSeq(d.infos, 1, d.pos)
      /\ dir.loaded => listing = d.infos
    <2>1. dir.open /\ dir.path \in Paths
        BY DEF Readdir, PagesInv
    <2>2. CASE dir.loaded
        <3>1. d = dir
            BY <2>2 DEF Loaded
        <3> QED  BY <2>1, <2>2, <3>1 DEF PagesInv
    <2>3. CASE ~dir.loaded
        <3>1. PICK n \in known[dir.path] :
                 /\ n.type = "dir"
                 /\ d = [dir EXCEPT !.loaded = TRUE, !.infos = SetToSeq(n.entries)]
            BY <2>3 DEF Loaded
        <3>2. n \in Nodes
            BY <2>1, <3>1 DEF TreeInv
        <3>3. n.entries \in Contents
            BY <3>1, <3>2 DEF Nodes, Nothing
        <3>4. SetToSeq(n.entries) \in Seq(Entries)
            BY <3>3, Listed
        <3>5. dir.pos = 0 /\ given = <<>>
            <4>1. dir.infos = <<>> /\ dir.pos \in Nat /\ dir.pos <= Len(dir.infos)
                BY <2>3 DEF PagesInv
            <4>2. dir.pos = 0
                BY <4>1
            <4> QED  BY <4>2, SubSeqEmpty DEF PagesInv
        <3>6. /\ d.infos = SetToSeq(n.entries) /\ d.pos = 0 /\ d.loaded = TRUE
              /\ d.open = dir.open /\ d.path = dir.path
              /\ d \in [open : BOOLEAN, path : Paths \cup {Shut.path}, loaded : BOOLEAN,
                        infos : Seq(Entries), pos : Nat]
            BY <3>1, <3>4, <3>5 DEF PagesInv
        <3>7. SubSeq(d.infos, 1, 0) = <<>>
            BY SubSeqEmpty
        <3>8. Len(d.infos) \in Nat
            BY <3>4, <3>6
        <3> QED  BY <2>1, <2>3, <3>5, <3>6, <3>7, <3>8
    <2> QED  BY <2>2, <2>3
<1>3. PICK size \in Nat : size = Len(d.infos)
    BY <1>2
<1>4. PICK to \in Nat :
         /\ to = IF count <= 0 \/ d.pos + count > size THEN size ELSE d.pos + count
         /\ d.pos <= to /\ to <= size
    BY <1>0, <1>2, <1>3
<1>5. /\ dir' = [d EXCEPT !.pos = to]
      /\ listing' = IF dir.loaded THEN listing ELSE d.infos
      /\ given' = given \o SubSeq(d.infos, d.pos + 1, to)
      /\ last' = [count |-> count, eof |-> AtEnd(count, d.pos, to, size)]
    BY <1>1, <1>3, <1>4
<1>6. given' = SubSeq(d.infos, 1, to)
    <2>1. /\ d.infos \in Seq(Entries) /\ 1 \in 1 .. Len(d.infos) + 1
          /\ d.pos \in 1 - 1 .. Len(d.infos) /\ to \in d.pos .. Len(d.infos)
        BY <1>2, <1>3, <1>4
    <2> QED  BY <1>2, <1>5, <2>1, ConcatAdjacentSubSeq
<1>7. /\ dir'.infos = d.infos /\ dir'.pos = to /\ dir'.loaded = TRUE
      /\ dir'.open = d.open /\ dir'.path = d.path
      /\ dir' \in [open : BOOLEAN, path : Paths \cup {Shut.path}, loaded : BOOLEAN,
                   infos : Seq(Entries), pos : Nat]
    BY <1>2, <1>5
<1>8. listing' = d.infos
    BY <1>2, <1>5
<1>9. /\ last'.count = count
      /\ count > 0 => (last'.eof <=> to = size)
      /\ ~(count > 0) => to = size
    <2>1. last'.count = count /\ last'.eof = (count > 0 /\ to >= size)
        BY <1>5 DEF AtEnd
    <2>2. count > 0 => (to = size <=> (count > 0 /\ to >= size))
        BY <1>0, <1>4
    <2>3. ~(count > 0) => to = size
        BY <1>0, <1>4
    <2> QED  BY <2>1, <2>2, <2>3, Zenon
<1>10. Shut' = Shut /\ Entries' = Entries
    BY DEF Shut, Entries
<1> QED  BY <1>0, <1>2, <1>3, <1>4, <1>6, <1>7, <1>8, <1>9, <1>10 DEF PagesInv

(* However a reader divides a directory into pages, and whatever happens   *)
(* to the directory meanwhile, it gets the listing that was read first,    *)
(* and io.EOF with the last of it (Readdir and ensureDirLoadedLocked in    *)
(* internal/webdav/filesystem.go).                                         *)
THEOREM PagesAreTheListingHolds == Safety => []PagesAreTheListing
<1>1. Init => PagesInv
    BY NewOrNonePages DEF Init, DavTreeInit, NewOrNone
<1>2. TreeInv /\ PagesInv /\ [Next]_commandVars => PagesInv'
    <2> SUFFICES ASSUME TreeInv, PagesInv, [Next]_commandVars  PROVE PagesInv'
        OBVIOUS
    <2>1. CASE UNCHANGED dirVars
        BY <2>1 DEF dirVars, PagesInv, Shut, Entries
    <2>2. CASE CloseDir \/ \E p \in Paths : OpenDir(p)
        BY <2>2, OpenedOrClosed
    <2>3. ASSUME NEW c \in Clients, NEW p, NEW q, Mkdir(c, p) \/ RemoveAll(c, p) \/ Rename(c, p, q)
          PROVE  UNCHANGED dirVars
        BY <2>3 DEF Mkdir, RemoveAll, Rename, Starts
    <2>4. CASE DavWorld
        BY <2>1, <2>4 DEF DavWorld, RemoteDoes, Returns, Forget, OthersChange, dirVars
    <2>5. CASE UNCHANGED davTreeVars
        BY <2>1, <2>5 DEF davTreeVars, dirVars
    <2>6. CASE DavRequests
        BY <2>1, <2>2, <2>3, <2>6, ReaddirStep DEF DavRequests
    <2> QED  BY <2>4, <2>5, <2>6, OnlyRequestsMeetTheTree
<1>3. PagesInv => PagesAreTheListing
    <2> SUFFICES ASSUME PagesInv  PROVE PagesAreTheListing
        OBVIOUS
    <2>1. PICK infos \in Seq(Entries) : infos = dir.infos
        BY DEF PagesInv
    <2>2. PICK pos \in 0 .. Len(infos) : pos = dir.pos
        BY <2>1 DEF PagesInv
    <2>3. listing = infos /\ given = SubSeq(infos, 1, pos)
        BY <2>1, <2>2 DEF PagesInv
    <2>4. Len(infos) \in Nat /\ Len(given) = pos
        <3>1. \A i \in 1 .. pos : infos[i] \in Entries
            BY <2>1, <2>2
        <3> QED  BY <2>1, <2>2, <2>3, <3>1, SubSeqProperties
    <2>5. given = infos <=> pos = Len(infos)
        BY <2>3, <2>4, SubSeqFull
    <2>6. SubSeq(given, 1, Len(given)) = given
        <3>1. \A i \in 1 .. pos : infos[i] \in Entries
            BY <2>1, <2>2
        <3>2. given \in Seq(Entries)
            BY <2>2, <2>3, <3>1, SubSeqProperties
        <3> QED  BY <3>2, SubSeqFull
    <2>7. IsPrefix(given, listing)
        BY <2>2, <2>3, <2>4, <2>6 DEF IsPrefix
    <2> QED  BY <2>1, <2>2, <2>3, <2>5, <2>7 DEF PagesInv, PagesAreTheListing
<1> QED  BY <1>1, <1>2, <1>3, TreeInvariant, PTL DEF Safety

-----------------------------------------------------------------------------
(* Sums over finite sets, as FoldFunction computes them.  No theorem of    *)
(* induction is needed: a least counterexample does as well.               *)

LEMMA Least ==
    ASSUME NEW T \in SUBSET Nat, T # {}
    PROVE  \E n \in T : \A m \in T : n <= m
<1> DEFINE R == OpToRel(<, Nat)
<1>1. \A x, y \in Nat : y < x => <<y, x>> \in R
    BY DEF OpToRel
<1>2. IsWellFoundedOn(R, Nat)
    BY NatLessThanWellFounded
<1> HIDE DEF R
<1>3. PICK n \in T : \A y \in T : ~ (<<y, n>> \in R)
    BY <1>2, WFMin
<1>4. \A y \in T : ~(y < n)
    BY <1>1, <1>3
<1> QED  BY <1>4

Picked(s) == CHOOSE x \in s : TRUE

(* g[s] is the sum of w over s, element by element.                        *)
Sums(w, S, g) ==
    g = [s \in SUBSET S |-> IF s = {} THEN 0 ELSE w[Picked(s)] + g[s \ {Picked(s)}]]

LEMMA OneLess ==
    ASSUME NEW S, IsFiniteSet(S), NEW s \in SUBSET S, s # {}
    PROVE  /\ Picked(s) \in s /\ s \ {Picked(s)} \in SUBSET S
           /\ Cardinality(s) \in Nat /\ Cardinality(s \ {Picked(s)}) \in Nat
           /\ Cardinality(s \ {Picked(s)}) = Cardinality(s) - 1
<1>1. Picked(s) \in s
    BY DEF Picked
<1>2. IsFiniteSet(s)
    BY FS_Subset
<1>3. Cardinality(s) \in Nat /\ IsFiniteSet(s \ {Picked(s)})
    BY <1>2, FS_CardinalityType, FS_RemoveElement
<1>4. Cardinality(s \ {Picked(s)}) = Cardinality(s) - 1
    BY <1>1, <1>2, FS_RemoveElement
<1>5. Cardinality(s \ {Picked(s)}) \in Nat
    BY <1>3, FS_CardinalityType
<1> QED  BY <1>1, <1>3, <1>4, <1>5

LEMMA SumsExist ==
    ASSUME NEW S, IsFiniteSet(S), NEW w \in [S -> Nat]
    PROVE  \E g \in [SUBSET S -> Nat] : Sums(w, S, g)
<1> DEFINE Small(n) == {s \in SUBSET S : Cardinality(s) <= n}
           Summed(g, n) == \A s \in Small(n) :
                               g[s] = IF s = {} THEN 0 ELSE w[Picked(s)] + g[s \ {Picked(s)}]
           T == {n \in Nat : ~ \E g \in [Small(n) -> Nat] : Summed(g, n)}
<1>1. \A s \in SUBSET S : Cardinality(s) \in Nat
    BY FS_Subset, FS_CardinalityType
<1>2. \A s \in SUBSET S : Cardinality(s) <= 0 => s = {}
    BY <1>1, FS_Subset, FS_EmptySet
<1>3. T = {}
    <2> SUFFICES ASSUME T # {}  PROVE FALSE
        OBVIOUS
    <2>1. PICK n \in T : \A m \in T : n <= m
        BY Least
    <2>2. n \in Nat
        BY <2>1
    <2>3. CASE n = 0
        <3> DEFINE g == [s \in Small(0) |-> 0]
        <3>1. \A s \in Small(0) : s = {}
            BY <1>2
        <3>2. g \in [Small(0) -> Nat]
            OBVIOUS
        <3>3. \A s \in Small(0) : s = {} /\ g[s] = 0
            BY <3>1
        <3>4. Summed(g, 0)
            BY <3>3
        <3>5. \E f \in [Small(0) -> Nat] : Summed(f, 0)
            <4> HIDE DEF g
            <4> QED  BY <3>2, <3>4
        <3>6. 0 \notin T
            BY <3>5
        <3> QED  BY <2>1, <2>3, <3>6
    <2>4. CASE n # 0
        <3>1. PICK m \in Nat : n = m + 1
            <4>1. n - 1 \in Nat /\ n = (n - 1) + 1
                BY <2>2, <2>4
            <4> QED  BY <4>1
        <3>2. m \notin T
            <4> HIDE DEF T
            <4> QED  BY <2>1, <2>2, <3>1
        <3>3. PICK f \in [Small(m) -> Nat] : Summed(f, m)
            BY <3>2
        <3> DEFINE g == [s \in Small(n) |-> IF s = {} THEN 0
                                            ELSE w[Picked(s)] + f[s \ {Picked(s)}]]
        <3>4. \A s \in Small(n) : s # {} =>
                 s \ {Picked(s)} \in Small(m) /\ w[Picked(s)] \in Nat
            <4> SUFFICES ASSUME NEW s \in Small(n), s # {}
                         PROVE  s \ {Picked(s)} \in Small(m) /\ w[Picked(s)] \in Nat
                OBVIOUS
            <4>1. Cardinality(s) <= m + 1
                BY <3>1
            <4>2. Cardinality(s \ {Picked(s)}) <= m
                BY <3>1, <4>1, OneLess
            <4> QED  BY <4>2, OneLess
        <3>5. \A s \in Small(m) : s \in Small(n) /\ g[s] = f[s]
            <4>1. \A s \in Small(m) : s \in Small(n)
                BY <1>1, <2>2, <3>1
            <4>2. \A s \in Small(m) :
                     f[s] = IF s = {} THEN 0 ELSE w[Picked(s)] + f[s \ {Picked(s)}]
                BY <3>3
            <4> QED  BY <4>1, <4>2
        <3>6. g \in [Small(n) -> Nat]
            BY <3>3, <3>4
        <3>7. Summed(g, n)
            BY <3>4, <3>5
        <3> QED  BY <2>1, <3>6, <3>7
    <2> QED  BY <2>3, <2>4
<1>4. PICK n \in Nat : n = Cardinality(S)
    BY <1>1
<1>5. Small(n) = SUBSET S
    BY <1>4, FS_Subset
<1>6. PICK g \in [Small(n) -> Nat] : Summed(g, n)
    BY <1>3
<1>7. g \in [SUBSET S -> Nat]
    BY <1>5, <1>6
<1>8. \A s \in SUBSET S : g[s] = IF s = {} THEN 0 ELSE w[Picked(s)] + g[s \ {Picked(s)}]
    BY <1>5, <1>6
<1>9. Sums(w, S, g)
    BY <1>7, <1>8 DEF Sums
<1> QED  BY <1>7, <1>9

Alike(w, v, S) == \A x \in S : w[x] = v[x]

Summing(w, S, g) == w \in [S -> Nat] /\ g \in [SUBSET S -> Nat] /\ Sums(w, S, g)

(* Where two functions of the same set differ in one place, so do their    *)
(* sums.                                                                   *)
LEMMA SumsDiffer ==
    ASSUME NEW S, IsFiniteSet(S), NEW h, h \in S,
           NEW w, NEW f, Summing(w, S, f), NEW v, NEW g, Summing(v, S, g),
           Alike(w, v, S \ {h})
    PROVE  f[S] + v[h] = g[S] + w[h]
<1> USE DEF Summing
<1> DEFINE Right(s) == IF h \in s THEN f[s] + v[h] = g[s] + w[h] ELSE f[s] = g[s]
           T == {n \in Nat : \E s \in SUBSET S : Cardinality(s) = n /\ ~Right(s)}
<1>1. \A s \in SUBSET S : Cardinality(s) \in Nat
    BY FS_Subset, FS_CardinalityType
<1>2. T = {}
    <2> SUFFICES ASSUME T # {}  PROVE FALSE
        OBVIOUS
    <2>1. PICK n \in T : \A m \in T : n <= m
        BY Least
    <2>2. PICK s \in SUBSET S : Cardinality(s) = n /\ ~Right(s)
        BY <2>1
    <2>3. /\ f[s] = IF s = {} THEN 0 ELSE w[Picked(s)] + f[s \ {Picked(s)}]
          /\ g[s] = IF s = {} THEN 0 ELSE v[Picked(s)] + g[s \ {Picked(s)}]
        BY DEF Sums
    <2>4. s # {}
        BY <2>2, <2>3
    <2>5. PICK p \in s : p = Picked(s)
        BY <2>4, OneLess
    <2>6. PICK t \in SUBSET S : t = s \ {p}
        BY <2>5
    <2>7. Cardinality(t) \in Nat /\ Cardinality(t) < n
        BY <2>2, <2>4, <2>5, <2>6, OneLess
    <2>8. Right(t)
        <3>1. Cardinality(t) \notin T
            BY <2>1, <2>7
        <3> QED  BY <2>7, <3>1
    <2>9. f[s] = w[p] + f[t] /\ g[s] = v[p] + g[t]
        BY <2>3, <2>4, <2>5, <2>6
    <2>10. /\ f[t] \in Nat /\ g[t] \in Nat /\ w[p] \in Nat /\ v[p] \in Nat
           /\ w[h] \in Nat /\ v[h] \in Nat
        BY <2>5
    <2>11. CASE p = h
        <3>1. f[t] = g[t] /\ h \in s
            BY <2>6, <2>8, <2>11
        <3> QED  BY <2>2, <2>9, <2>10, <2>11, <3>1
    <2>12. CASE p # h
        <3>1. w[p] = v[p] /\ (h \in t <=> h \in s)
            BY <2>5, <2>6, <2>12 DEF Alike
        <3>2. CASE h \in s
            <4>1. f[t] + v[h] = g[t] + w[h]
                BY <2>8, <3>1, <3>2
            <4> QED  BY <2>2, <2>9, <2>10, <3>1, <3>2, <4>1
        <3>3. CASE h \notin s
            BY <2>2, <2>8, <2>9, <3>1, <3>3
        <3> QED  BY <3>2, <3>3
    <2> QED  BY <2>11, <2>12
<1>3. Right(S)
    BY <1>1, <1>2
<1> QED  BY <1>3

LEMMA SumsAreNumbers ==
    ASSUME NEW S, IsFiniteSet(S), NEW w \in [S -> Nat], NEW g, Sums(w, S, g)
    PROVE  g \in [SUBSET S -> Nat]
<1> DEFINE T == {n \in Nat : \E s \in SUBSET S : Cardinality(s) = n /\ g[s] \notin Nat}
<1>1. T = {}
    <2> SUFFICES ASSUME T # {}  PROVE FALSE
        OBVIOUS
    <2>1. PICK n \in T : \A m \in T : n <= m
        BY Least
    <2>2. PICK s \in SUBSET S : Cardinality(s) = n /\ g[s] \notin Nat
        BY <2>1
    <2>3. g[s] = IF s = {} THEN 0 ELSE w[Picked(s)] + g[s \ {Picked(s)}]
        BY DEF Sums
    <2>4. s # {}
        BY <2>2, <2>3
    <2>5. PICK p \in s : p = Picked(s)
        BY <2>4, OneLess
    <2>6. PICK t \in SUBSET S : t = s \ {p}
        BY <2>5
    <2>7. Cardinality(t) \in Nat /\ Cardinality(t) < n
        BY <2>2, <2>4, <2>5, <2>6, OneLess
    <2>8. g[t] \in Nat
        <3>1. Cardinality(t) \notin T
            BY <2>1, <2>7
        <3> QED  BY <2>7, <3>1
    <2>9. g[s] = w[p] + g[t]
        BY <2>3, <2>4, <2>5, <2>6
    <2> QED  BY <2>2, <2>5, <2>8, <2>9
<1>2. \A s \in SUBSET S : Cardinality(s) \in Nat
    BY FS_Subset, FS_CardinalityType
<1>3. \A s \in SUBSET S : g[s] \in Nat
    BY <1>1, <1>2
<1>4. g = [s \in SUBSET S |-> g[s]]
    BY DEF Sums
<1> QED  BY <1>3, <1>4

-----------------------------------------------------------------------------
(* What the handlers of output events hold.                                *)

Outputs == [step : {"idle", "event", "ack"}, mine : BOOLEAN, bytes : Nat]
BytesIn(f) == FoldFunction(LAMBDA x, n : x.bytes + n, 0, f)

LEMMA BytesAreASum ==
    ASSUME NEW S, IsFiniteSet(S), NEW f \in [S -> Outputs]
    PROVE  \E w, g : /\ Summing(w, S, g) /\ BytesIn(f) = g[S]
                     /\ \A x \in S : w[x] = f[x].bytes
<1> DEFINE w == [x \in S |-> f[x].bytes]
           Computes(g) ==
               g = [s \in SUBSET DOMAIN f |->
                       IF s = {} THEN 0
                       ELSE f[CHOOSE x \in s : TRUE].bytes + g[s \ {CHOOSE x \in s : TRUE}]]
<1>1. DOMAIN f = S /\ w \in [S -> Nat] /\ \A x \in S : w[x] = f[x].bytes
    BY DEF Outputs
<1>2. ASSUME NEW g  PROVE Computes(g) <=> Sums(w, S, g)
    <2>1. ASSUME NEW s \in SUBSET S, s # {}
          PROVE  f[CHOOSE x \in s : TRUE].bytes = w[CHOOSE x \in s : TRUE]
        <3>1. (CHOOSE x \in s : TRUE) \in s
            BY <2>1
        <3> QED  BY <1>1, <3>1
    <2>2. [s \in SUBSET DOMAIN f |->
              IF s = {} THEN 0
              ELSE f[CHOOSE x \in s : TRUE].bytes + g[s \ {CHOOSE x \in s : TRUE}]]
          = [s \in SUBSET S |->
              IF s = {} THEN 0
              ELSE w[CHOOSE x \in s : TRUE] + g[s \ {CHOOSE x \in s : TRUE}]]
        BY <1>1, <2>1
    <2> QED  BY <2>2, Zenon DEF Sums, Picked
<1>3. BytesIn(f) = (CHOOSE g : Computes(g))[DOMAIN f]
    BY DEF BytesIn, FoldFunction, FoldFunctionOnSet, MapThenFoldSet
<1> HIDE DEF Computes, w
<1>4. \E g : Computes(g)
    <2>1. PICK g : Sums(w, S, g)
        BY <1>1, SumsExist
    <2> QED  BY <1>2, <2>1
<1>5. PICK g : g = CHOOSE k : Computes(k)
    OBVIOUS
<1>6. Computes(g)
    BY <1>4, <1>5
<1>7. Sums(w, S, g)
    BY <1>2, <1>6
<1>8. g \in [SUBSET S -> Nat]
    BY <1>1, <1>7, SumsAreNumbers
<1>9. Summing(w, S, g) /\ BytesIn(f) = g[S]
    BY <1>1, <1>3, <1>5, <1>7, <1>8 DEF Summing
<1> QED  BY <1>1, <1>9

LEMMA BytesDiffer ==
    ASSUME NEW S, IsFiniteSet(S), NEW f \in [S -> Outputs], NEW k \in [S -> Outputs],
           NEW h \in S, Alike(f, k, S \ {h})
    PROVE  /\ BytesIn(f) \in Nat /\ BytesIn(k) \in Nat
           /\ BytesIn(f) + k[h].bytes = BytesIn(k) + f[h].bytes
<1>1. PICK w, a : Summing(w, S, a) /\ BytesIn(f) = a[S] /\ \A x \in S : w[x] = f[x].bytes
    BY BytesAreASum
<1>2. PICK v, b : Summing(v, S, b) /\ BytesIn(k) = b[S] /\ \A x \in S : v[x] = k[x].bytes
    BY BytesAreASum
<1>3. Alike(w, v, S \ {h})
    BY <1>1, <1>2 DEF Alike
<1>4. a[S] + v[h] = b[S] + w[h]
    BY <1>1, <1>2, <1>3, SumsDiffer, SMT
<1>5. a[S] \in Nat /\ b[S] \in Nat
    BY <1>1, <1>2 DEF Summing
<1> QED  BY <1>1, <1>2, <1>4, <1>5

LEMMA NoBytesWhenIdle ==
    ASSUME NEW S, IsFiniteSet(S)
    PROVE  BytesIn([h \in S |-> Idle]) = 0
<1> DEFINE f == [h \in S |-> Idle]
           z == [s \in SUBSET S |-> 0]
<1>1. f \in [S -> Outputs]
    BY DEF Idle, Outputs
<1>2. \A x \in S : f[x].bytes = 0
    BY DEF Idle
<1> HIDE DEF f
<1>3. PICK w, a : Summing(w, S, a) /\ BytesIn(f) = a[S] /\ \A x \in S : w[x] = f[x].bytes
    BY <1>1, BytesAreASum
<1>4. \A x \in S : w[x] = 0
    BY <1>2, <1>3
<1>5. CASE S = {}
    <2>1. {} \in SUBSET S /\ Sums(w, S, a)
        BY <1>3 DEF Summing
    <2>2. a[{}] = 0
        BY <2>1 DEF Sums
    <2> QED  BY <1>3, <1>5, <2>2 DEF f
<1>6. CASE S # {}
    <2>1. PICK h \in S : TRUE
        BY <1>6
    <2>2. z \in [SUBSET S -> Nat] /\ z[S] = 0
        OBVIOUS
    <2>3. ASSUME NEW s \in SUBSET S
          PROVE  z[s] = IF s = {} THEN 0 ELSE w[Picked(s)] + z[s \ {Picked(s)}]
        <3>1. s # {} => Picked(s) \in S
            BY OneLess
        <3> QED  BY <1>4, <3>1
    <2>4. Sums(w, S, z)
        BY <2>3 DEF Sums
    <2>5. Summing(w, S, z) /\ Alike(w, w, S \ {h})
        BY <1>3, <2>2, <2>4 DEF Summing, Alike
    <2> HIDE DEF z
    <2>6. a[S] + w[h] = z[S] + w[h]
        BY <1>3, <2>5, SumsDiffer, SMT
    <2>7. a[S] \in Nat
        BY <1>3 DEF Summing
    <2> QED  BY <1>3, <1>4, <2>2, <2>6, <2>7 DEF f
<1> QED  BY <1>5, <1>6

-----------------------------------------------------------------------------
(* The output of the remote process, byte by byte.                         *)

OutputInv ==
    /\ handler \in [Handlers -> Outputs]
    /\ charCount \in Nat /\ sent \in Nat /\ acked \in Nat /\ lost \in Nat
    /\ sent = charCount + acked + lost + BytesIn(handler)
    /\ charCount < AckSize

flow == <<handler, charCount, sent, acked, lost>>

(* One handler goes from before to after, the others are left alone.       *)
LEMMA OneHandlerMoves ==
    ASSUME handler \in [Handlers -> Outputs], NEW h \in Handlers, NEW after \in Outputs,
           handler' = [handler EXCEPT ![h] = after]
    PROVE  /\ handler' \in [Handlers -> Outputs]
           /\ handler[h].bytes \in Nat /\ after.bytes \in Nat
           /\ BytesIn(handler) \in Nat /\ BytesIn(handler') \in Nat
           /\ BytesIn(handler) + after.bytes = BytesIn(handler') + handler[h].bytes
<1>1. PICK f \in [Handlers -> Outputs] : f = handler
    OBVIOUS
<1>2. PICK g \in [Handlers -> Outputs] : g = handler'
    OBVIOUS
<1>3. g[h] = after /\ Alike(f, g, Handlers \ {h}) /\ IsFiniteSet(Handlers)
    BY <1>1, <1>2, TerminalAssumption DEF Alike
<1>4. /\ BytesIn(f) \in Nat /\ BytesIn(g) \in Nat
      /\ BytesIn(f) + g[h].bytes = BytesIn(g) + f[h].bytes
    BY <1>3, BytesDiffer
<1>5. f[h].bytes \in Nat /\ after.bytes \in Nat
    BY DEF Outputs
<1> QED  BY <1>1, <1>2, <1>3, <1>4, <1>5

LEMMA EmitAccounts ==
    ASSUME OutputInv, NEW h \in Handlers, NEW mine \in BOOLEAN, NEW chunk \in Chunks,
           Emit(h, mine, chunk)
    PROVE  OutputInv'
<1>0. PICK n : n = chunk[2]
    OBVIOUS
<1>1. n \in Nat
    BY <1>0, TerminalAssumption
<1>2. handler[h] = Idle /\ handler[h].bytes = 0
    BY DEF Emit, Idle
<1>3. PICK after \in Outputs : after = [step |-> "event", mine |-> mine, bytes |-> n]
    BY <1>1 DEF Outputs
<1>4. handler' = [handler EXCEPT ![h] = after] /\ after.bytes = n /\ sent' = sent + n
      /\ UNCHANGED <<charCount, acked, lost>>
    BY <1>0, <1>3 DEF Emit
<1>5. /\ handler' \in [Handlers -> Outputs] /\ BytesIn(handler) \in Nat /\ BytesIn(handler') \in Nat
      /\ BytesIn(handler) + n = BytesIn(handler')
    <2>1. /\ handler' \in [Handlers -> Outputs]
          /\ BytesIn(handler) \in Nat /\ BytesIn(handler') \in Nat
          /\ BytesIn(handler) + after.bytes = BytesIn(handler') + handler[h].bytes
        BY <1>4, OneHandlerMoves DEF OutputInv
    <2> QED  BY <1>2, <1>4, <2>1
<1> QED  BY <1>1, <1>4, <1>5 DEF OutputInv

LEMMA HandleOutputAccounts ==
    ASSUME OutputInv, NEW h \in Handlers, HandleOutput(h)
    PROVE  OutputInv'
<1>0. PICK total : total = charCount + handler[h].bytes
    OBVIOUS
<1>1. handler[h].bytes \in Nat /\ total \in Nat /\ handler[h] \in Outputs
    BY <1>0 DEF OutputInv, Outputs
<1>2. UNCHANGED <<sent, acked, lost>>
    BY DEF HandleOutput
<1>3. CASE total >= AckSize
    <2>1. charCount' = 0
          /\ handler' = [handler EXCEPT ![h] = [@ EXCEPT !.step = "ack", !.bytes = total]]
        BY <1>0, <1>3 DEF HandleOutput, Due, AckOf
    <2>2. PICK after \in Outputs : after = [handler[h] EXCEPT !.step = "ack", !.bytes = total]
        BY <1>1 DEF Outputs
    <2>3. handler' = [handler EXCEPT ![h] = after] /\ after.bytes = total
        BY <1>1, <2>1, <2>2 DEF OutputInv, Outputs
    <2>4. /\ handler' \in [Handlers -> Outputs] /\ BytesIn(handler) \in Nat
          /\ BytesIn(handler') \in Nat
          /\ BytesIn(handler) + total = BytesIn(handler') + handler[h].bytes
        BY <2>3, OneHandlerMoves DEF OutputInv
    <2>5. 0 < AckSize
        BY TerminalAssumption
    <2> QED  BY <1>0, <1>1, <1>2, <2>1, <2>4, <2>5 DEF OutputInv
<1>4. CASE ~(total >= AckSize)
    <2>1. charCount' = total /\ handler' = [handler EXCEPT ![h] = Idle]
        BY <1>0, <1>4 DEF HandleOutput, Due
    <2>2. PICK after \in Outputs : after = Idle
        BY DEF Outputs, Idle
    <2>3. after.bytes = 0
        BY <2>2 DEF Idle
    <2>4. /\ handler' \in [Handlers -> Outputs] /\ BytesIn(handler) \in Nat
          /\ BytesIn(handler') \in Nat
          /\ BytesIn(handler) = BytesIn(handler') + handler[h].bytes
        <3>1. /\ handler' \in [Handlers -> Outputs]
              /\ BytesIn(handler) \in Nat /\ BytesIn(handler') \in Nat
              /\ BytesIn(handler) + after.bytes = BytesIn(handler') + handler[h].bytes
            BY <2>1, <2>2, OneHandlerMoves DEF OutputInv
        <3> QED  BY <1>1, <2>3, <3>1
    <2>5. total < AckSize
        BY <1>1, <1>4, TerminalAssumption
    <2> QED  BY <1>0, <1>1, <1>2, <2>1, <2>4, <2>5 DEF OutputInv
<1> QED  BY <1>3, <1>4

LEMMA AckReturnsAccounts ==
    ASSUME OutputInv, NEW h \in Handlers, AckReturns(h)
    PROVE  OutputInv'
<1>1. PICK n : n = handler[h].bytes
    OBVIOUS
<1>2. n \in Nat
    BY <1>1 DEF OutputInv, Outputs
<1>3. PICK after \in Outputs : after = Idle
    BY DEF Outputs, Idle
<1>4. after.bytes = 0
    BY <1>3 DEF Idle
<1>5. /\ handler' = [handler EXCEPT ![h] = after]
      /\ UNCHANGED <<charCount, sent>>
    BY <1>3 DEF AckReturns
<1>6. (acked' = acked + n /\ lost' = lost) \/ (lost' = lost + n /\ acked' = acked)
    BY <1>1 DEF AckReturns
<1>7. /\ handler' \in [Handlers -> Outputs] /\ BytesIn(handler) \in Nat
      /\ BytesIn(handler') \in Nat
      /\ BytesIn(handler) = BytesIn(handler') + n
    <2>1. /\ handler' \in [Handlers -> Outputs]
          /\ BytesIn(handler) \in Nat /\ BytesIn(handler') \in Nat
          /\ BytesIn(handler) + after.bytes = BytesIn(handler') + handler[h].bytes
        BY <1>5, OneHandlerMoves DEF OutputInv
    <2> QED  BY <1>1, <1>2, <1>4, <2>1
<1> QED  BY <1>2, <1>5, <1>6, <1>7 DEF OutputInv

(* Only these steps touch the output.                                      *)
LEMMA OutputIsMovedBy ==
    ASSUME [Next]_commandVars
    PROVE  \/ UNCHANGED flow
           \/ \E h \in Handlers : HandleOutput(h) \/ AckReturns(h)
           \/ \E h \in Handlers : \E mine \in BOOLEAN : \E chunk \in Chunks : Emit(h, mine, chunk)
<1> USE DEF flow, flowVars, terminalVars
<1>1. CASE Alone \/ Mount
    BY <1>1 DEF Alone, Mount
<1>2. CASE RunSession
    BY <1>2 DEF RunSession, MakeRaw, CreateProcess, SubscribeOutput, SubscribeExit, Subscribe,
                Start, Spawn, Notify, Select, Shutdown, StopSignals, StopResizes, Unsubscribe, Restore
<1>3. CASE TerminalGoroutines
    BY <1>3 DEF TerminalGoroutines, BesideMain, Stdin, ResizerEnds, EventGoroutines, ExitHandler
<1>4. CASE TerminalWorld
    BY <1>4 DEF TerminalWorld, ProcessExits
<1>5. CASE Requests
    BY <1>5 DEF Requests
<1>6. CASE Main
    BY <1>1, <1>2, <1>6 DEF Main, Login, Dial, Handshake, WaitInitialized, Stat, Watch, Listen,
                            CreateBackend, MkdirAll, Serve, StopRemote
<1>7. CASE ServeFails
    BY <1>1, <1>7 DEF ServeFails
<1>8. CASE World
    BY <1>1, <1>4, <1>8 DEF World
<1>9. CASE UNCHANGED commandVars
    BY <1>9 DEF commandVars
<1> QED  BY <1>3, <1>5, <1>6, <1>7, <1>8, <1>9 DEF Next

(* Every byte of output is in an event that is not handled yet, or in the  *)
(* counter, or in one acknowledgement, and the counter stays below the     *)
(* unit: for any number of events that are handled at once, in any order   *)
(* (SubscribeOutput in internal/terminal/client.go).                       *)
THEOREM OutputAccountedHolds == Safety => []OutputAccounted
<1>1. Init => OutputInv
    <2> SUFFICES ASSUME Init  PROVE OutputInv
        OBVIOUS
    <2>1. handler = [h \in Handlers |-> Idle] /\ charCount = 0 /\ sent = 0 /\ acked = 0 /\ lost = 0
        BY DEF Init, TerminalInit
    <2>2. handler \in [Handlers -> Outputs]
        BY <2>1 DEF Outputs, Idle
    <2>3. BytesIn(handler) = 0 /\ 0 < AckSize
        BY <2>1, NoBytesWhenIdle, TerminalAssumption
    <2> QED  BY <2>1, <2>2, <2>3 DEF OutputInv
<1>2. OutputInv /\ [Next]_commandVars => OutputInv'
    <2> SUFFICES ASSUME OutputInv, [Next]_commandVars  PROVE OutputInv'
        OBVIOUS
    <2>1. CASE UNCHANGED flow
        BY <2>1 DEF flow, OutputInv
    <2> QED  BY <2>1, OutputIsMovedBy, EmitAccounts, HandleOutputAccounts, AckReturnsAccounts
<1>3. OutputInv => OutputAccounted
    BY DEF OutputInv, OutputAccounted, BytesIn
<1> QED  BY <1>1, <1>2, <1>3, PTL DEF Safety
=============================================================================
