-------------------------------- MODULE Command --------------------------------
(***************************************************************************)
(* cmd/code-local/main.go: the two commands, from the login to the last    *)
(* deferred call, with what they start: a mount (internal/nfs/server.go or *)
(* internal/webdav/server.go, whose requests are those of DavTree) or a    *)
(* terminal (Terminal).  Each step stands for a call that other modules    *)
(* look into: Conn, Handshake, IPCClient and CachedFS.                     *)
(*                                                                         *)
(* Definitions marked Slip are not the code: they are mistakes it could    *)
(* have made, which the properties below notice.                           *)
(***************************************************************************)
EXTENDS Terminal, DavTree

VARIABLES
    command,    \* "nfs" or "webdav" (the flag --backend), or "terminal"
    watching,   \* external: the server watches the remote directory for us
    listening,  \* events of the watch are subscribed to
    serving,    \* Serve: "none", "running", "failed" or "stopped"
    missed      \* history: a request to watch, or to stop it, or the
                \*   subscription between them, has failed

mountVars   == <<watching, listening, serving, missed>>
commandVars == <<processVars, terminalVars, davTreeVars, mountVars, command>>

Init ==
    /\ ProcessInit("login")
    /\ TerminalInit
    /\ DavTreeInit
    /\ command \in {"nfs", "webdav", "terminal"}
    /\ command # "webdav" => node = [p \in Paths |-> Nothing]   \* of no account
    /\ watching = FALSE /\ listening = FALSE /\ serving = "none" /\ missed = FALSE

(* A step of main that concerns neither the mount nor the terminal.        *)
Alone == UNCHANGED <<terminalVars, davTreeVars, mountVars, command>>
Mount == UNCHANGED <<terminalVars, davTreeVars, command>>

-----------------------------------------------------------------------------
(* Common to run and runTerminal                                           *)

(* code-server answers 302 if the password is right; the session cookie is *)
(* looked for in the jar and then in the headers.                          *)
LoggedIn(status, inJar, inHeader) == status = 302 /\ (inJar \/ inHeader)

Login ==
    /\ at = "login"
    /\ \E status \in {200, 302, 500} : \E inJar, inHeader \in BOOLEAN :
          IF LoggedIn(status, inJar, inHeader) THEN Goto("dial") ELSE Return
    /\ UNCHANGED <<conn, signal>> /\ Alone

Dial ==
    /\ at = "dial"
    /\ \/ conn' = "open" /\ Defer("Close", "handshake")
       \/ Return /\ UNCHANGED conn
    /\ UNCHANGED signal /\ Alone

Handshake ==
    /\ at = "handshake"
    /\ (Answered /\ Goto("initialize")) \/ Return
    /\ UNCHANGED <<conn, signal>> /\ Alone

WaitInitialized ==
    /\ at = "initialize"
    /\ \/ Answered /\ Goto(IF command = "terminal" THEN "session" ELSE "stat")
       \/ Return
    /\ UNCHANGED <<conn, signal>> /\ Alone

-----------------------------------------------------------------------------
(* run                                                                     *)

(* The remote path is a directory, or anything else, or there is no answer. *)
Stat ==
    /\ at = "stat"
    /\ (Answered /\ Goto("watch")) \/ Return
    /\ UNCHANGED <<conn, signal>> /\ Alone

(* Client.Watch: a request, ...                                            *)
Watch ==
    /\ at = "watch"
    /\ \/ Answered /\ watching' = TRUE /\ Goto("listen") /\ UNCHANGED missed
       \/ /\ watching' = watching \/ (Answered /\ watching' = TRUE)
          /\ missed' = TRUE
          /\ Return
    /\ UNCHANGED <<conn, signal, listening, serving>> /\ Mount

(* ... and a subscription; if that fails the request stands.               *)
Listen ==
    /\ at = "listen"
    /\ \/ Sent /\ listening' = TRUE /\ Defer("stopRemote", "createBackend") /\ UNCHANGED missed
       \/ SendFails /\ missed' = TRUE /\ Return /\ UNCHANGED listening
    /\ UNCHANGED <<conn, signal, watching, serving>> /\ Mount

(* createBackend opens the listener; MkdirAll makes the mount point; either *)
(* may fail.                                                               *)
CreateBackend ==
    /\ at = "createBackend"
    /\ Goto("mkdir") \/ Return
    /\ UNCHANGED <<conn, signal>> /\ Alone

MkdirAll ==
    /\ at = "mkdir"
    /\ \/ signal' = "caught" /\ serving' = "running" /\ Goto("serve")
       \/ Return /\ UNCHANGED <<signal, serving>>
    /\ UNCHANGED <<conn, watching, listening, missed>> /\ Mount

(* Serve returns by itself only with an error.                             *)
ServeFails ==
    /\ serving = "running"
    /\ serving' = "failed"
    /\ UNCHANGED <<processVars, watching, listening, missed>> /\ Mount

(* select: Serve has returned, or a signal closes the server, which waits  *)
(* for no request.                                                         *)
Serve ==
    /\ at = "serve"
    /\ \/ serving = "failed" /\ UNCHANGED <<signal, serving>>
       \/ signal = "pending" /\ signal' = "caught" /\ serving' = "stopped"
    /\ Return
    /\ UNCHANGED <<conn, watching, listening, missed>> /\ Mount

(* stopRemote: the subscription is disposed of, then the watch ended.      *)
StopRemote ==
    /\ Undo("stopRemote")
    /\ listening' = FALSE
    /\ \/ Answered /\ watching' = FALSE /\ UNCHANGED missed
       \/ /\ watching' = watching \/ (Answered /\ watching' = FALSE)
          /\ missed' = (missed \/ conn # "closed")
    /\ UNCHANGED <<conn, signal, serving>> /\ Mount

-----------------------------------------------------------------------------

Main ==
    \/ Login \/ Dial \/ Handshake \/ WaitInitialized
    \/ Stat \/ Watch \/ Listen \/ CreateBackend \/ MkdirAll \/ Serve \/ StopRemote
    \/ RunSession /\ UNCHANGED <<davTreeVars, mountVars, command>>
    \/ CloseConn /\ Alone
    \/ Finish /\ Alone

(* The requests of the mount go on until the process ends.                 *)
Requests ==
    /\ Running /\ command = "webdav" /\ serving # "none"
    /\ (serving = "running" /\ DavRequests) \/ DavWorld
    /\ UNCHANGED <<terminalVars, mountVars, command>>

TerminalGoroutines ==
    Running /\ BesideMain /\ UNCHANGED <<davTreeVars, mountVars, command>>

World ==
    \/ (Signal \/ ConnectionDies) /\ Alone
    \/ Running /\ TerminalWorld /\ UNCHANGED <<davTreeVars, mountVars, command>>

Next == Main \/ ServeFails \/ Requests \/ TerminalGoroutines \/ World

Safety == Init /\ [][Next]_commandVars

Goroutine(step) == Running /\ step /\ UNCHANGED <<davTreeVars, mountVars, command>>

(* Goroutines run, and calls return (CallsReturn in IPCClient).            *)
Fairness ==
    /\ WF_commandVars(Main)
    /\ WF_commandVars(Goroutine(Stdin(Input)))
    /\ WF_commandVars(Goroutine(ExitHandler))
    /\ \A h \in Handlers : WF_commandVars(Goroutine(HandleOutput(h) \/ AckReturns(h)))

Spec == Safety /\ Fairness

-----------------------------------------------------------------------------
(* Properties                                                              *)

(* Only a signal makes RunSession shut its shell down.  It is left to the  *)
(* server where the set-up fails once it was created (session.go:57, 68,   *)
(* 74), before keys are read, and where a key cannot be sent or the input  *)
(* not be read (101, 107), which closes done.                              *)
Deserted == stdin = "none" \/ done

(* A command that returns, from wherever it does, leaves the local         *)
(* terminal as it was, no subscription, the connection closed, and, unless *)
(* a request for that failed, no watch at the server; and no shell either, *)
(* unless the request to end it failed or RunSession deserts it.           *)
NothingLeft ==
    at = "over" =>
        /\ ~raw /\ subs = {} /\ ~listening
        /\ conn \in {"none", "closed"}
        /\ watching => missed
        /\ pty \in {"created", "running"} => abandoned \/ Deserted

(* The command ends when it is signalled; a session also when its process  *)
(* has ended, if there was a connection to tell, and when a key finds no   *)
(* connection.                                                             *)
Ending ==
    \/ signal = "pending"
    \/ at = "bridge" /\ pty = "exited" /\ conn = "open"
    \/ stdin = "sending" /\ conn = "dead"

CommandEnds == Ending ~> ~Running
=============================================================================
