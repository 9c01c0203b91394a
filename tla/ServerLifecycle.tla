---------------------------- MODULE ServerLifecycle ----------------------------
(***************************************************************************)
(* How the server starts, serves and stops: main and ForensicServer on the *)
(* main thread, NetworkManager's accept thread and its client threads.     *)
(* The HTTP API is in HttpApiHandler; ForensicServer composes the two.     *)
(*                                                                         *)
(* A connection is made once; the agent of a PC that comes back makes      *)
(* another one.                                                            *)
(***************************************************************************)

CONSTANT Connection

VARIABLES
    mainAt,             \* what the main thread does next
    currentState,
    quitHandler,        \* signalHandler is installed
    quitRequested,      \* the event loop was told to end
    databaseConnected,
    isRunning,          \* NetworkManager's flag
    serverSocket,
    httpRunning,
    acceptThread,
    accepted,           \* the connection that accept returned, without a thread yet
    clientThread,
    agent

lifecycleVars == <<mainAt, currentState, quitHandler, quitRequested, databaseConnected,
                   isRunning, serverSocket, httpRunning, acceptThread, accepted,
                   clientThread, agent>>

StartSteps == {"connect", "init", "listen", "http", "ready"}
StopSteps == {"stopHttp", "stopRunning", "closeSocket", "joinAccept", "joinClients",
              "disconnect"}

LifecycleTypeOK ==
    /\ mainAt \in StartSteps \cup StopSteps \cup {"exec", "destroy", "ended", "killed"}
    /\ currentState \in {"STARTING", "RUNNING", "STOPPING", "STOPPED", "ERROR"}
    /\ quitHandler \in BOOLEAN
    /\ quitRequested \in BOOLEAN
    /\ databaseConnected \in BOOLEAN
    /\ isRunning \in BOOLEAN
    /\ serverSocket \in {"none", "bound", "listening"}
    /\ httpRunning \in BOOLEAN
    /\ acceptThread \in {"none", "check", "accept", "emplace", "ended"}
    /\ accepted \in SUBSET Connection
    /\ accepted # {} <=> acceptThread = "emplace"
    /\ clientThread \in
           [Connection -> {"none", "check", "recv", "handle", "cleanup", "ended"}]
    /\ agent \in [Connection -> {"away", "connected", "gone"}]

\* main has read its configuration, made the server and called start.
LifecycleInit ==
    /\ mainAt = "connect"
    /\ currentState = "STARTING"
    /\ quitHandler = TRUE
    /\ quitRequested = FALSE
    /\ databaseConnected = FALSE
    /\ isRunning = FALSE
    /\ serverSocket = "none"
    /\ httpRunning = FALSE
    /\ acceptThread = "none"
    /\ accepted = {}
    /\ clientThread = [c \in Connection |-> "none"]
    /\ agent = [c \in Connection |-> "away"]

threadVars == <<acceptThread, accepted, clientThread, agent>>
serverVars == <<currentState, quitHandler, quitRequested, databaseConnected, isRunning,
                serverSocket, httpRunning>>

InLoop == mainAt = "exec"

\* The process has not been terminated.
Alive == mainAt # "killed"

-----------------------------------------------------------------------------
(***************************************************************************)
(* start, on the main thread.  A failure undoes nothing: main returns, and *)
(* the destructors run.                                                    *)
(***************************************************************************)

startFails ==
    /\ currentState' = "ERROR"
    /\ mainAt' = "destroy"

connectDatabase ==
    /\ mainAt = "connect"
    /\ \/ /\ databaseConnected' = TRUE
          /\ mainAt' = "init"
          /\ UNCHANGED currentState
       \/ startFails /\ UNCHANGED databaseConnected
    /\ UNCHANGED <<quitHandler, quitRequested, isRunning, serverSocket, httpRunning, threadVars>>

NetworkManagerInit ==
    /\ mainAt = "init"
    /\ \/ /\ serverSocket' = "bound"
          /\ mainAt' = "listen"
          /\ UNCHANGED currentState
       \/ startFails /\ UNCHANGED serverSocket
    /\ UNCHANGED <<quitHandler, quitRequested, databaseConnected, isRunning, httpRunning,
                   threadVars>>

NetworkManagerStart ==
    /\ mainAt = "listen"
    /\ \/ /\ serverSocket' = "listening"
          /\ isRunning' = TRUE
          /\ acceptThread' = "check"
          /\ mainAt' = "http"
          /\ UNCHANGED currentState
       \/ startFails /\ UNCHANGED <<serverSocket, isRunning, acceptThread>>
    /\ UNCHANGED <<quitHandler, quitRequested, databaseConnected, httpRunning, accepted,
                   clientThread, agent>>

\* The result of the HTTP server's start is ignored.
startServer ==
    /\ mainAt = "http"
    /\ httpRunning' \in BOOLEAN
    /\ currentState' = "RUNNING"
    /\ mainAt' = "ready"
    /\ UNCHANGED <<quitHandler, quitRequested, databaseConnected, isRunning, serverSocket,
                   threadVars>>

enterLoop ==
    /\ mainAt = "ready"
    /\ mainAt' = "exec"
    /\ UNCHANGED <<serverVars, threadVars>>

-----------------------------------------------------------------------------
(***************************************************************************)
(* Ctrl+C.  Windows takes the handler away when it calls it, so a second   *)
(* signal terminates the process.  quit reaches only a loop that runs.     *)
(***************************************************************************)

signalHandler ==
    /\ mainAt \notin {"ended", "killed"}
    /\ quitHandler
    /\ quitHandler' = FALSE
    /\ quitRequested' = InLoop
    /\ UNCHANGED <<mainAt, currentState, databaseConnected, isRunning, serverSocket,
                   httpRunning, threadVars>>

terminate ==
    /\ mainAt \notin {"ended", "killed"}
    /\ ~quitHandler
    /\ mainAt' = "killed"
    /\ UNCHANGED <<serverVars, threadVars>>

leaveLoop ==
    /\ InLoop
    /\ quitRequested
    /\ mainAt' = "stopHttp"
    /\ UNCHANGED <<serverVars, threadVars>>

-----------------------------------------------------------------------------
(***************************************************************************)
(* stop, on the main thread, and the destructors                           *)
(***************************************************************************)

stopHttpServer ==
    /\ mainAt = "stopHttp"
    /\ currentState' = "STOPPING"
    /\ httpRunning' = FALSE
    /\ mainAt' = "stopRunning"
    /\ UNCHANGED <<quitHandler, quitRequested, databaseConnected, isRunning, serverSocket,
                   threadVars>>

stopRunning ==
    /\ mainAt = "stopRunning"
    /\ isRunning' = FALSE
    /\ mainAt' = "closeSocket"
    /\ UNCHANGED <<currentState, quitHandler, quitRequested, databaseConnected, serverSocket,
                   httpRunning, threadVars>>

closeSocket ==
    /\ mainAt = "closeSocket"
    /\ serverSocket' = "none"
    /\ mainAt' = "joinAccept"
    /\ UNCHANGED <<currentState, quitHandler, quitRequested, databaseConnected, isRunning,
                   httpRunning, threadVars>>

\* Mutant: the accept thread is not waited for.
joinAcceptThreadNot ==
    /\ mainAt = "joinAccept"
    /\ mainAt' = "joinClients"
    /\ UNCHANGED <<serverVars, threadVars>>

joinAcceptThread ==
    /\ mainAt = "joinAccept"
    /\ acceptThread = "ended"
    /\ mainAt' = "joinClients"
    /\ UNCHANGED <<serverVars, threadVars>>

\* Mutant: the mutex is taken before the accept thread is joined.
ClientThreadsLockedEarly == mainAt \in {"joinAccept", "joinClients"}

\* The main thread holds clientThreadsMutex_.
ClientThreadsLocked == mainAt = "joinClients"

\* Mutant: the client threads are not waited for.
joinClientThreadsNot ==
    /\ mainAt = "joinClients"
    /\ mainAt' = "disconnect"
    /\ UNCHANGED <<serverVars, threadVars>>

joinClientThreads ==
    /\ mainAt = "joinClients"
    /\ \A c \in Connection : clientThread[c] \in {"none", "ended"}
    /\ mainAt' = "disconnect"
    /\ UNCHANGED <<serverVars, threadVars>>

disconnectDatabase ==
    /\ mainAt = "disconnect"
    /\ databaseConnected' = FALSE
    /\ currentState' = "STOPPED"
    /\ mainAt' = "destroy"
    /\ UNCHANGED <<quitHandler, quitRequested, isRunning, serverSocket, httpRunning, threadVars>>

\* ~ForensicServer finds nothing to stop: isRunning_ is false here.  The children
\* and the end of the process close what start left open.
destroyServer ==
    /\ mainAt = "destroy"
    /\ databaseConnected' = FALSE
    /\ serverSocket' = "none"
    /\ mainAt' = "ended"
    /\ UNCHANGED <<currentState, quitHandler, quitRequested, isRunning, httpRunning,
                   threadVars>>

-----------------------------------------------------------------------------
(***************************************************************************)
(* The accept thread                                                       *)
(***************************************************************************)

acceptCheck ==
    /\ Alive
    /\ acceptThread = "check"
    /\ acceptThread' = IF isRunning THEN "accept" ELSE "ended"
    /\ UNCHANGED <<mainAt, serverVars, accepted, clientThread, agent>>

acceptClient(c) ==
    /\ Alive
    /\ acceptThread = "accept"
    /\ serverSocket = "listening"
    /\ agent[c] # "away"
    /\ clientThread[c] = "none"
    /\ accepted' = {c}
    /\ acceptThread' = "emplace"
    /\ UNCHANGED <<mainAt, serverVars, clientThread, agent>>

acceptFails ==
    /\ Alive
    /\ acceptThread = "accept"
    /\ serverSocket = "none"
    /\ acceptThread' = "check"
    /\ UNCHANGED <<mainAt, serverVars, accepted, clientThread, agent>>

startClientThread ==
    /\ Alive
    /\ acceptThread = "emplace"
    /\ ~ClientThreadsLocked
    /\ clientThread' = [c \in Connection |->
                           IF c \in accepted THEN "check" ELSE clientThread[c]]
    /\ accepted' = {}
    /\ acceptThread' = "check"
    /\ UNCHANGED <<mainAt, serverVars, agent>>

-----------------------------------------------------------------------------
(***************************************************************************)
(* A client thread, and the agent at the other end                         *)
(***************************************************************************)

ThreadStep(c, from, to) ==
    /\ Alive
    /\ clientThread[c] = from
    /\ clientThread' = [clientThread EXCEPT ![c] = to]
    /\ UNCHANGED <<mainAt, serverVars, acceptThread, accepted, agent>>

clientCheck(c) == ThreadStep(c, "check", IF isRunning THEN "recv" ELSE "cleanup")

\* A heartbeat or data.
receiveMessage(c) == agent[c] = "connected" /\ ThreadStep(c, "recv", "handle")

receiveFails(c) == agent[c] = "gone" /\ ThreadStep(c, "recv", "cleanup")

handleMessage(c) == ThreadStep(c, "handle", "check")

cleanupClient(c) == ThreadStep(c, "cleanup", "ended")

agentConnects(c) ==
    /\ Alive
    /\ serverSocket = "listening"
    /\ agent[c] = "away"
    /\ agent' = [agent EXCEPT ![c] = "connected"]
    /\ UNCHANGED <<mainAt, serverVars, acceptThread, accepted, clientThread>>

agentHangsUp(c) ==
    /\ Alive
    /\ agent[c] = "connected"
    /\ agent' = [agent EXCEPT ![c] = "gone"]
    /\ UNCHANGED <<mainAt, serverVars, acceptThread, accepted, clientThread>>

-----------------------------------------------------------------------------
Startup == connectDatabase \/ NetworkManagerInit \/ NetworkManagerStart \/ startServer
           \/ enterLoop

Shutdown == stopRunning \/ closeSocket \/ joinAcceptThread \/ joinClientThreads
            \/ disconnectDatabase \/ destroyServer

Accepting == acceptCheck \/ (\E c \in Connection : acceptClient(c)) \/ acceptFails
             \/ startClientThread

Serving(c) == clientCheck(c) \/ receiveFails(c) \/ cleanupClient(c)

LifecycleNext ==
    \/ Startup
    \/ signalHandler
    \/ terminate
    \/ leaveLoop
    \/ stopHttpServer
    \/ Shutdown
    \/ Accepting
    \/ \E c \in Connection :
          Serving(c) \/ receiveMessage(c) \/ handleMessage(c) \/ agentConnects(c)
          \/ agentHangsUp(c)

LifecycleSpec == LifecycleInit /\ [][LifecycleNext]_lifecycleVars

-----------------------------------------------------------------------------
(***************************************************************************)
(* Properties                                                              *)
(***************************************************************************)

\* A server that says it runs has its database and listens for agents: start
\* reports RUNNING only when every part but the HTTP server has started.
RunningServes ==
    currentState = "RUNNING" =>
        databaseConnected /\ isRunning /\ serverSocket = "listening"

\* A thread that stores a module, or that counts the stored ones to fail a task,
\* finds the database connected, from the first connection to the last and while
\* stop runs: stop disconnects only after it has joined the threads.
ThreadsFindDatabase ==
    Alive => \A c \in Connection : clientThread[c] \in {"handle", "cleanup"} => databaseConnected

\* No thread outlives the objects it uses: when the destructors run, after a
\* stop or a failed start, the accept thread and all client threads have ended,
\* also that of a connection accepted in the last moment.
NoThreadOutlives ==
    mainAt \in {"destroy", "ended"} =>
        /\ acceptThread \in {"none", "ended"}
        /\ \A c \in Connection : clientThread[c] \in {"none", "ended"}

=============================================================================
