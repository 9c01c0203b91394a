--------------------------- MODULE AgentConnection ---------------------------
(***************************************************************************)
(* The agent's connection to the server (clientnetworkmanager.cpp) and the *)
(* part of its main.cpp that drives it: the first connection, the two      *)
(* timers that reconnect, the registration and its owner id.               *)
(*                                                                         *)
(* Everything on the agent runs on one thread, so that a slot is one       *)
(* action, with what Qt does inside it: waitForConnected blocks until the  *)
(* socket is connected or an error was signalled, and a connection that is *)
(* lost signals errorOccurred and then disconnected.  Messages are whole   *)
(* (MessageFraming models how they are cut out of the stream).  Tasks are  *)
(* left to TaskReports, and a heartbeat that is sent changes nothing.      *)
(***************************************************************************)
EXTENDS Naturals, Sequences

CONSTANTS
    MaxReconnectAttempts,   \* five in the code
    MaxFailures             \* bound on what the server may do to the agent:
                            \* failures, restarts and refusals

ASSUME BoundsAssumption == MaxReconnectAttempts \in Nat /\ MaxFailures \in Nat

VARIABLES
    \* main.cpp
    phase,                  \* "starting", "running" or "exited"
    background,             \* the agent was started with --background
    retryTimer,             \* main's timer of ten seconds
    \* ClientNetworkManager
    status,
    connected,              \* socket_ is in ConnectedState
    reconnectTimer,
    reconnectAttempts,
    heartbeatTimer,
    registrationTimers,     \* single shots of startRegistration to come
    registrationComplete,
    ownerIdNeeded,
    \* the server and the network
    serverUp,               \* the server accepts connections
    serverOpen,             \* its end of the connection is open
    toServer,
    fromServer,
    handler,                \* its thread: "receiving", "storing" or "responding"
    pendingRegistration,    \* pendingRegistrations_[pcId]: "none", the "current"
                            \* connection or an "old" one
    verifying,              \* verifications under way, of any connection
    pcKnown,                \* the PC is in client_info
    failures,
    \* history
    pcInfosSent,            \* PC_INFO messages without owner, this connection
    declined                \* the user gave no owner id, this connection

mainVars == <<phase, background, retryTimer>>
timerVars == <<reconnectTimer, reconnectAttempts, heartbeatTimer>>
registrationVars == <<registrationTimers, registrationComplete, ownerIdNeeded>>
channelVars == <<serverOpen, toServer, fromServer>>
backendVars == <<pendingRegistration, verifying, pcKnown>>
serverVars == <<serverUp, channelVars, handler, backendVars, failures>>
historyVars == <<pcInfosSent, declined>>
vars == <<mainVars, status, connected, timerVars, registrationVars, serverVars,
          historyVars>>

TypeOK ==
    /\ phase \in {"starting", "running", "exited"}
    /\ background \in BOOLEAN
    /\ retryTimer \in BOOLEAN
    /\ status \in {"Disconnected", "Connecting", "Connected", "Registering",
                   "WaitingOwnerID", "Ready", "Error"}
    /\ connected \in BOOLEAN
    /\ reconnectTimer \in BOOLEAN
    /\ reconnectAttempts \in 0 .. MaxReconnectAttempts + 1
    /\ heartbeatTimer \in BOOLEAN
    /\ registrationTimers \in Nat
    /\ registrationComplete \in BOOLEAN
    /\ ownerIdNeeded \in BOOLEAN
    /\ serverUp \in BOOLEAN
    /\ serverOpen \in BOOLEAN
    /\ toServer \in Seq({"PC_INFO", "OWNER_ID"})
    /\ fromServer \in Seq({"ready", "owner", "error"})
    /\ handler \in {"receiving", "storing", "responding"}
    /\ pendingRegistration \in {"none", "current", "old"}
    /\ verifying \in Nat
    /\ pcKnown \in BOOLEAN
    /\ failures \in 0 .. MaxFailures
    /\ pcInfosSent \in Nat
    /\ declined \in BOOLEAN

Init ==
    /\ phase = "starting"
    /\ background \in BOOLEAN
    /\ retryTimer = FALSE
    /\ status = "Disconnected"
    /\ connected = FALSE
    /\ reconnectTimer = FALSE
    /\ reconnectAttempts = 0
    /\ heartbeatTimer = FALSE
    /\ registrationTimers = 0
    /\ registrationComplete = FALSE
    /\ ownerIdNeeded = FALSE
    /\ serverUp \in BOOLEAN
    /\ serverOpen = FALSE
    /\ toServer = <<>>
    /\ fromServer = <<>>
    /\ handler = "receiving"
    /\ pendingRegistration = "none"
    /\ verifying = 0
    /\ pcKnown \in BOOLEAN
    /\ failures = 0
    /\ pcInfosSent = 0
    /\ declined = FALSE

-----------------------------------------------------------------------------
isConnected == status \in {"Connected", "Ready"}

\* toServer: what is written on a connection the server has closed is lost.
sendBinaryMessage(message) ==
    toServer' = IF serverOpen THEN Append(toServer, message) ELSE toServer

-----------------------------------------------------------------------------
(***************************************************************************)
(* connectToServer: its early return, the attempt, and the call on a       *)
(* socket that is connected already.  The caller has left the attempts and *)
(* the reconnect timer as attempts and timer say.                          *)
(***************************************************************************)

AlreadyConnecting(timer) ==
    /\ status \in {"Connected", "Connecting"}
    /\ reconnectTimer' = timer
    /\ UNCHANGED <<status, connected, heartbeatTimer,
                   registrationTimers, channelVars, historyVars>>

\* Qt refuses the call with errorOccurred(OperationError): onError sets the status
\* and starts the reconnect timer, although the connection is as good as before.
\* waitForConnected then finds the socket connected.
ConnectConnectedSocket ==
    /\ status \notin {"Connected", "Connecting"}
    /\ connected
    /\ status' = "Error"
    /\ reconnectTimer' = TRUE
    /\ UNCHANGED <<connected, heartbeatTimer, registrationTimers, channelVars,
                   historyVars>>

\* onConnected; resetConnectionState also sets the attempts to zero.
ConnectSucceeds ==
    /\ status \notin {"Connected", "Connecting"}
    /\ ~connected
    /\ serverUp
    /\ status' = "Connected"
    /\ connected' = TRUE
    /\ reconnectTimer' = FALSE
    /\ heartbeatTimer' = TRUE
    /\ registrationTimers' = registrationTimers + 1
    /\ serverOpen' = TRUE
    /\ toServer' = <<>>
    /\ fromServer' = <<>>
    /\ pcInfosSent' = 0
    /\ declined' = FALSE

\* Mutant: a failed attempt leaves the next one to nobody.
ConnectFailsQuietly ==
    /\ status \notin {"Connected", "Connecting"}
    /\ ~connected
    /\ ~serverUp
    /\ status' = "Error"
    /\ reconnectTimer' = FALSE
    /\ UNCHANGED <<connected, heartbeatTimer, registrationTimers, channelVars,
                   historyVars>>

\* onError, which restarts the reconnect timer.
ConnectFails ==
    /\ status \notin {"Connected", "Connecting"}
    /\ ~connected
    /\ ~serverUp
    /\ status' = "Error"
    /\ reconnectTimer' = TRUE
    /\ UNCHANGED <<connected, heartbeatTimer, registrationTimers, channelVars,
                   historyVars>>

connectToServer(attempts, timer) ==
    /\ \/ AlreadyConnecting(timer) /\ reconnectAttempts' = attempts
       \/ ConnectConnectedSocket /\ reconnectAttempts' = attempts
       \/ ConnectSucceeds /\ reconnectAttempts' = 0
       \/ ConnectFails /\ reconnectAttempts' = attempts
    /\ UNCHANGED <<registrationComplete, ownerIdNeeded, serverUp, handler, backendVars,
                   failures>>

-----------------------------------------------------------------------------
(***************************************************************************)
(* main.cpp                                                                *)
(***************************************************************************)

\* The first connection.  When it fails, a background agent goes on with a
\* timer of its own and a console agent exits.
start ==
    /\ phase = "starting"
    /\ connectToServer(reconnectAttempts, reconnectTimer)
    /\ IF connected' THEN phase' = "running" /\ UNCHANGED retryTimer
       ELSE /\ phase' = IF background THEN "running" ELSE "exited"
            /\ retryTimer' = background
    /\ UNCHANGED background

\* Main's timer fires.
reconnectFromMain ==
    /\ phase = "running"
    /\ retryTimer
    /\ ~isConnected
    /\ connectToServer(reconnectAttempts, reconnectTimer)
    /\ UNCHANGED mainVars

\* Ctrl+C: disconnectFromServer, and the event loop ends.
shutdown ==
    /\ phase = "running"
    /\ phase' = "exited"
    /\ connected' = FALSE
    /\ serverOpen' = FALSE
    /\ UNCHANGED <<background, retryTimer, status, timerVars, registrationVars,
                   serverUp, toServer, fromServer, handler, backendVars, failures,
                   historyVars>>

-----------------------------------------------------------------------------
(***************************************************************************)
(* Slots of ClientNetworkManager                                           *)
(***************************************************************************)

\* The single-shot timer fires.  (Attempts beyond the limit are counted as one;
\* main's timer may start this one again.)
onReconnectTimer ==
    /\ phase = "running"
    /\ reconnectTimer
    /\ \/ /\ reconnectAttempts >= MaxReconnectAttempts
          /\ reconnectAttempts' = MaxReconnectAttempts + 1
          /\ reconnectTimer' = FALSE
          /\ UNCHANGED <<status, connected, heartbeatTimer, registrationVars,
                         serverVars, historyVars>>
       \/ /\ reconnectAttempts < MaxReconnectAttempts
          /\ connectToServer(reconnectAttempts + 1, FALSE)
    /\ UNCHANGED mainVars

\* Mutant: what the agent knows of its registration outlives the connection.
connectionLostKeepsRegistration ==
    /\ phase = "running"
    /\ connected
    /\ ~serverOpen
    /\ connected' = FALSE
    /\ status' = "Disconnected"
    /\ heartbeatTimer' = FALSE
    /\ reconnectTimer' = TRUE
    /\ UNCHANGED <<mainVars, reconnectAttempts, registrationVars, serverVars,
                   historyVars>>

\* onError, onDisconnected.  Data that has arrived may be read before.
connectionLost ==
    /\ phase = "running"
    /\ connected
    /\ ~serverOpen
    /\ connected' = FALSE
    /\ status' = "Disconnected"
    /\ heartbeatTimer' = FALSE
    /\ registrationComplete' = FALSE
    /\ ownerIdNeeded' = FALSE
    /\ reconnectTimer' = TRUE
    /\ UNCHANGED <<mainVars, reconnectAttempts, registrationTimers, serverVars,
                   historyVars>>

\* The heartbeat timer stops for good when it fires during a registration.
onHeartbeatTimer ==
    /\ phase = "running"
    /\ heartbeatTimer
    /\ ~isConnected
    /\ heartbeatTimer' = FALSE
    /\ UNCHANGED <<mainVars, status, connected, reconnectTimer, reconnectAttempts,
                   registrationVars, serverVars, historyVars>>

\* Mutant: the guard looks at the socket, not at the status.
startRegistrationOnSocket ==
    /\ phase = "running"
    /\ registrationTimers > 0
    /\ registrationTimers' = registrationTimers - 1
    /\ IF connected /\ ~registrationComplete
       THEN /\ status' = "Registering"
            /\ sendBinaryMessage("PC_INFO")
            /\ pcInfosSent' = pcInfosSent + 1
       ELSE UNCHANGED <<status, toServer, pcInfosSent>>
    /\ UNCHANGED <<mainVars, connected, timerVars, registrationComplete, ownerIdNeeded,
                   serverUp, serverOpen, fromServer, handler, backendVars, failures,
                   declined>>

\* A single shot of onConnected, of this connection or an earlier one.
startRegistration ==
    /\ phase = "running"
    /\ registrationTimers > 0
    /\ registrationTimers' = registrationTimers - 1
    /\ IF isConnected /\ ~registrationComplete
       THEN /\ status' = "Registering"
            /\ sendBinaryMessage("PC_INFO")
            /\ pcInfosSent' = pcInfosSent + 1
       ELSE UNCHANGED <<status, toServer, pcInfosSent>>
    /\ UNCHANGED <<mainVars, connected, timerVars, registrationComplete, ownerIdNeeded,
                   serverUp, serverOpen, fromServer, handler, backendVars, failures,
                   declined>>

Receive(answer) ==
    /\ phase = "running"
    /\ connected
    /\ fromServer # <<>>
    /\ Head(fromServer) = answer
    /\ fromServer' = Tail(fromServer)

handleReady ==
    /\ Receive("ready")
    /\ registrationComplete' = TRUE
    /\ status' = "Ready"
    /\ UNCHANGED <<mainVars, connected, timerVars, registrationTimers, ownerIdNeeded,
                   serverUp, serverOpen, toServer, handler, backendVars, failures,
                   historyVars>>

\* ownerIdRequired asks the user within the handler.  The user enters an
\* owner id, which is submitted, or nothing, and is not asked again.
handleOwnerNeeded(entered) ==
    /\ Receive("owner")
    /\ ownerIdNeeded' = TRUE
    /\ status' = "WaitingOwnerID"
    /\ IF entered THEN sendBinaryMessage("OWNER_ID") ELSE UNCHANGED toServer
    /\ declined' = ~entered
    /\ UNCHANGED <<mainVars, connected, timerVars, registrationTimers,
                   registrationComplete, serverUp, serverOpen, handler, backendVars,
                   failures, pcInfosSent>>

handleRefused ==
    /\ Receive("error")
    /\ status' = "Error"
    /\ UNCHANGED <<mainVars, connected, timerVars, registrationVars, serverUp,
                   serverOpen, toServer, handler, backendVars, failures, historyVars>>

-----------------------------------------------------------------------------
(***************************************************************************)
(* The server and the network (ClientRegistry has the details)             *)
(***************************************************************************)

agentVars == <<mainVars, status, connected, timerVars, registrationVars, historyVars>>

\* handlePCInfoMessage, the connection's thread: a PC_INFO of a known PC is
\* answered; of another one, its socket is stored and then the owner asked for.
handlePCInfoMessage ==
    /\ serverOpen
    /\ handler = "receiving"
    /\ toServer # <<>>
    /\ Head(toServer) = "PC_INFO"
    /\ toServer' = Tail(toServer)
    /\ IF pcKnown THEN fromServer' = Append(fromServer, "ready") /\ UNCHANGED handler
       ELSE handler' = "storing" /\ UNCHANGED fromServer
    /\ UNCHANGED <<agentVars, serverUp, serverOpen, backendVars, failures>>

storePendingRegistration ==
    /\ handler = "storing"
    /\ handler' = "responding"
    /\ pendingRegistration' = "current"
    /\ UNCHANGED <<agentVars, serverUp, channelVars, verifying, pcKnown, failures>>

sendPCInfoResponse ==
    /\ handler = "responding"
    /\ handler' = "receiving"
    /\ fromServer' = Append(fromServer, "owner")
    /\ UNCHANGED <<agentVars, serverUp, serverOpen, toServer, backendVars, failures>>

\* With an owner id it goes to the backend, for a known PC too.
verifyOwner ==
    /\ serverOpen
    /\ handler = "receiving"
    /\ toServer # <<>>
    /\ Head(toServer) = "OWNER_ID"
    /\ toServer' = Tail(toServer)
    /\ verifying' = verifying + 1
    /\ UNCHANGED <<agentVars, serverUp, serverOpen, fromServer, handler,
                   pendingRegistration, pcKnown, failures>>

\* The result of a verification, perhaps of an earlier connection, goes to the
\* socket stored for the PC; without one it is dropped.
VerificationDropped ==
    /\ pendingRegistration = "none"
    /\ UNCHANGED <<serverOpen, fromServer, handler, pendingRegistration, pcKnown, failures>>

\* Mutant: the PC is registered and its agent not told.
OwnerVerifiedSilently ==
    /\ pendingRegistration # "none"
    /\ pendingRegistration' = "none"
    /\ pcKnown' = TRUE
    /\ UNCHANGED <<fromServer, serverOpen, handler, failures>>

OwnerVerified ==
    /\ pendingRegistration # "none"
    /\ pendingRegistration' = "none"
    /\ pcKnown' = TRUE
    /\ fromServer' = IF pendingRegistration = "current" THEN Append(fromServer, "ready")
                                                         ELSE fromServer
    /\ UNCHANGED <<serverOpen, handler, failures>>

OwnerRefused ==
    /\ failures < MaxFailures
    /\ pendingRegistration # "none"
    /\ pendingRegistration' = "none"
    /\ failures' = failures + 1
    /\ pendingRegistration = "current" =>
          /\ fromServer' = Append(fromServer, "error")
          /\ serverOpen' = FALSE
          /\ handler' = "receiving"
    /\ pendingRegistration = "old" => UNCHANGED <<fromServer, serverOpen, handler>>
    /\ UNCHANGED pcKnown

onOwnerVerificationResult ==
    /\ verifying > 0
    /\ verifying' = verifying - 1
    /\ VerificationDropped \/ OwnerVerified \/ OwnerRefused
    /\ UNCHANGED <<agentVars, serverUp, toServer>>

\* The connection is lost, and what was under way on it; what its thread had
\* begun is done before or not at all.  The answers may have arrived before.
ConnectionBreaks ==
    /\ failures' = failures + 1
    /\ serverOpen' = FALSE
    /\ fromServer' \in {<<>>, fromServer}
    /\ toServer' = <<>>
    /\ handler' = "receiving"

\* cleanupClient leaves pendingRegistrations_ as it is.
NetworkFails ==
    /\ failures < MaxFailures
    /\ serverOpen
    /\ ConnectionBreaks
    /\ pendingRegistration' = IF pendingRegistration = "current" THEN "old"
                                                                 ELSE pendingRegistration
    /\ UNCHANGED <<agentVars, serverUp, verifying, pcKnown>>

ServerFails ==
    /\ failures < MaxFailures
    /\ serverUp
    /\ serverUp' = FALSE
    /\ ConnectionBreaks
    /\ pendingRegistration' = "none"
    /\ verifying' = 0
    /\ UNCHANGED <<agentVars, pcKnown>>

ServerRecovers ==
    /\ ~serverUp
    /\ serverUp' = TRUE
    /\ UNCHANGED <<agentVars, channelVars, handler, backendVars, failures>>

-----------------------------------------------------------------------------
handlePCInfoResponse ==
    \/ handleReady
    \/ \E entered \in BOOLEAN : handleOwnerNeeded(entered)
    \/ handleRefused

Next ==
    \/ start
    \/ reconnectFromMain
    \/ shutdown
    \/ onReconnectTimer
    \/ connectionLost
    \/ onHeartbeatTimer
    \/ startRegistration
    \/ handlePCInfoResponse
    \/ handlePCInfoMessage
    \/ storePendingRegistration
    \/ sendPCInfoResponse
    \/ verifyOwner
    \/ onOwnerVerificationResult
    \/ NetworkFails
    \/ ServerFails
    \/ ServerRecovers

Spec == Init /\ [][Next]_vars

\* Qt delivers timers and socket events, and the server answers and comes
\* back.  Nobody has to press Ctrl+C and the server need not fail.
Fairness ==
    /\ WF_vars(start)
    /\ WF_vars(reconnectFromMain)
    /\ WF_vars(onReconnectTimer)
    /\ WF_vars(connectionLost)
    /\ WF_vars(startRegistration)
    /\ WF_vars(handlePCInfoResponse)
    /\ WF_vars(handlePCInfoMessage)
    /\ WF_vars(storePendingRegistration)
    /\ WF_vars(sendPCInfoResponse)
    /\ WF_vars(verifyOwner)
    /\ WF_vars(onOwnerVerificationResult)
    /\ WF_vars(ServerRecovers)

FairSpec == Spec /\ Fairness

-----------------------------------------------------------------------------
(***************************************************************************)
(* Properties                                                              *)
(***************************************************************************)

\* What the agent believes fits its socket, whichever timer, answer or loss
\* came last: without a connection it is neither registered nor waiting for
\* anything but the next attempt.  With one it does not reconnect, and is not in
\* Error before the server has refused it and closed: unless main's timer runs,
\* which calls connectToServer on a live connection.
StatusFitsSocket ==
    phase = "running" =>
        /\ ~connected => /\ status \in {"Disconnected", "Error"}
                         /\ ~registrationComplete /\ ~ownerIdNeeded /\ ~heartbeatTimer
        /\ connected /\ reconnectTimer => retryTimer
        /\ connected /\ status = "Error" => retryTimer \/ ~serverOpen
        /\ status = "Ready" => registrationComplete
        /\ registrationComplete => status \notin {"Connected", "Registering"}

\* An agent without a connection has a timer that tries again, or has used up
\* its attempts: no sequence of failures leaves it waiting for nothing.
NeverStranded ==
    phase = "running" /\ ~connected =>
        reconnectTimer \/ retryTimer \/ reconnectAttempts > MaxReconnectAttempts

\* A connection carries at most one PC_INFO, although single shots of earlier
\* connections may still be under way when it is made.
RegistersOnce == pcInfosSent <= 1

\* Once failures cease an agent that runs is registered for good, unless it has
\* used up its attempts, its user did not give an owner id, or it exits.  It is also
\* ready for tasks, with two exceptions: the answer to a verification of an earlier
\* connection may be followed by the request for an owner id that nobody answers any
\* more; and main's timer, with the reconnect timer that its call on a live
\* connection starts, keeps knocking the agent out of Ready.
RegistersInTheEnd ==
    <>[](\/ registrationComplete /\ (status \in {"Ready", "WaitingOwnerID"} \/ retryTimer)
         \/ declined
         \/ ~retryTimer /\ reconnectAttempts > MaxReconnectAttempts
         \/ phase = "exited")

=============================================================================
