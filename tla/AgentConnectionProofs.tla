------------------------ MODULE AgentConnectionProofs ------------------------
(***************************************************************************)
(* Proofs about AgentConnection, for every number of attempts and of       *)
(* failures: the agent's belief fits its socket, it always has a next      *)
(* attempt, and it registers once per connection.                          *)
(***************************************************************************)
EXTENDS AgentConnection, TLAPS

\* Before the first attempt nothing has happened.
NothingBeforeStart ==
    phase = "starting" =>
        /\ ~connected /\ status = "Disconnected"
        /\ ~registrationComplete /\ ~ownerIdNeeded /\ ~heartbeatTimer

\* The status Connected is the time before the registration starts.
ConnectedIsFresh == status = "Connected" => pcInfosSent = 0

\* All of the invariant that is about the agent alone.
AgentInv ==
    /\ StatusFitsSocket
    /\ NeverStranded
    /\ RegistersOnce
    /\ NothingBeforeStart
    /\ ConnectedIsFresh

\* The server closes a connection when it refuses the agent.
RefusedClosed == \A i \in DOMAIN fromServer : fromServer[i] = "error" => ~serverOpen

IInv == TypeOK /\ AgentInv /\ RefusedClosed

\* The types of the agent's variables and of the server's.
AgentTypes ==
    /\ phase \in {"starting", "running", "exited"}
    /\ background \in BOOLEAN
    /\ retryTimer \in BOOLEAN
    /\ status \in {"Disconnected", "Connecting", "Connected", "Registering",
                   "WaitingOwnerID", "Ready", "Error"}
    /\ connected \in BOOLEAN
    /\ reconnectTimer \in BOOLEAN
    /\ reconnectAttempts \in 0 .. MaxReconnectAttempts + 1
    /\ heartbeatTimer \in BOOLEAN
    /\ registrationTimers \in Nat
    /\ registrationComplete \in BOOLEAN
    /\ ownerIdNeeded \in BOOLEAN
    /\ pcInfosSent \in Nat
    /\ declined \in BOOLEAN

ServerTypes ==
    /\ serverUp \in BOOLEAN
    /\ serverOpen \in BOOLEAN
    /\ toServer \in Seq({"PC_INFO", "OWNER_ID"})
    /\ fromServer \in Seq({"ready", "owner", "error"})
    /\ handler \in {"receiving", "storing", "responding"}
    /\ pendingRegistration \in {"none", "current", "old"}
    /\ verifying \in Nat
    /\ pcKnown \in BOOLEAN
    /\ failures \in 0 .. MaxFailures

-----------------------------------------------------------------------------
\* A queue that is not empty stays a queue when its head is taken.
LEMMA TailType ==
    ASSUME NEW S, NEW q \in Seq(S), q # <<>>
    PROVE  Tail(q) \in Seq(S)
OBVIOUS

\* A queue stays a queue when something is appended.
LEMMA AppendType ==
    ASSUME NEW S, NEW q \in Seq(S), NEW e \in S
    PROVE  Append(q, e) \in Seq(S)
OBVIOUS

\* The two groups are the type invariant.
LEMMA TypeGroups == TypeOK <=> AgentTypes /\ ServerTypes
BY DEF TypeOK, AgentTypes, ServerTypes

\* Steps of the server keep the agent's types.
LEMMA AgentTypesUnchanged ==
    ASSUME AgentTypes, UNCHANGED agentVars
    PROVE  AgentTypes'
BY DEF AgentTypes, agentVars, mainVars, timerVars, registrationVars, historyVars

\* The server and the network leave what the agent knows alone, and do not open a
\* connection.
LEMMA AgentInvUnchanged ==
    ASSUME AgentInv, UNCHANGED agentVars, serverOpen' => serverOpen
    PROVE  AgentInv'
BY DEF AgentInv, agentVars, mainVars, timerVars, registrationVars, historyVars,
       StatusFitsSocket, NeverStranded, RegistersOnce, NothingBeforeStart, ConnectedIsFresh

\* The invariant holds when the program starts.
LEMMA InitIInv == Init => IInv
<1> SUFFICES ASSUME Init PROVE IInv
  OBVIOUS
<1>1. TypeOK
  <2>1. /\ reconnectAttempts \in 0 .. MaxReconnectAttempts + 1 /\ registrationTimers \in Nat
        /\ pcInfosSent \in Nat /\ failures \in 0 .. MaxFailures /\ verifying \in Nat
    BY BoundsAssumption DEF Init
  <2>2. toServer \in Seq({"PC_INFO", "OWNER_ID"})
    BY DEF Init
  <2>3. fromServer \in Seq({"ready", "owner", "error"})
    BY DEF Init
  <2> QED  BY <2>1, <2>2, <2>3, Zenon DEF Init, TypeOK
<1>2. StatusFitsSocket /\ NeverStranded /\ RegistersOnce
  BY DEF Init, StatusFitsSocket, NeverStranded, RegistersOnce
<1>3. NothingBeforeStart /\ ConnectedIsFresh
  BY DEF Init, NothingBeforeStart, ConnectedIsFresh
<1>4. RefusedClosed
  BY DEF Init, RefusedClosed
<1> QED  BY <1>1, <1>2, <1>3, <1>4 DEF IInv, AgentInv

-----------------------------------------------------------------------------
\* An attempt to connect keeps the types, whoever makes it.
LEMMA ConnectType ==
    ASSUME TypeOK, NEW attempts \in 0 .. MaxReconnectAttempts + 1, NEW timer \in BOOLEAN,
           connectToServer(attempts, timer), phase' \in {"starting", "running", "exited"},
           background' \in BOOLEAN, retryTimer' \in BOOLEAN
    PROVE  TypeOK'
<1> USE BoundsAssumption DEF TypeOK, backendVars
<1>1. CASE AlreadyConnecting(timer) /\ reconnectAttempts' = attempts
  BY <1>1 DEF connectToServer, AlreadyConnecting, channelVars, historyVars
<1>2. CASE ConnectConnectedSocket /\ reconnectAttempts' = attempts
  BY <1>2 DEF connectToServer, ConnectConnectedSocket, channelVars, historyVars
<1>3. CASE ConnectSucceeds /\ reconnectAttempts' = 0
  <2>1. /\ reconnectAttempts' \in 0 .. MaxReconnectAttempts + 1
        /\ registrationTimers' \in Nat /\ pcInfosSent' \in Nat
    BY <1>3 DEF ConnectSucceeds
  <2>2. toServer' \in Seq({"PC_INFO", "OWNER_ID"})
    BY <1>3 DEF ConnectSucceeds
  <2>3. fromServer' \in Seq({"ready", "owner", "error"})
    BY <1>3 DEF ConnectSucceeds
  <2>4. UNCHANGED <<registrationComplete, ownerIdNeeded, serverUp, handler,
                    pendingRegistration, verifying, pcKnown, failures>>
    BY DEF connectToServer
  <2> QED  BY <1>3, <2>1, <2>2, <2>3, <2>4, Zenon DEF ConnectSucceeds
<1>4. CASE ConnectFails /\ reconnectAttempts' = attempts
  BY <1>4 DEF connectToServer, ConnectFails, channelVars, historyVars
<1> QED  BY <1>1, <1>2, <1>3, <1>4 DEF connectToServer

\* Every action of the agent and of its server keeps the types.
LEMMA NextType == TypeOK /\ [Next]_vars => TypeOK'
<1> SUFFICES ASSUME TypeOK, [Next]_vars PROVE TypeOK'
  OBVIOUS
<1> USE BoundsAssumption
<1> USE DEF channelVars, backendVars, historyVars, mainVars, timerVars, registrationVars
<1>1. CASE start
  BY <1>1, ConnectType DEF start, TypeOK
<1>2. CASE reconnectFromMain
  BY <1>2, ConnectType DEF reconnectFromMain, TypeOK
<1>3. CASE shutdown
  <2>1. AgentTypes'
    BY <1>3 DEF shutdown, AgentTypes, TypeOK
  <2>2. ServerTypes'
    BY <1>3 DEF shutdown, ServerTypes, TypeOK
  <2> QED  BY <2>1, <2>2 DEF TypeOK, AgentTypes, ServerTypes
<1>4. CASE onReconnectTimer
  <2>1. CASE reconnectAttempts < MaxReconnectAttempts /\ connectToServer(reconnectAttempts + 1, FALSE)
    <3>1. reconnectAttempts + 1 \in 0 .. MaxReconnectAttempts + 1
      BY <2>1 DEF TypeOK
    <3> QED  BY <1>4, <2>1, <3>1, ConnectType DEF onReconnectTimer, TypeOK
  <2>2. CASE /\ reconnectAttempts' = MaxReconnectAttempts + 1 /\ reconnectTimer' = FALSE
             /\ UNCHANGED <<status, connected, heartbeatTimer, registrationVars, serverVars,
                            historyVars>>
    <3>1. reconnectAttempts' \in 0 .. MaxReconnectAttempts + 1
      BY <2>2
    <3>2. AgentTypes'
      BY <1>4, <2>2, <3>1, Zenon DEF onReconnectTimer, AgentTypes, TypeOK
    <3>3. ServerTypes'
      BY <2>2 DEF ServerTypes, TypeOK, serverVars
    <3> QED  BY <3>2, <3>3 DEF TypeOK, AgentTypes, ServerTypes
  <2> QED  BY <1>4, <2>1, <2>2 DEF onReconnectTimer, TypeOK
<1>5. CASE connectionLost
  BY <1>5 DEF connectionLost, TypeOK, serverVars
<1>6. CASE onHeartbeatTimer
  <2>1. AgentTypes'
    BY <1>6 DEF onHeartbeatTimer, AgentTypes, TypeOK
  <2>2. ServerTypes'
    BY <1>6 DEF onHeartbeatTimer, ServerTypes, TypeOK, serverVars
  <2> QED  BY <2>1, <2>2 DEF TypeOK, AgentTypes, ServerTypes
<1>7. CASE startRegistration
  <2>1. toServer' \in Seq({"PC_INFO", "OWNER_ID"})
    BY <1>7, AppendType DEF startRegistration, sendBinaryMessage, TypeOK
  <2> QED  BY <1>7, <2>1 DEF startRegistration, TypeOK
<1>8. ASSUME NEW answer, Receive(answer) PROVE fromServer' \in Seq({"ready", "owner", "error"})
  BY <1>8, TailType DEF Receive, TypeOK
<1>9. CASE handleReady
  BY <1>8, <1>9 DEF handleReady, Receive, TypeOK
<1>10. ASSUME NEW entered \in BOOLEAN, handleOwnerNeeded(entered) PROVE TypeOK'
  <2>1. toServer' \in Seq({"PC_INFO", "OWNER_ID"})
    BY <1>10, AppendType DEF handleOwnerNeeded, sendBinaryMessage, TypeOK
  <2> QED  BY <1>8, <1>10, <2>1 DEF handleOwnerNeeded, Receive, TypeOK
<1>11. CASE handleRefused
  BY <1>8, <1>11 DEF handleRefused, Receive, TypeOK
<1>12. CASE handlePCInfoMessage
  <2>1. toServer' \in Seq({"PC_INFO", "OWNER_ID"})
    BY <1>12, TailType DEF handlePCInfoMessage, TypeOK
  <2>2. fromServer' \in Seq({"ready", "owner", "error"})
    BY <1>12, AppendType DEF handlePCInfoMessage, TypeOK
  <2> QED  BY <1>12, <2>1, <2>2 DEF handlePCInfoMessage, agentVars, TypeOK
<1>13. CASE storePendingRegistration
  BY <1>13 DEF storePendingRegistration, agentVars, TypeOK
<1>14. CASE sendPCInfoResponse
  <2>1. fromServer' \in Seq({"ready", "owner", "error"})
    BY <1>14, AppendType DEF sendPCInfoResponse, TypeOK
  <2> QED  BY <1>14, <2>1 DEF sendPCInfoResponse, agentVars, TypeOK
<1>15. CASE verifyOwner
  <2>1. toServer' \in Seq({"PC_INFO", "OWNER_ID"})
    BY <1>15, TailType DEF verifyOwner, TypeOK
  <2> QED  BY <1>15, <2>1 DEF verifyOwner, agentVars, TypeOK
<1>16. CASE onOwnerVerificationResult
  <2>1. verifying' \in Nat
    BY <1>16 DEF onOwnerVerificationResult, TypeOK
  <2>2. CASE VerificationDropped
    BY <1>16, <2>1, <2>2 DEF onOwnerVerificationResult, VerificationDropped, agentVars, TypeOK
  <2>3. CASE OwnerVerified
    <3>1. fromServer' \in Seq({"ready", "owner", "error"})
      BY <2>3, AppendType DEF OwnerVerified, TypeOK
    <3> QED  BY <1>16, <2>1, <2>3, <3>1 DEF onOwnerVerificationResult, OwnerVerified, agentVars, TypeOK
  <2>4. CASE OwnerRefused
    <3>0. pendingRegistration \in {"current", "old"} /\ failures' \in 0 .. MaxFailures
      BY <2>4 DEF OwnerRefused, TypeOK
    <3>1. fromServer' \in Seq({"ready", "owner", "error"})
      BY <2>4, <3>0, AppendType DEF OwnerRefused, TypeOK
    <3>2. serverOpen' \in BOOLEAN /\ handler' \in {"receiving", "storing", "responding"}
      BY <2>4, <3>0 DEF OwnerRefused, TypeOK
    <3> QED  BY <1>16, <2>1, <2>4, <3>0, <3>1, <3>2
             DEF onOwnerVerificationResult, OwnerRefused, agentVars, TypeOK
  <2> QED  BY <1>16, <2>2, <2>3, <2>4 DEF onOwnerVerificationResult
<1>17. ASSUME ConnectionBreaks, failures < MaxFailures
       PROVE  /\ failures' \in 0 .. MaxFailures /\ serverOpen' \in BOOLEAN
              /\ fromServer' \in Seq({"ready", "owner", "error"})
              /\ toServer' \in Seq({"PC_INFO", "OWNER_ID"})
              /\ handler' \in {"receiving", "storing", "responding"}
  <2>1. toServer' \in Seq({"PC_INFO", "OWNER_ID"})
    BY <1>17 DEF ConnectionBreaks
  <2>2. fromServer' \in Seq({"ready", "owner", "error"})
    <3>1. CASE fromServer' = <<>>
      BY <3>1
    <3>2. CASE fromServer' = fromServer
      BY <3>2 DEF TypeOK
    <3> QED  BY <1>17, <3>1, <3>2 DEF ConnectionBreaks
  <2>3. failures' \in 0 .. MaxFailures
    BY <1>17 DEF ConnectionBreaks, TypeOK
  <2> QED  BY <1>17, <2>1, <2>2, <2>3, Zenon DEF ConnectionBreaks
<1>18. CASE NetworkFails
  BY <1>17, <1>18 DEF NetworkFails, agentVars, TypeOK
<1>19. CASE ServerFails
  <2>1. AgentTypes'
    BY <1>19, TypeGroups, AgentTypesUnchanged DEF ServerFails
  <2>2. verifying' \in Nat
    BY <1>19 DEF ServerFails
  <2>3. ServerTypes'
    BY <1>17, <1>19, <2>2, Zenon DEF ServerFails, ServerTypes, TypeOK
  <2> QED  BY <2>1, <2>3 DEF TypeOK, AgentTypes, ServerTypes
<1>20. CASE ServerRecovers
  BY <1>20 DEF ServerRecovers, agentVars, TypeOK
<1>21. CASE UNCHANGED vars
  BY <1>21 DEF vars, serverVars, TypeOK
<1> QED
  BY <1>1, <1>2, <1>3, <1>4, <1>5, <1>6, <1>7, <1>9, <1>10, <1>11, <1>12, <1>13, <1>14,
     <1>15, <1>16, <1>18, <1>19, <1>20, <1>21 DEF Next, handlePCInfoResponse

-----------------------------------------------------------------------------
\* No step opens a connection and leaves a refusal in its stream.
LEMMA NextRefused == TypeOK /\ RefusedClosed /\ [Next]_vars => RefusedClosed'
<1> SUFFICES ASSUME TypeOK, RefusedClosed, [Next]_vars PROVE RefusedClosed'
  OBVIOUS
<1> DEFINE Answer == {"ready", "owner", "error"}
<1>0. fromServer \in Seq(Answer)
  BY DEF TypeOK
<1>1. ASSUME fromServer' = fromServer, serverOpen' => serverOpen PROVE RefusedClosed'
  BY <1>1 DEF RefusedClosed
<1>2. ASSUME fromServer' = <<>> PROVE RefusedClosed'
  BY <1>2 DEF RefusedClosed
<1>3. ASSUME NEW answer, Receive(answer), UNCHANGED serverOpen PROVE RefusedClosed'
  <2>1. \A i \in DOMAIN Tail(fromServer) :
           i + 1 \in DOMAIN fromServer /\ Tail(fromServer)[i] = fromServer[i + 1]
    BY <1>0, <1>3 DEF Receive
  <2> QED  BY <1>3, <2>1 DEF Receive, RefusedClosed
<1>4. ASSUME NEW e \in {"ready", "owner"}, fromServer' = Append(fromServer, e),
             serverOpen' => serverOpen
      PROVE  RefusedClosed'
  <2>1. \A i \in DOMAIN Append(fromServer, e) :
           \/ i \in DOMAIN fromServer /\ Append(fromServer, e)[i] = fromServer[i]
           \/ Append(fromServer, e)[i] = e
    BY <1>0
  <2>2. e # "error"
    OBVIOUS
  <2> QED  BY <1>4, <2>1, <2>2 DEF RefusedClosed
<1>5. ASSUME ~serverOpen' PROVE RefusedClosed'
  BY <1>5 DEF RefusedClosed
<1> USE DEF channelVars, serverVars
<1>6. ASSUME NEW attempts, NEW timer, connectToServer(attempts, timer) PROVE RefusedClosed'
  BY <1>1, <1>2, <1>6 DEF connectToServer, AlreadyConnecting, ConnectConnectedSocket,
     ConnectSucceeds, ConnectFails
<1>7. CASE start \/ reconnectFromMain \/ onReconnectTimer
  BY <1>1, <1>6, <1>7 DEF start, reconnectFromMain, onReconnectTimer
<1>8. CASE shutdown \/ NetworkFails \/ ServerFails
  BY <1>5, <1>8 DEF shutdown, NetworkFails, ServerFails, ConnectionBreaks
<1>9. CASE \/ connectionLost \/ onHeartbeatTimer \/ startRegistration
           \/ storePendingRegistration \/ verifyOwner \/ ServerRecovers
  BY <1>1, <1>9 DEF connectionLost, onHeartbeatTimer, startRegistration,
     storePendingRegistration, verifyOwner, ServerRecovers
<1>10. CASE handlePCInfoResponse
  BY <1>3, <1>10 DEF handlePCInfoResponse, handleReady, handleOwnerNeeded, handleRefused
<1>11. CASE handlePCInfoMessage \/ sendPCInfoResponse
  BY <1>1, <1>4, <1>11 DEF handlePCInfoMessage, sendPCInfoResponse
<1>12. CASE onOwnerVerificationResult
  <2>1. CASE VerificationDropped
    BY <1>1, <2>1 DEF VerificationDropped
  <2>2. CASE OwnerVerified
    BY <1>1, <1>4, <2>2 DEF OwnerVerified
  <2>3. CASE OwnerRefused
    <3>1. pendingRegistration \in {"current", "old"}
      BY <2>3 DEF OwnerRefused, TypeOK
    <3> QED  BY <1>1, <1>5, <2>3, <3>1 DEF OwnerRefused
  <2> QED  BY <1>12, <2>1, <2>2, <2>3 DEF onOwnerVerificationResult
<1>13. CASE UNCHANGED vars
  BY <1>1, <1>13 DEF vars
<1> QED  BY <1>7, <1>8, <1>9, <1>10, <1>11, <1>12, <1>13 DEF Next

-----------------------------------------------------------------------------
\* Every action keeps what the agent believes in accord with its socket.
LEMMA NextAgentInv == IInv /\ [Next]_vars => AgentInv'
<1> SUFFICES ASSUME TypeOK, AgentInv, RefusedClosed, [Next]_vars PROVE AgentInv'
  BY DEF IInv
<1> USE BoundsAssumption
<1> USE DEF TypeOK, AgentInv, StatusFitsSocket, NeverStranded, RegistersOnce,
            NothingBeforeStart, ConnectedIsFresh, isConnected
<1> USE DEF mainVars, timerVars, registrationVars, historyVars
<1>1. CASE start
  <2>1. connectToServer(reconnectAttempts, reconnectTimer) /\ phase = "starting"
    BY <1>1 DEF start
  <2>2. CASE ConnectSucceeds
    BY <1>1, <2>1, <2>2 DEF start, connectToServer, ConnectSucceeds
  <2>3. CASE ConnectFails
    BY <1>1, <2>1, <2>3 DEF start, connectToServer, ConnectFails
  <2> QED
    BY <2>1, <2>2, <2>3 DEF connectToServer, AlreadyConnecting, ConnectConnectedSocket
<1>2. CASE reconnectFromMain
  <2>1. /\ phase = "running" /\ UNCHANGED <<phase, background, retryTimer>> /\ retryTimer
        /\ UNCHANGED <<registrationComplete, ownerIdNeeded>>
    BY <1>2 DEF reconnectFromMain, connectToServer
  <2>2. CASE AlreadyConnecting(reconnectTimer)
    BY <1>2, <2>1, <2>2 DEF AlreadyConnecting
  <2>3. CASE ConnectConnectedSocket
    BY <1>2, <2>1, <2>3 DEF ConnectConnectedSocket
  <2>4. CASE ConnectSucceeds
    BY <1>2, <2>1, <2>4 DEF ConnectSucceeds
  <2>5. CASE ConnectFails
    BY <1>2, <2>1, <2>5 DEF ConnectFails
  <2> QED  BY <1>2, <2>2, <2>3, <2>4, <2>5 DEF reconnectFromMain, connectToServer
<1>3. CASE shutdown
  BY <1>3 DEF shutdown
<1>4. CASE onReconnectTimer
  <2>1. CASE reconnectAttempts >= MaxReconnectAttempts /\ reconnectAttempts' = MaxReconnectAttempts + 1
             /\ reconnectTimer' = FALSE
             /\ UNCHANGED <<status, connected, heartbeatTimer, registrationVars, serverVars, historyVars>>
    BY <1>4, <2>1 DEF onReconnectTimer
  <2>2. CASE connectToServer(reconnectAttempts + 1, FALSE)
    <3>1. /\ phase = "running" /\ reconnectTimer /\ UNCHANGED <<phase, background, retryTimer>>
          /\ UNCHANGED <<registrationComplete, ownerIdNeeded>>
      BY <1>4, <2>2 DEF onReconnectTimer, connectToServer
    <3>2. connected => retryTimer
      BY <3>1
    <3>3. CASE ConnectSucceeds
      BY <3>1, <3>3 DEF ConnectSucceeds
    <3>4. CASE ConnectFails
      BY <3>1, <3>2, <3>4 DEF ConnectFails
    <3>5. CASE AlreadyConnecting(FALSE)
      BY <3>1, <3>2, <3>5 DEF AlreadyConnecting
    <3>6. CASE ConnectConnectedSocket
      BY <3>1, <3>2, <3>6 DEF ConnectConnectedSocket
    <3> QED  BY <2>2, <3>3, <3>4, <3>5, <3>6 DEF connectToServer
  <2> QED  BY <1>4, <2>1, <2>2 DEF onReconnectTimer
<1>5. CASE connectionLost
  BY <1>5 DEF connectionLost
<1>6. CASE onHeartbeatTimer
  BY <1>6 DEF onHeartbeatTimer, serverVars, channelVars
<1>7. CASE startRegistration
  <2>1. /\ phase = "running"
        /\ UNCHANGED <<phase, background, retryTimer, connected, reconnectTimer,
                       reconnectAttempts, heartbeatTimer, registrationComplete, ownerIdNeeded,
                       serverOpen>>
    BY <1>7 DEF startRegistration
  <2>2. CASE UNCHANGED <<status, pcInfosSent>>
    BY <2>1, <2>2
  <2>3. CASE /\ isConnected /\ ~registrationComplete
             /\ status' = "Registering" /\ pcInfosSent' = pcInfosSent + 1
    <3>1. status = "Connected" /\ connected /\ pcInfosSent = 0
      BY <2>1, <2>3
    <3>2. pcInfosSent' = 1
      BY <2>3, <3>1
    <3> QED  BY <2>1, <2>3, <3>1, <3>2
  <2> QED  BY <1>7, <2>2, <2>3 DEF startRegistration
<1>8. CASE handleReady
  BY <1>8 DEF handleReady, Receive
<1>9. ASSUME NEW entered \in BOOLEAN, handleOwnerNeeded(entered) PROVE AgentInv'
  BY <1>9 DEF handleOwnerNeeded, Receive
<1>10. CASE handleRefused
  <2>1. ~serverOpen
    <3>1. 1 \in DOMAIN fromServer /\ fromServer[1] = "error"
      BY <1>10 DEF handleRefused, Receive
    <3> QED  BY <3>1 DEF RefusedClosed
  <2> QED  BY <1>10, <2>1 DEF handleRefused, Receive
<1>11. CASE handlePCInfoMessage \/ storePendingRegistration \/ sendPCInfoResponse
            \/ verifyOwner \/ onOwnerVerificationResult \/ NetworkFails \/ ServerFails
            \/ ServerRecovers
  <2>1. UNCHANGED agentVars
    BY <1>11 DEF handlePCInfoMessage, storePendingRegistration, sendPCInfoResponse, verifyOwner,
                 onOwnerVerificationResult, NetworkFails, ServerFails, ServerRecovers
  <2>2. serverOpen' => serverOpen
    <3>1. onOwnerVerificationResult => UNCHANGED serverOpen \/ ~serverOpen'
      BY DEF onOwnerVerificationResult, VerificationDropped, OwnerVerified, OwnerRefused, TypeOK
    <3> QED
      BY <1>11, <3>1 DEF handlePCInfoMessage, storePendingRegistration, sendPCInfoResponse,
         verifyOwner, NetworkFails, ServerFails, ConnectionBreaks, ServerRecovers, channelVars
  <2> QED  BY <2>1, <2>2, AgentInvUnchanged
<1>12. CASE UNCHANGED vars
  BY <1>12, AgentInvUnchanged DEF vars, agentVars, serverVars, channelVars
<1> QED
  BY <1>1, <1>2, <1>3, <1>4, <1>5, <1>6, <1>7, <1>8, <1>9, <1>10, <1>11, <1>12
     DEF Next, handlePCInfoResponse

-----------------------------------------------------------------------------
\* The invariant holds of every reachable state.
THEOREM AgentInvariant == Spec => []IInv
<1>1. IInv /\ [Next]_vars => IInv'
  BY NextType, NextAgentInv, NextRefused DEF IInv
<1> QED  BY InitIInv, <1>1, PTL DEF Spec

\* What the agent believes of its connection fits its socket.
THEOREM AgentFitsSocket == Spec => []StatusFitsSocket
BY AgentInvariant, PTL DEF IInv, AgentInv

\* No sequence of failures leaves the agent waiting for nothing.
THEOREM AgentNeverStranded == Spec => []NeverStranded
BY AgentInvariant, PTL DEF IInv, AgentInv

\* A connection carries at most one PC_INFO.
THEOREM AgentRegistersOnce == Spec => []RegistersOnce
BY AgentInvariant, PTL DEF IInv, AgentInv
=============================================================================
