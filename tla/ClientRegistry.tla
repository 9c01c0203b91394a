--------------------------- MODULE ClientRegistry ---------------------------
(***************************************************************************)
(* The server's client registry: what NetworkManager.cpp of the server     *)
(* keeps about the agents' connections.                                    *)
(*                                                                         *)
(* An accept thread hands each accepted socket to a handleClient thread.   *)
(* The thread registers the PC behind the socket (PC_INFO), stores the     *)
(* forensic data it sends (DATA_PACKET) and cleans up after it.  The main  *)
(* thread answers owner verifications, hands out tasks for HTTP requests   *)
(* and reports failed tasks.  All of them share connectedClients_,         *)
(* socketToClientId_, pendingRegistrations_ and clientTaskIds_.            *)
(*                                                                         *)
(* A socket is an OS handle: once closed, the next accept may return the   *)
(* same value for a different connection.                                  *)
(***************************************************************************)
EXTENDS Naturals, Sequences, SequencesExt

CONSTANTS
    Pc,         \* PCs with an agent, by pc_id
    Conn,       \* connections the server accepts: one handleClient thread each
    Socket,     \* values of socket handles
    Request,    \* HTTP inspect requests
    Task,       \* task ids
    TaskOf,     \* the task id a request names; nothing keeps ids apart
    Module,     \* the required forensic modules (six in the code)
    KnownPc,    \* PCs whose row is in client_info when the server starts
    MaxInbox,   \* bound on the messages buffered on one connection
    NoPc, NoConn, NoSocket, NoRequest

ASSUME TaskOfAssumption == TaskOf \in [Request -> Task]
ASSUME KnownPcAssumption == KnownPc \subseteq Pc
ASSUME MaxInboxAssumption == MaxInbox \in Nat \ {0}
ASSUME NoneAssumption ==
    /\ NoPc \notin Pc
    /\ NoConn \notin Conn
    /\ NoSocket \notin Socket
    /\ NoRequest \notin Request

VARIABLES
    \* the operating system and the agents
    open,                   \* connection behind each handle
    peer,                   \* PC whose agent opened the connection
    inbox,                  \* bytes the agent has sent and no thread has read
    agentConn,              \* the connection an agent holds
    agentState,             \* how far an agent's registration has come
    agentTasks,             \* tasks an agent has received on its connection
    \* the handleClient threads
    thread,                 \* where a thread is
    sock,                   \* its clientSocket
    client,                 \* pcId of its local copy of ClientInfo
    pcInfo,                 \* pcId of the PC_INFO it is handling
    \* NetworkManager's shared state
    connectedClients,
    socketToClientId,
    pendingRegistrations,
    clientTaskIds,          \* TaskOf[clientTaskIds[p]] is the id the code keeps for p
    verifying,              \* verifyOwner calls posted or at the backend
    failQueued,             \* posted calls of notifyTaskFailureForMissingModules
    \* the database
    dbClients,              \* PCs with a row in client_info
    forensicRows,           \* rows of forensic_test
    \* history
    verified,               \* PCs the backend has ever approved
    sentTo,                 \* PC for which a request was accepted
    superseded,             \* requests whose id a later one overwrote
    failReported            \* failure notices sent to the backend, per request

agentVars == <<agentConn, agentState, agentTasks>>
threadVars == <<thread, sock, client, pcInfo>>
registryVars == <<connectedClients, socketToClientId>>
dbVars == <<dbClients, forensicRows>>
taskHistory == <<sentTo, superseded, failReported>>
vars == <<open, peer, inbox, agentVars, threadVars, registryVars,
          pendingRegistrations, clientTaskIds, verifying, failQueued,
          dbVars, verified, taskHistory>>

Entry == [pcId : Pc, socket : Socket]
Row == [pcId : Pc, taskId : Task, moduleType : Module]
PcInfo == [type : {"PC_INFO", "OWNER_ID"}, pcId : Pc]
Data == [type : {"DATA_PACKET"}, pcId : Pc, taskId : Task, moduleType : Module]

TypeOK ==
    /\ open \in [Socket -> Conn \cup {NoConn}]
    /\ peer \in [Conn -> Pc \cup {NoPc}]
    /\ inbox \in [Conn -> Seq(PcInfo \cup Data)]
    /\ agentConn \in [Pc -> Conn \cup {NoConn}]
    /\ agentState \in [Pc -> {"off", "connected", "registering", "owner",
                              "verifying", "ready", "error"}]
    /\ agentTasks \in [Pc -> SUBSET Task]
    /\ thread \in [Conn -> {"free", "recv", "known", "unknown", "reload",
                            "closing", "done"}]
    /\ sock \in [Conn -> Socket \cup {NoSocket}]
    /\ \A c \in Conn : sock[c] = NoSocket => thread[c] = "free"
    /\ client \in [Conn -> Pc \cup {NoPc}]
    /\ pcInfo \in [Conn -> Pc \cup {NoPc}]
    /\ \A c \in Conn : thread[c] \in {"known", "unknown"} => pcInfo[c] # NoPc
    /\ connectedClients \in Seq(Entry)
    /\ socketToClientId \in [Socket -> Pc \cup {NoPc}]
    /\ pendingRegistrations \in [Pc -> Socket \cup {NoSocket}]
    /\ clientTaskIds \in [Pc -> Request \cup {NoRequest}]
    /\ verifying \in [Pc -> Nat]
    /\ failQueued \in [Request -> Nat]
    /\ dbClients \in SUBSET Pc
    /\ forensicRows \in SUBSET Row
    /\ verified \in SUBSET Pc
    /\ sentTo \in [Request -> Pc \cup {NoPc}]
    /\ superseded \in SUBSET Request
    /\ failReported \in [Request -> Nat]

Init ==
    /\ open = [s \in Socket |-> NoConn]
    /\ peer = [c \in Conn |-> NoPc]
    /\ inbox = [c \in Conn |-> <<>>]
    /\ agentConn = [p \in Pc |-> NoConn]
    /\ agentState = [p \in Pc |-> "off"]
    /\ agentTasks = [p \in Pc |-> {}]
    /\ thread = [c \in Conn |-> "free"]
    /\ sock = [c \in Conn |-> NoSocket]
    /\ client = [c \in Conn |-> NoPc]
    /\ pcInfo = [c \in Conn |-> NoPc]
    /\ connectedClients = <<>>
    /\ socketToClientId = [s \in Socket |-> NoPc]
    /\ pendingRegistrations = [p \in Pc |-> NoSocket]
    /\ clientTaskIds = [p \in Pc |-> NoRequest]
    /\ verifying = [p \in Pc |-> 0]
    /\ failQueued = [r \in Request |-> 0]
    /\ dbClients = KnownPc
    /\ forensicRows = {}
    /\ verified = KnownPc
    /\ sentTo = [r \in Request |-> NoPc]
    /\ superseded = {}
    /\ failReported = [r \in Request |-> 0]

-----------------------------------------------------------------------------
(***************************************************************************)
(* Lookups                                                                 *)
(***************************************************************************)

\* The agent still holds connection k.
Live(k) == k # NoConn /\ peer[k] # NoPc /\ agentConn[peer[k]] = k

\* A PC is on the list of connected clients.
isClientConnected(p) == \E i \in DOMAIN connectedClients : connectedClients[i].pcId = p

\* The pcId of the first entry with socket s.
PcOnSocket(s) ==
    LET i == SelectInSeq(connectedClients, LAMBDA e : e.socket = s)
    IN  IF i = 0 THEN NoPc ELSE connectedClients[i].pcId

\* Modules of a task id that forensic_test does not hold yet, whichever PC
\* and request the rows come from.
getMissingModulesForTask(t) ==
    Module \ {r.moduleType : r \in {x \in forensicRows : x.taskId = t}}

-----------------------------------------------------------------------------
(***************************************************************************)
(* Pieces of handlers.  Each fixes the next value of the variables its     *)
(* comment names and nothing else.                                         *)
(***************************************************************************)

\* agentState: the agent behind handle s, if it is still there, enters
\* state st on the response it is sent.
sendPCInfoResponse(s, st) ==
    agentState' = IF Live(open[s]) THEN [agentState EXCEPT ![peer[open[s]]] = st]
                                   ELSE agentState

\* Mutant: a PC that connects again keeps its old entry.
updateConnectedClientsListAppends(s, p) ==
    /\ connectedClients' = Append(connectedClients, [pcId |-> p, socket |-> s])
    /\ socketToClientId' = [socketToClientId EXCEPT ![s] = p]

\* registryVars: one entry for p, at the end, with handle s.  The mapping
\* of the handle that p had before stays.
updateConnectedClientsList(s, p) ==
    /\ LET i == SelectInSeq(connectedClients, LAMBDA e : e.pcId = p)
           others == IF i = 0 THEN connectedClients ELSE RemoveAt(connectedClients, i)
       IN  connectedClients' = Append(others, [pcId |-> p, socket |-> s])
    /\ socketToClientId' = [socketToClientId EXCEPT ![s] = p]

\* Mutant: the list is left to the next registration of the PC.
RemoveEntryOfSocketNever(s) == UNCHANGED connectedClients

\* connectedClients: the last entry with handle s goes.
RemoveEntryOfSocket(s) ==
    LET i == SelectLastInSeq(connectedClients, LAMBDA e : e.socket = s)
    IN  connectedClients' = IF i = 0 THEN connectedClients
                                     ELSE RemoveAt(connectedClients, i)

\* failQueued: the failure of request r, if there is one, is posted when modules
\* of its task are missing.  They all are when the SELECT that counts them fails.
PostFailure(r) ==
    \/ /\ r # NoRequest
       /\ failQueued' = [failQueued EXCEPT ![r] = @ + 1]
    \/ /\ r # NoRequest => getMissingModulesForTask(TaskOf[r]) = {}
       /\ UNCHANGED failQueued

CurrentRequest(id) == IF id = NoPc THEN NoRequest ELSE clientTaskIds[id]

\* Mutant: the failure is posted and the task stays the PC's current one.
FailCurrentTaskKeepsId(id) ==
    /\ PostFailure(CurrentRequest(id))
    /\ UNCHANGED clientTaskIds

\* Mutant: the task id goes first, so that no failure is ever posted.
FailCurrentTaskClearsFirst(id) ==
    /\ clientTaskIds' = IF id = NoPc THEN clientTaskIds
                        ELSE [clientTaskIds EXCEPT ![id] = NoRequest]
    /\ UNCHANGED failQueued

\* failQueued, clientTaskIds: a PC's unfinished task fails, and the PC has no
\* task afterwards.
FailCurrentTask(id) ==
    /\ PostFailure(CurrentRequest(id))
    /\ clientTaskIds' = IF id = NoPc THEN clientTaskIds
                        ELSE [clientTaskIds EXCEPT ![id] = NoRequest]

\* registryVars, open, inbox, failQueued, clientTaskIds: forget handle s,
\* close it (what nobody has read is lost) and fail the current task of the
\* PC that socketToClientId_ names.
cleanupClient(s) ==
    /\ RemoveEntryOfSocket(s)
    /\ socketToClientId' = [socketToClientId EXCEPT ![s] = NoPc]
    /\ open' = [open EXCEPT ![s] = NoConn]
    /\ inbox' = IF open[s] = NoConn THEN inbox ELSE [inbox EXCEPT ![open[s]] = <<>>]
    /\ FailCurrentTask(socketToClientId[s])

\* Closing handle s makes recv fail in the threads that are blocked on it.
Woken(s) ==
    [c \in Conn |-> IF thread[c] = "recv" /\ sock[c] = s THEN "closing"
                                                         ELSE thread[c]]

-----------------------------------------------------------------------------
(***************************************************************************)
(* Agents, outside the server.  An agent holds one connection at a time    *)
(* and may lose it at any moment; the server's thread learns of that only  *)
(* when recv returns, with what was sent before still to be read.          *)
(***************************************************************************)

AgentSend(p, msg) ==
    LET k == agentConn[p]
    IN  /\ k # NoConn
        /\ sock[k] # NoSocket
        /\ open[sock[k]] = k
        /\ Len(inbox[k]) < MaxInbox
        /\ inbox' = [inbox EXCEPT ![k] = Append(@, msg)]

AgentStartRegistration(p) ==
    /\ agentState[p] = "connected"
    /\ AgentSend(p, [type |-> "PC_INFO", pcId |-> p])
    /\ agentState' = [agentState EXCEPT ![p] = "registering"]
    /\ UNCHANGED <<open, peer, agentConn, agentTasks, threadVars, registryVars,
                   pendingRegistrations, clientTaskIds, verifying, failQueued,
                   dbVars, verified, taskHistory>>

AgentSubmitOwnerID(p) ==
    /\ agentState[p] = "owner"
    /\ AgentSend(p, [type |-> "OWNER_ID", pcId |-> p])
    /\ agentState' = [agentState EXCEPT ![p] = "verifying"]
    /\ UNCHANGED <<open, peer, agentConn, agentTasks, threadVars, registryVars,
                   pendingRegistrations, clientTaskIds, verifying, failQueued,
                   dbVars, verified, taskHistory>>

AgentSendForensicData(p, t, m) ==
    /\ agentState[p] = "ready"
    /\ t \in agentTasks[p]
    /\ AgentSend(p, [type |-> "DATA_PACKET", pcId |-> p, taskId |-> t, moduleType |-> m])
    /\ UNCHANGED <<open, peer, agentVars, threadVars, registryVars,
                   pendingRegistrations, clientTaskIds, verifying, failQueued,
                   dbVars, verified, taskHistory>>

AgentDisconnects(p) ==
    /\ agentConn[p] # NoConn
    /\ agentConn' = [agentConn EXCEPT ![p] = NoConn]
    /\ agentState' = [agentState EXCEPT ![p] = "off"]
    /\ agentTasks' = [agentTasks EXCEPT ![p] = {}]
    /\ UNCHANGED <<open, peer, inbox, threadVars, registryVars,
                   pendingRegistrations, clientTaskIds, verifying, failQueued,
                   dbVars, verified, taskHistory>>

-----------------------------------------------------------------------------
(***************************************************************************)
(* The accept thread and the client threads                                *)
(***************************************************************************)

\* accept returns a free handle; the new thread starts by copying the entry
\* the list holds for that handle, if any.
acceptClients(c, s, p) ==
    /\ thread[c] = "free"
    /\ open[s] = NoConn
    /\ agentConn[p] = NoConn
    /\ open' = [open EXCEPT ![s] = c]
    /\ peer' = [peer EXCEPT ![c] = p]
    /\ sock' = [sock EXCEPT ![c] = s]
    /\ client' = [client EXCEPT ![c] = PcOnSocket(s)]
    /\ thread' = [thread EXCEPT ![c] = "recv"]
    /\ agentConn' = [agentConn EXCEPT ![p] = c]
    /\ agentState' = [agentState EXCEPT ![p] = "connected"]
    /\ UNCHANGED <<inbox, agentTasks, pcInfo, registryVars, pendingRegistrations,
                   clientTaskIds, verifying, failQueued, dbVars, verified,
                   taskHistory>>

\* Thread c returns from recv with msg.  It reads whatever connection its
\* handle stands for now.
Receive(c, msg) ==
    LET k == open[sock[c]]
    IN  /\ thread[c] = "recv"
        /\ k # NoConn
        /\ inbox[k] # <<>>
        /\ msg = Head(inbox[k])
        /\ inbox' = [inbox EXCEPT ![k] = Tail(@)]

\* Mutant: a PC that the database does not know is taken for an existing one.
handlePCInfoLookupTrusts(c) ==
    /\ \E msg \in PcInfo :
          /\ Receive(c, msg)
          /\ msg.type = "PC_INFO"
          /\ pcInfo' = [pcInfo EXCEPT ![c] = msg.pcId]
          /\ thread' = [thread EXCEPT ![c] = "known"]
    /\ UNCHANGED <<open, peer, agentVars, sock, client, registryVars,
                   pendingRegistrations, clientTaskIds, verifying, failQueued,
                   dbVars, verified, taskHistory>>

\* Mutant: the message's pc_id is not looked at.
handlePCInfoLookupBlind(c) ==
    /\ \E msg \in PcInfo :
          /\ Receive(c, msg)
          /\ msg.type = "PC_INFO"
          /\ thread' = [thread EXCEPT ![c] = "unknown"]
    /\ UNCHANGED <<open, peer, agentVars, sock, client, pcInfo, registryVars,
                   pendingRegistrations, clientTaskIds, verifying, failQueued,
                   dbVars, verified, taskHistory>>

\* PC_INFO without owner_id, first half: is the PC in the database?  When the
\* SELECT fails a known PC is taken for a new one.
handlePCInfoLookup(c) ==
    /\ \E msg \in PcInfo :
          /\ Receive(c, msg)
          /\ msg.type = "PC_INFO"
          /\ pcInfo' = [pcInfo EXCEPT ![c] = msg.pcId]
          /\ \/ msg.pcId \in dbClients /\ thread' = [thread EXCEPT ![c] = "known"]
             \/ thread' = [thread EXCEPT ![c] = "unknown"]
    /\ UNCHANGED <<open, peer, agentVars, sock, client, registryVars,
                   pendingRegistrations, clientTaskIds, verifying, failQueued,
                   dbVars, verified, taskHistory>>

\* PC_INFO of a PC the database knows: it is connected.
handlePCInfoKnown(c) ==
    /\ thread[c] = "known"
    /\ sendPCInfoResponse(sock[c], "ready")
    /\ updateConnectedClientsList(sock[c], pcInfo[c])
    /\ thread' = [thread EXCEPT ![c] = "reload"]
    /\ UNCHANGED <<open, peer, inbox, agentConn, agentTasks, sock, client, pcInfo,
                   pendingRegistrations, clientTaskIds, verifying, failQueued,
                   dbVars, verified, taskHistory>>

\* PC_INFO of a new PC: its socket waits for an owner verification.
handlePCInfoUnknown(c) ==
    /\ thread[c] = "unknown"
    /\ pendingRegistrations' = [pendingRegistrations EXCEPT ![pcInfo[c]] = sock[c]]
    /\ sendPCInfoResponse(sock[c], "owner")
    /\ thread' = [thread EXCEPT ![c] = "recv"]
    /\ UNCHANGED <<open, peer, inbox, agentConn, agentTasks, sock, client, pcInfo,
                   registryVars, clientTaskIds, verifying, failQueued, dbVars,
                   verified, taskHistory>>

\* After a registration the thread copies its entry again.
handleClientReload(c) ==
    /\ thread[c] = "reload"
    /\ client' = [client EXCEPT ![c] = IF PcOnSocket(sock[c]) = NoPc THEN @
                                       ELSE PcOnSocket(sock[c])]
    /\ thread' = [thread EXCEPT ![c] = "recv"]
    /\ UNCHANGED <<open, peer, inbox, agentVars, sock, pcInfo, registryVars,
                   pendingRegistrations, clientTaskIds, verifying, failQueued,
                   dbVars, verified, taskHistory>>

\* PC_INFO with owner_id: post verifyOwner to the main thread.
handleOwnerId(c) ==
    /\ \E msg \in PcInfo :
          /\ Receive(c, msg)
          /\ msg.type = "OWNER_ID"
          /\ verifying' = [verifying EXCEPT ![msg.pcId] = @ + 1]
    /\ UNCHANGED <<open, peer, agentVars, threadVars, registryVars,
                   pendingRegistrations, clientTaskIds, failQueued, dbVars,
                   verified, taskHistory>>

\* DATA_PACKET: a thread without a pcId looks its socket up once more and
\* drops the data when the list has no entry for it.  The INSERT may fail.
processForensicData(c) ==
    /\ \E msg \in Data :
          LET who == IF client[c] # NoPc THEN client[c] ELSE PcOnSocket(sock[c])
              row == [pcId |-> who, taskId |-> msg.taskId,
                      moduleType |-> msg.moduleType]
          IN  /\ Receive(c, msg)
              /\ client' = [client EXCEPT ![c] = who]
              /\ \/ who # NoPc /\ forensicRows' = forensicRows \cup {row}
                 \/ UNCHANGED forensicRows
    /\ UNCHANGED <<open, peer, agentVars, thread, sock, pcInfo, registryVars,
                   pendingRegistrations, clientTaskIds, verifying, failQueued,
                   dbClients, verified, taskHistory>>

\* recv fails: the handle is closed, or the agent is gone and all it sent
\* has been read.
handleClientDisconnect(c) ==
    /\ thread[c] = "recv"
    /\ LET k == open[sock[c]] IN k # NoConn => inbox[k] = <<>> /\ ~Live(k)
    /\ thread' = [thread EXCEPT ![c] = "closing"]
    /\ UNCHANGED <<open, peer, inbox, agentVars, sock, client, pcInfo, registryVars,
                   pendingRegistrations, clientTaskIds, verifying, failQueued,
                   dbVars, verified, taskHistory>>

\* The end of handleClient.
handleClientExit(c) ==
    /\ thread[c] = "closing"
    /\ cleanupClient(sock[c])
    /\ thread' = [Woken(sock[c]) EXCEPT ![c] = "done"]
    /\ UNCHANGED <<peer, agentVars, sock, client, pcInfo, pendingRegistrations,
                   verifying, dbVars, verified, taskHistory>>

-----------------------------------------------------------------------------
(***************************************************************************)
(* The main thread                                                         *)
(***************************************************************************)

\* The backend's answer to verifyOwner(p): it approves the PC and the row is
\* written, it approves and the write fails, or it refuses or cannot be
\* reached.  The answer goes to the socket pending for p; without one it is
\* dropped.
onOwnerVerificationResult(p, approved) ==
    /\ verifying[p] > 0
    /\ verifying' = [verifying EXCEPT ![p] = @ - 1]
    /\ verified' = IF approved THEN verified \cup {p} ELSE verified
    /\ pendingRegistrations' = [pendingRegistrations EXCEPT ![p] = NoSocket]
    /\ LET s == pendingRegistrations[p]
       IN  \/ /\ s = NoSocket
              /\ UNCHANGED <<open, inbox, agentState, thread, registryVars,
                             clientTaskIds, failQueued, dbClients>>
           \/ /\ s # NoSocket
              /\ approved
              /\ dbClients' = dbClients \cup {p}
              /\ updateConnectedClientsList(s, p)
              /\ sendPCInfoResponse(s, "ready")
              /\ UNCHANGED <<open, inbox, thread, clientTaskIds, failQueued>>
           \/ /\ s # NoSocket
              /\ sendPCInfoResponse(s, "error")
              /\ cleanupClient(s)
              /\ thread' = Woken(s)
              /\ UNCHANGED dbClients
    /\ UNCHANGED <<peer, agentConn, agentTasks, sock, client, pcInfo, forensicRows,
                   taskHistory>>

\* HTTP inspect request r, which was not accepted yet, hands its task to PC p.
\* The id may be in use, on this PC or another: nothing looks.  send fails on a
\* closed handle; with the agent gone it may fail or put the task into a buffer
\* nobody reads.  A failed send clears the task id.
sendTaskToClient(p, r, sent) ==
    /\ sentTo[r] = NoPc
    /\ \E i \in DOMAIN connectedClients :
         LET s == connectedClients[i].socket
             k == open[s]
         IN  /\ connectedClients[i].pcId = p
             /\ \A j \in 1 .. (i - 1) : connectedClients[j].pcId # p
             /\ k = NoConn => ~sent
             /\ Live(k) => sent
             /\ clientTaskIds' = [clientTaskIds EXCEPT ![p] = IF sent THEN r ELSE NoRequest]
             /\ agentTasks' = IF Live(k) THEN [agentTasks EXCEPT ![peer[k]] = @ \cup {TaskOf[r]}]
                                         ELSE agentTasks
    /\ sentTo' = IF sent THEN [sentTo EXCEPT ![r] = p] ELSE sentTo
    /\ superseded' = IF clientTaskIds[p] = NoRequest THEN superseded
                     ELSE superseded \cup {clientTaskIds[p]}
    /\ UNCHANGED <<open, peer, inbox, agentConn, agentState, threadVars,
                   registryVars, pendingRegistrations, verifying, failQueued,
                   dbVars, verified, failReported>>

\* A posted failure notice reaches the backend client.
notifyTaskFailureForMissingModules(r) ==
    /\ failQueued[r] > 0
    /\ failQueued' = [failQueued EXCEPT ![r] = @ - 1]
    /\ failReported' = [failReported EXCEPT ![r] = @ + 1]
    /\ UNCHANGED <<open, peer, inbox, agentVars, threadVars, registryVars,
                   pendingRegistrations, clientTaskIds, verifying, dbVars,
                   verified, sentTo, superseded>>

-----------------------------------------------------------------------------
AgentStep(p) ==
    \/ AgentStartRegistration(p)
    \/ AgentSubmitOwnerID(p)
    \/ AgentDisconnects(p)
    \/ \E t \in Task, m \in Module : AgentSendForensicData(p, t, m)

ThreadStep(c) ==
    \/ handlePCInfoLookup(c)
    \/ handlePCInfoKnown(c)
    \/ handlePCInfoUnknown(c)
    \/ handleClientReload(c)
    \/ handleOwnerId(c)
    \/ processForensicData(c)
    \/ handleClientDisconnect(c)
    \/ handleClientExit(c)

MainStep ==
    \/ \E p \in Pc, approved \in BOOLEAN : onOwnerVerificationResult(p, approved)
    \/ \E p \in Pc, r \in Request, sent \in BOOLEAN : sendTaskToClient(p, r, sent)
    \/ \E r \in Request : notifyTaskFailureForMissingModules(r)

Next ==
    \/ \E p \in Pc : AgentStep(p)
    \/ \E c \in Conn, s \in Socket, p \in Pc : acceptClients(c, s, p)
    \/ \E c \in Conn : ThreadStep(c)
    \/ MainStep

Spec == Init /\ [][Next]_vars

\* The scheduler runs every client thread and the main thread's event loop;
\* agents, HTTP requests and the backend's answers are under nobody's control.
Fairness ==
    /\ \A c \in Conn : WF_vars(ThreadStep(c))
    /\ \A r \in Request : WF_vars(notifyTaskFailureForMissingModules(r))

FairSpec == Spec /\ Fairness

-----------------------------------------------------------------------------
(***************************************************************************)
(* Properties                                                              *)
(***************************************************************************)

\* The list of connected clients names a PC at most once, however often and
\* on however many sockets it registers: tasks and lookups take the first
\* entry they find.
OneEntryPerPc ==
    \A i, j \in DOMAIN connectedClients :
        connectedClients[i].pcId = connectedClients[j].pcId => i = j

\* No PC gets onto the list, into the database or a task without the
\* backend's approval of its owner, now or in an earlier run: neither a lost
\* connection, a late answer nor a reused handle opens a way around it.
OnlyVerifiedAdmitted ==
    /\ dbClients \subseteq verified
    /\ \A i \in DOMAIN connectedClients : connectedClients[i].pcId \in dbClients
    /\ \A r \in Request : sentTo[r] # NoPc => sentTo[r] \in dbClients

\* An accepted request does not vanish: its task is its PC's current one, or
\* has all modules stored, or the failure is posted or reported, or a later
\* request took its place.
NoTaskForgotten ==
    \A r \in Request : sentTo[r] # NoPc =>
        \/ clientTaskIds[sentTo[r]] = r
        \/ getMissingModulesForTask(TaskOf[r]) = {}
        \/ failQueued[r] + failReported[r] > 0
        \/ r \in superseded

\* A request's failure is reported at most once, although several threads
\* clean up connections of the same PC: of a task id the backend hears at most
\* as many failures as requests for it were accepted.
FailedAtMostOnce == \A r \in Request : failQueued[r] + failReported[r] <= 1

\* As long as no registration waits for the backend, a PC whose agent is gone
\* for good leaves the list of connected clients.  (One that waits breaks it:
\* nothing takes its socket out of pendingRegistrations_ when the agent hangs
\* up, and a late approval lists a handle that is closed or another PC's.)
GoneClientsLeave ==
    [](\A p \in Pc : pendingRegistrations[p] = NoSocket) =>
        \A p \in Pc : agentConn[p] = NoConn ~> agentConn[p] # NoConn \/ ~isClientConnected(p)

\* What has become of request r, as far as the registry knows.
FateOf(r) ==
    IF sentTo[r] = NoPc THEN "new"
    ELSE IF clientTaskIds[sentTo[r]] = r THEN "running"
    ELSE IF failReported[r] > 0 THEN "failed"
    ELSE IF failQueued[r] > 0 THEN "failing"
    ELSE IF r \in superseded THEN "replaced"
    ELSE IF getMissingModulesForTask(TaskOf[r]) = {} THEN "complete"
    ELSE "lost"

Contract == INSTANCE TaskContract
                WITH fate <- [r \in Request |-> FateOf(r)], runner <- sentTo

\* The registry keeps the contract on inspections: whatever connections,
\* cleanups, late answers and ids that are used again do, each step is one of
\* the contract's or none.
KeepsTaskContract == Contract!Spec

-----------------------------------------------------------------------------
(***************************************************************************)
(* What the code says of itself and does not keep; a run of its own shows  *)
(* it violated.                                                            *)
(***************************************************************************)

\* cleanupClient logs "Client %1 disconnected with incomplete Task %2" and
\* fails the task.  It means that the agent running the task is gone.
FailureMeansDisconnected ==
    [][\A r \in Request, p \in Pc :
          failQueued'[r] > failQueued[r] /\ sentTo[r] = p /\ TaskOf[r] \in agentTasks[p]
              => ~Live(agentConn[p]) \/ open[sock[agentConn[p]]] # agentConn[p]]_vars

=============================================================================
