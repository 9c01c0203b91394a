---------------------------- MODULE MessageFraming ----------------------------
(***************************************************************************)
(* How agent and server cut messages out of their TCP streams.  A packet   *)
(* is four bytes of length, a type byte and the payload; the length counts *)
(* the type and the payload.  The agent parses a buffer that it fills      *)
(* whenever data arrives (clientnetworkmanager.cpp); the server's thread   *)
(* receives the three parts one after the other (NetworkManager.cpp).      *)
(*                                                                         *)
(* A byte is the pair of its message and its place in the packet.  Four    *)
(* bytes that are no header are read as any length.                        *)
(***************************************************************************)
EXTENDS SequencesExt

CONSTANTS
    Message,
    Size,               \* the length in the header of a message's packet
    AgentLimit,         \* 10 MB in the code
    ServerLimit,        \* 100 MB in the code
    MaxMessages,        \* bound on the messages of a connection, each way
    MaxConnections      \* bound on the connections

Smaller(m, n) == IF m < n THEN m ELSE n

ASSUME SizeAssumption ==
    /\ AgentLimit \in Nat /\ ServerLimit \in Nat
    /\ Size \in [Message -> 1 .. Smaller(AgentLimit, ServerLimit)]
    /\ MaxMessages \in Nat /\ MaxConnections \in Nat

VARIABLES
    open,                   \* the connection of this agent is open
    connections,
    \* from the server to the agent
    sentToAgent,            \* the messages sent on this connection
    toAgent,                \* their bytes on the way
    receiveBuffer,
    waitingForHeader,
    expectedMessageSize,
    parsing,                \* processIncomingData is in its loop
    agentHandled,           \* what handleMessage got on this connection
    staleBuffer,            \* the connection began with bytes of an earlier one
    \* from the agent to the server
    sentToServer,
    toServer,
    serverStep,             \* the recv the server's thread is in
    payloadLeft,            \* its length, before the type byte is read
    partsRead,              \* the bytes of the message it reads
    serverHandled,
    shortRead               \* a recv returned less than a whole length

agentVars == <<sentToAgent, toAgent, receiveBuffer, waitingForHeader,
               expectedMessageSize, parsing, agentHandled, staleBuffer>>
serverVars == <<sentToServer, toServer, serverStep, payloadLeft, partsRead,
                serverHandled, shortRead>>
vars == <<open, connections, agentVars, serverVars>>

HeaderSize == 4
Byte == Message \X (1 .. HeaderSize + Smaller(AgentLimit, ServerLimit))
Garbage == "garbage"

\* The payload of a length of zero, 2^32 - 1 bytes: more than ever arrive.
Endless == ServerLimit + 1

TypeOK ==
    /\ open \in BOOLEAN
    /\ connections \in 0 .. MaxConnections
    /\ sentToAgent \in Seq(Message)
    /\ toAgent \in Seq(Byte)
    /\ receiveBuffer \in Seq(Byte)
    /\ waitingForHeader \in BOOLEAN
    /\ expectedMessageSize \in 0 .. AgentLimit + 1
    /\ expectedMessageSize > AgentLimit => waitingForHeader
    /\ parsing \in BOOLEAN
    /\ agentHandled \in Seq(Message \cup {Garbage})
    /\ staleBuffer \in BOOLEAN
    /\ sentToServer \in Seq(Message)
    /\ toServer \in Seq(Byte)
    /\ serverStep \in {"length", "type", "payload"}
    /\ payloadLeft \in 0 .. Endless
    /\ partsRead \in Seq(Byte)
    /\ serverHandled \in Seq(Message \cup {Garbage})
    /\ shortRead \in BOOLEAN

Init ==
    /\ open = FALSE
    /\ connections = 0
    /\ sentToAgent = <<>>
    /\ toAgent = <<>>
    /\ receiveBuffer = <<>>
    /\ waitingForHeader = TRUE
    /\ expectedMessageSize = 0
    /\ parsing = FALSE
    /\ agentHandled = <<>>
    /\ staleBuffer = FALSE
    /\ sentToServer = <<>>
    /\ toServer = <<>>
    /\ serverStep = "length"
    /\ payloadLeft = 0
    /\ partsRead = <<>>
    /\ serverHandled = <<>>
    /\ shortRead = FALSE

-----------------------------------------------------------------------------
\* The bytes that both senders write for a message.
Packet(m) == [i \in 1 .. HeaderSize + Size[m] |-> <<m, i>>]

First(n, bytes) == SubSeq(bytes, 1, n)
Rest(n, bytes) == SubSeq(bytes, n + 1, Len(bytes))

\* The lengths a receiver may read in these bytes: the one sent when they are
\* a header, else any (limit + 1 stands for those beyond the limit).
Lengths(bytes, limit) ==
    LET whole == {m \in Message : bytes = First(HeaderSize, Packet(m))}
    IN  IF whole # {} THEN {Size[m] : m \in whole} ELSE 0 .. limit + 1

\* What the handler of the message in these bytes gets.
Content(bytes) ==
    IF \E m \in Message : bytes = Packet(m)
    THEN CHOOSE m \in Message : bytes = Packet(m)
    ELSE Garbage

-----------------------------------------------------------------------------
(***************************************************************************)
(* The connection                                                          *)
(***************************************************************************)

\* The agent's onConnected, a slot of the thread that parses, and a new thread
\* of the server.
connect ==
    /\ ~open
    /\ ~parsing
    /\ connections < MaxConnections
    /\ open' = TRUE
    /\ connections' = connections + 1
    /\ sentToAgent' = <<>>
    /\ agentHandled' = <<>>
    /\ staleBuffer' = (receiveBuffer # <<>>)
    /\ sentToServer' = <<>>
    /\ serverHandled' = <<>>
    /\ shortRead' = FALSE
    /\ UNCHANGED <<toAgent, receiveBuffer, waitingForHeader, expectedMessageSize, parsing,
                   toServer, serverStep, payloadLeft, partsRead>>

\* Mutant: the server has the parts of a message in members that outlive the
\* connection, as the agent has.
ClosedKeepsParts ==
    /\ open' = FALSE
    /\ toAgent' = <<>>
    /\ toServer' = <<>>
    /\ UNCHANGED <<serverStep, payloadLeft, partsRead>>

\* The socket is closed: what was not received is lost, and the thread ends.
Closed ==
    /\ open' = FALSE
    /\ toAgent' = <<>>
    /\ toServer' = <<>>
    /\ serverStep' = "length"
    /\ payloadLeft' = 0
    /\ partsRead' = <<>>

\* onDisconnected: the agent's buffer and its place in it stay as they are.  A
\* handler whose write fails brings it about inside the parser's loop, which
\* goes on with what is in the buffer.
disconnect ==
    /\ open
    /\ Closed
    /\ UNCHANGED <<connections, sentToAgent, receiveBuffer, waitingForHeader,
                   expectedMessageSize, parsing, agentHandled, staleBuffer, sentToServer,
                   serverHandled, shortRead>>

sendBinaryMessageToSocket(m) ==
    /\ open
    /\ Len(sentToAgent) < MaxMessages
    /\ sentToAgent' = Append(sentToAgent, m)
    /\ toAgent' = toAgent \o Packet(m)
    /\ UNCHANGED <<open, connections, receiveBuffer, waitingForHeader, expectedMessageSize,
                   parsing, agentHandled, staleBuffer, serverVars>>

sendBinaryMessage(m) ==
    /\ open
    /\ Len(sentToServer) < MaxMessages
    /\ sentToServer' = Append(sentToServer, m)
    /\ toServer' = toServer \o Packet(m)
    /\ UNCHANGED <<open, connections, agentVars, serverStep, payloadLeft,
                   partsRead, serverHandled, shortRead>>

-----------------------------------------------------------------------------
(***************************************************************************)
(* The agent: onDataReceived, then the rounds of processIncomingData       *)
(***************************************************************************)

onDataReceived(n) ==
    /\ open
    /\ ~parsing
    /\ receiveBuffer' = receiveBuffer \o First(n, toAgent)
    /\ toAgent' = Rest(n, toAgent)
    /\ parsing' = TRUE
    /\ UNCHANGED <<open, connections, sentToAgent, waitingForHeader, expectedMessageSize,
                   agentHandled, staleBuffer, serverVars>>

\* Neither a header nor the message it announced is complete.
waitForData ==
    /\ parsing
    /\ Len(receiveBuffer) <
           HeaderSize + (IF waitingForHeader THEN 1 ELSE expectedMessageSize)
    /\ parsing' = FALSE
    /\ UNCHANGED <<open, connections, sentToAgent, toAgent, receiveBuffer, waitingForHeader,
                   expectedMessageSize, agentHandled, staleBuffer, serverVars>>

\* Mutant: no message is too large.
readHeaderUnlimited ==
    /\ parsing
    /\ waitingForHeader
    /\ Len(receiveBuffer) >= HeaderSize + 1
    /\ expectedMessageSize' \in Lengths(First(HeaderSize, receiveBuffer), AgentLimit)
    /\ waitingForHeader' = FALSE
    /\ UNCHANGED <<open, connections, sentToAgent, toAgent, receiveBuffer, parsing,
                   agentHandled, staleBuffer, serverVars>>

\* A length beyond the limit empties the buffer.
readHeader ==
    /\ parsing
    /\ waitingForHeader
    /\ Len(receiveBuffer) >= HeaderSize + 1
    /\ expectedMessageSize' \in Lengths(First(HeaderSize, receiveBuffer), AgentLimit)
    /\ waitingForHeader' = (expectedMessageSize' > AgentLimit)
    /\ parsing' = (expectedMessageSize' <= AgentLimit)
    /\ receiveBuffer' = IF expectedMessageSize' > AgentLimit THEN <<>> ELSE receiveBuffer
    /\ UNCHANGED <<open, connections, sentToAgent, toAgent, agentHandled, staleBuffer,
                   serverVars>>

\* Mutant: the header is not counted when the rest of a message is awaited.
handleMessageEarly ==
    /\ parsing
    /\ ~waitingForHeader
    /\ Len(receiveBuffer) >= expectedMessageSize
    /\ agentHandled' =
           Append(agentHandled,
                  Content(First(Smaller(HeaderSize + expectedMessageSize, Len(receiveBuffer)),
                                receiveBuffer)))
    /\ receiveBuffer' = Rest(HeaderSize + expectedMessageSize, receiveBuffer)
    /\ waitingForHeader' = TRUE
    /\ UNCHANGED <<open, connections, sentToAgent, toAgent, expectedMessageSize, parsing,
                   staleBuffer, serverVars>>

\* Mutant: one message is handled each time that data arrives.
handleMessageOnce ==
    /\ parsing
    /\ ~waitingForHeader
    /\ Len(receiveBuffer) >= HeaderSize + expectedMessageSize
    /\ agentHandled' =
           Append(agentHandled, Content(First(HeaderSize + expectedMessageSize, receiveBuffer)))
    /\ receiveBuffer' = Rest(HeaderSize + expectedMessageSize, receiveBuffer)
    /\ waitingForHeader' = TRUE
    /\ parsing' = FALSE
    /\ UNCHANGED <<open, connections, sentToAgent, toAgent, expectedMessageSize,
                   staleBuffer, serverVars>>

handleMessage ==
    /\ parsing
    /\ ~waitingForHeader
    /\ Len(receiveBuffer) >= HeaderSize + expectedMessageSize
    /\ agentHandled' =
           Append(agentHandled, Content(First(HeaderSize + expectedMessageSize, receiveBuffer)))
    /\ receiveBuffer' = Rest(HeaderSize + expectedMessageSize, receiveBuffer)
    /\ waitingForHeader' = TRUE
    /\ UNCHANGED <<open, connections, sentToAgent, toAgent, expectedMessageSize, parsing,
                   staleBuffer, serverVars>>

-----------------------------------------------------------------------------
(***************************************************************************)
(* The server: the three recv of handleClient                              *)
(***************************************************************************)

\* One recv for the length.  It returns what has arrived, and the rest of the
\* variable is not initialised.  A message beyond the limit ends the thread,
\* which closes the connection.
recvLength(n) ==
    /\ open
    /\ serverStep = "length"
    /\ n <= HeaderSize
    /\ shortRead' = (shortRead \/ n < HeaderSize)
    /\ \E length \in Lengths(First(n, toServer), ServerLimit) :
          \/ /\ length <= ServerLimit
             /\ partsRead' = First(n, toServer)
             /\ payloadLeft' = length
             /\ serverStep' = "type"
             /\ toServer' = Rest(n, toServer)
             /\ UNCHANGED <<open, toAgent>>
          \/ /\ length > ServerLimit
             /\ Closed
    /\ UNCHANGED <<connections, sentToAgent, receiveBuffer, waitingForHeader,
                   expectedMessageSize, parsing, agentHandled, staleBuffer, sentToServer,
                   serverHandled>>

recvType ==
    /\ open
    /\ serverStep = "type"
    /\ toServer # <<>>
    /\ partsRead' = partsRead \o First(1, toServer)
    /\ toServer' = Rest(1, toServer)
    /\ payloadLeft' = IF payloadLeft = 0 THEN Endless ELSE payloadLeft - 1
    /\ serverStep' = "payload"
    /\ UNCHANGED <<open, connections, agentVars, sentToServer, serverHandled, shortRead>>

\* Mutant: one recv for the payload, like the one for the length.
recvPayloadOnce(n) ==
    /\ open
    /\ serverStep = "payload"
    /\ payloadLeft \in n .. ServerLimit
    /\ partsRead' = partsRead \o First(n, toServer)
    /\ toServer' = Rest(n, toServer)
    /\ payloadLeft' = 0
    /\ UNCHANGED <<open, connections, agentVars, sentToServer, serverStep,
                   serverHandled, shortRead>>

\* A round of the loop that reads the payload.
recvPayload(n) ==
    /\ open
    /\ serverStep = "payload"
    /\ n <= payloadLeft
    /\ partsRead' = partsRead \o First(n, toServer)
    /\ toServer' = Rest(n, toServer)
    /\ payloadLeft' = IF payloadLeft = Endless THEN Endless ELSE payloadLeft - n
    /\ UNCHANGED <<open, connections, agentVars, sentToServer, serverStep,
                   serverHandled, shortRead>>

\* Mutant: a message without payload is skipped.
dispatchWithPayload ==
    /\ open
    /\ serverStep = "payload"
    /\ payloadLeft = 0
    /\ serverHandled' = IF Len(partsRead) = HeaderSize + 1 THEN serverHandled
                        ELSE Append(serverHandled, Content(partsRead))
    /\ serverStep' = "length"
    /\ UNCHANGED <<open, connections, agentVars, sentToServer, toServer, payloadLeft,
                   partsRead, shortRead>>

dispatch ==
    /\ open
    /\ serverStep = "payload"
    /\ payloadLeft = 0
    /\ serverHandled' = Append(serverHandled, Content(partsRead))
    /\ serverStep' = "length"
    /\ UNCHANGED <<open, connections, agentVars, sentToServer, toServer, payloadLeft,
                   partsRead, shortRead>>

-----------------------------------------------------------------------------
Next ==
    \/ connect
    \/ disconnect
    \/ \E m \in Message : sendBinaryMessageToSocket(m) \/ sendBinaryMessage(m)
    \/ \E n \in 1 .. Len(toAgent) : onDataReceived(n)
    \/ waitForData
    \/ readHeader
    \/ handleMessage
    \/ \E n \in 1 .. Len(toServer) : recvLength(n) \/ recvPayload(n)
    \/ recvType
    \/ dispatch

Spec == Init /\ [][Next]_vars

-----------------------------------------------------------------------------
(***************************************************************************)
(* Properties                                                              *)
(***************************************************************************)

\* However the stream is cut into pieces, the agent's handlers get the messages
\* sent on the connection, whole and in order.  Only bytes that an earlier
\* connection left in the buffer spoil that.
AgentFramesRight == ~staleBuffer => IsPrefix(agentHandled, sentToAgent)

\* When the agent waits for data and none is on the way, it has handled all
\* that was sent: no message waits in the buffer for the next one to arrive.
AgentReadsAll ==
    open /\ ~staleBuffer /\ ~parsing /\ toAgent = <<>> => agentHandled = sentToAgent

\* The server's handlers get the messages of the agent, whole and in order, as
\* long as no recv of a length is cut short.
ServerFramesRight == ~shortRead => IsPrefix(serverHandled, sentToServer)

\* When the server's thread waits for a length and nothing is on the way, it
\* has handled all that the agent sent.
ServerReadsAll ==
    open /\ ~shortRead /\ serverStep = "length" /\ toServer = <<>>
        => serverHandled = sentToServer

\* Each direction is a channel of messages for the handlers at its end: nothing
\* is handled twice or out of order, what was handled stays so, and only
\* leftovers or a short recv of a length spoil a connection, which a new one
\* mends.  The server's handlers get nothing after the end of the connection;
\* the agent's may get what the parser has in its buffer then, in its order.
ToAgent == INSTANCE MessageChannel
    WITH Buffered <- TRUE, up <- open, sent <- sentToAgent, handled <- agentHandled,
         spoiled <- staleBuffer

ToServer == INSTANCE MessageChannel
    WITH Buffered <- FALSE, up <- open, sent <- sentToServer, handled <- serverHandled,
         spoiled <- shortRead

KeepsChannels == ToAgent!Spec /\ ToServer!Spec

=============================================================================
