---------------------------- MODULE HttpApiHandler ----------------------------
(***************************************************************************)
(* The operator's HTTP API: requests that arrive in pieces, inspections,   *)
(* and the status of tasks that the API keeps.  Its handlers run on the    *)
(* main thread; the rows of tasks are stored by client threads, whose      *)
(* signals are queued to it.                                               *)
(*                                                                         *)
(* A socket carries one request.  A request is its layout in bytes, its    *)
(* endpoint and, for an inspection, the PC and the task id.                *)
(***************************************************************************)
EXTENDS SequencesExt

CONSTANTS
    Request,
    Layout,     \* [header, body, extra: bytes; narrow: how many of the header's are
                \*  no character of their own; hasLength: it has a Content-Length]
    Endpoint,   \* "inspect", "query" or "unknown"
    Pc,
    PcOf,       \* the PC of an inspection, NoPc if its body names none
    NoPc,
    TaskId,
    TaskOf,     \* its task id; that of requests without one is the time in seconds
    MaxRows     \* bound on the rows stored for a PC's task

ASSUME RequestAssumption ==
    /\ Layout \in [Request -> [header : Nat \ {0}, body : Nat, extra : Nat, narrow : Nat,
                               hasLength : BOOLEAN]]
    /\ Endpoint \in [Request -> {"inspect", "query", "unknown"}]
    /\ PcOf \in [Request -> Pc \cup {NoPc}]
    /\ TaskOf \in [Request -> TaskId]
    /\ NoPc \notin Pc
    /\ MaxRows \in Nat

VARIABLES
    socket,             \* of a request: "new", "open", or "gone" once it is read no more
    requestBuffers,     \* bytes buffered for it, 0 if there is no buffer
    inspecting,         \* the inspection whose handler is between its two steps
    taskSent,           \* and what sendTaskToClient returned to it
    answer,             \* what the client was told
    starts,             \* how many tasks a request has started
    taskStatuses,
    assigned,           \* the task a PC's agent works on, as a set
    rows,               \* rows stored for it
    storedEvents,       \* the queued forensicDataStored signals
    everStored,         \* the task ids that rows were stored for
    storedSince         \* those with a row since they last became "running"

httpVars == <<socket, requestBuffers, inspecting, taskSent, answer, starts, taskStatuses,
              assigned, rows, storedEvents, everStored, storedSince>>

requestVars == <<socket, requestBuffers, inspecting, taskSent, answer, starts>>
taskVars == <<assigned, rows, storedEvents, everStored, storedSince>>

Total(r) == Layout[r].header + Layout[r].body + Layout[r].extra

HttpTypeOK ==
    /\ socket \in [Request -> {"new", "open", "gone"}]
    /\ requestBuffers \in [Request -> Nat]
    /\ \A r \in Request : requestBuffers[r] <= Total(r)
    /\ \A r \in Request : answer[r] # "none" => requestBuffers[r] = 0
    /\ inspecting \in SUBSET Request
    /\ taskSent \in BOOLEAN
    /\ answer \in [Request -> {"none", "ok", "started", "badRequest", "failed", "notFound"}]
    /\ starts \in [Request -> Nat]
    /\ taskStatuses \in [TaskId -> {"unknown", "running", "completed"}]
    /\ assigned \in [Pc -> SUBSET TaskId]
    /\ rows \in [Pc -> 0 .. MaxRows]
    /\ storedEvents \in Seq(TaskId)
    /\ everStored \in SUBSET TaskId
    /\ storedSince \in SUBSET TaskId

HttpInit ==
    /\ socket = [r \in Request |-> "new"]
    /\ requestBuffers = [r \in Request |-> 0]
    /\ inspecting = {}
    /\ taskSent = FALSE
    /\ answer = [r \in Request |-> "none"]
    /\ starts = [r \in Request |-> 0]
    /\ taskStatuses = [t \in TaskId |-> "unknown"]
    /\ assigned = [p \in Pc |-> {}]
    /\ rows = [p \in Pc |-> 0]
    /\ storedEvents = <<>>
    /\ everStored = {}
    /\ storedSince = {}

\* The main thread is in no handler.
HttpIdle == inspecting = {}

-----------------------------------------------------------------------------
(***************************************************************************)
(* Sockets and buffers                                                     *)
(***************************************************************************)

onNewConnection(r) ==
    /\ HttpIdle
    /\ socket[r] = "new"
    /\ socket' = [socket EXCEPT ![r] = "open"]
    /\ UNCHANGED <<requestBuffers, inspecting, taskSent, answer, starts, taskStatuses, taskVars>>

\* The body's length is counted in bytes, its start in characters.
BodyRead(r, n) == n - (Layout[r].header - Layout[r].narrow)

\* Mutant: the header is not told from the body.
CompleteWithHeader(r, n) ==
    /\ n >= Layout[r].header
    /\ Layout[r].hasLength => n >= Layout[r].body

\* Mutant: one byte more than the body is waited for.
CompleteLate(r, n) ==
    /\ n >= Layout[r].header
    /\ Layout[r].hasLength => BodyRead(r, n) > Layout[r].body

\* The first n bytes are taken for a whole request.
Complete(r, n) ==
    /\ n >= Layout[r].header
    /\ Layout[r].hasLength => BodyRead(r, n) >= Layout[r].body

\* The body parses: it is neither cut nor followed by anything.
BodyParses(r, n) == Layout[r].body > 0 /\ n = Layout[r].header + Layout[r].body

\* More of the request arrives, n bytes of it in all.
Reads(r, n) ==
    /\ HttpIdle
    /\ socket[r] = "open"
    /\ n \in requestBuffers[r] + 1 .. Total(r)

\* Mutant: the socket stays open and the buffer stays.
RespondKeepOpen(r, what) ==
    /\ answer' = [answer EXCEPT ![r] = what]
    /\ UNCHANGED <<socket, requestBuffers>>

\* sendHttpResponse ends with disconnectFromHost: the socket is read no more.  The
\* buffer goes, and onClientDisconnected, at once or later, finds none.
Respond(r, what) ==
    /\ answer' = [answer EXCEPT ![r] = what]
    /\ socket' = [socket EXCEPT ![r] = "gone"]
    /\ requestBuffers' = [requestBuffers EXCEPT ![r] = 0]

waitForMore(r, n) ==
    /\ Reads(r, n)
    /\ ~Complete(r, n)
    /\ requestBuffers' = [requestBuffers EXCEPT ![r] = n]
    /\ UNCHANGED <<socket, inspecting, taskSent, answer, starts, taskStatuses, taskVars>>

\* The client goes before it has its answer.
onClientDisconnected(r) ==
    /\ HttpIdle
    /\ socket[r] = "open"
    /\ socket' = [socket EXCEPT ![r] = "gone"]
    /\ requestBuffers' = [requestBuffers EXCEPT ![r] = 0]
    /\ UNCHANGED <<inspecting, taskSent, answer, starts, taskStatuses, taskVars>>

\* Deleting the server deletes its sockets; their buffers stay, for nobody.
stopServer ==
    /\ HttpIdle
    /\ socket' = [r \in Request |-> "gone"]
    /\ UNCHANGED <<requestBuffers, inspecting, taskSent, answer, starts, taskStatuses, taskVars>>

-----------------------------------------------------------------------------
(***************************************************************************)
(* handleHttpRequest                                                       *)
(***************************************************************************)

handleQuery(r, n) ==
    /\ Reads(r, n)
    /\ Complete(r, n)
    /\ Endpoint[r] # "inspect"
    /\ Respond(r, IF Endpoint[r] = "query" THEN "ok" ELSE "notFound")
    /\ UNCHANGED <<inspecting, taskSent, starts, taskStatuses, taskVars>>

rejectInspect(r, n) ==
    /\ Reads(r, n)
    /\ Complete(r, n)
    /\ Endpoint[r] = "inspect"
    /\ ~BodyParses(r, n) \/ PcOf[r] = NoPc
    /\ Respond(r, "badRequest")
    /\ UNCHANGED <<inspecting, taskSent, starts, taskStatuses, taskVars>>

\* handleInspectRequest up to the return of sendTaskToClient: from here on the
\* agent may answer.  A PC has one task, the last one it was sent.
sendTask(r, n, success) ==
    /\ Reads(r, n)
    /\ Complete(r, n)
    /\ Endpoint[r] = "inspect"
    /\ BodyParses(r, n)
    /\ PcOf[r] # NoPc
    /\ inspecting' = {r}
    /\ requestBuffers' = [requestBuffers EXCEPT ![r] = n]
    /\ taskSent' = success
    /\ IF success
       THEN /\ starts' = [starts EXCEPT ![r] = @ + 1]
            /\ assigned' = [assigned EXCEPT ![PcOf[r]] = {TaskOf[r]}]
            /\ rows' = [rows EXCEPT ![PcOf[r]] = 0]
            /\ storedSince' = storedSince \ {TaskOf[r]}
       ELSE UNCHANGED <<starts, assigned, rows, storedSince>>
    /\ UNCHANGED <<socket, answer, taskStatuses, storedEvents, everStored>>

\* The rest of it.
finishInspect(r) ==
    /\ r \in inspecting
    /\ inspecting' = {}
    /\ IF taskSent
       THEN /\ taskStatuses' = [taskStatuses EXCEPT ![TaskOf[r]] = "running"]
            /\ Respond(r, "started")
       ELSE Respond(r, "failed") /\ UNCHANGED taskStatuses
    /\ UNCHANGED <<taskSent, starts, taskVars>>

-----------------------------------------------------------------------------
(***************************************************************************)
(* Rows of a task                                                          *)
(***************************************************************************)

\* Mutant: the slot runs in the thread that stores.
storeForensicDataDirect(p) ==
    \E t \in assigned[p] :
        /\ rows[p] < MaxRows
        /\ rows' = [rows EXCEPT ![p] = @ + 1]
        /\ taskStatuses' = IF taskStatuses[t] = "unknown" THEN taskStatuses
                           ELSE [taskStatuses EXCEPT ![t] = "completed"]
        /\ everStored' = everStored \cup {t}
        /\ storedSince' = storedSince \cup {t}
        /\ UNCHANGED <<requestVars, assigned, storedEvents>>

\* On a client thread.
storeForensicData(p) ==
    \E t \in assigned[p] :
        /\ rows[p] < MaxRows
        /\ rows' = [rows EXCEPT ![p] = @ + 1]
        /\ storedEvents' = Append(storedEvents, t)
        /\ everStored' = everStored \cup {t}
        /\ storedSince' = storedSince \cup {t}
        /\ UNCHANGED <<requestVars, taskStatuses, assigned>>

onForensicDataStored ==
    /\ HttpIdle
    /\ storedEvents # <<>>
    /\ storedEvents' = Tail(storedEvents)
    /\ taskStatuses' = LET t == Head(storedEvents)
                       IN  IF taskStatuses[t] = "unknown" THEN taskStatuses
                           ELSE [taskStatuses EXCEPT ![t] = "completed"]
    /\ UNCHANGED <<requestVars, assigned, rows, everStored, storedSince>>

-----------------------------------------------------------------------------
HttpStep(r) ==
    \/ onNewConnection(r)
    \/ \E n \in 1 .. Total(r) :
          \/ waitForMore(r, n)
          \/ handleQuery(r, n)
          \/ rejectInspect(r, n)
          \/ \E success \in BOOLEAN : sendTask(r, n, success)
    \/ finishInspect(r)
    \/ onClientDisconnected(r)

HttpNext ==
    \/ \E r \in Request : HttpStep(r)
    \/ \E p \in Pc : storeForensicData(p)
    \/ onForensicDataStored
    \/ stopServer

HttpSpec == HttpInit /\ [][HttpNext]_httpVars

-----------------------------------------------------------------------------
(***************************************************************************)
(* Properties                                                              *)
(***************************************************************************)

\* However an operator's request is cut into pieces and whatever follows it on
\* the socket, it starts at most one task, and the operator who is told that a
\* task was started, and nobody else, has started one.
OneTaskPerRequest ==
    \A r \in Request :
        /\ starts[r] <= 1
        /\ answer[r] # "none" => (answer[r] = "started" <=> starts[r] = 1)

\* Once all of a request has arrived it is not left waiting in the buffer for
\* bytes that never come, whatever its encoding.
NoRequestWaits ==
    \A r \in Request : requestBuffers[r] = Total(r) => r \in inspecting

\* An inspection that gives a Content-Length, names its PC and is followed by
\* nothing is understood, in whatever pieces it arrives: only a header with
\* characters of several bytes makes the handler take a part of the body for
\* the whole of it.
InspectionsUnderstood ==
    \A r \in Request :
        /\ Endpoint[r] = "inspect" /\ PcOf[r] # NoPc
        /\ Layout[r].hasLength /\ Layout[r].narrow = 0
        /\ Layout[r].body > 0 /\ Layout[r].extra = 0
        => answer[r] # "badRequest"

\* What the status of a task id says: "completed" means that some row was stored
\* under that id, by whichever PC; and once the queued signals are handled, an id
\* that has a row since its last start is "completed", not "running" for good,
\* although the agent may answer before the status becomes "running".
StatusTellsFirstRow ==
    \A t \in TaskId :
        /\ taskStatuses[t] = "completed" => t \in everStored
        /\ HttpIdle /\ t \in storedSince /\ ~Contains(storedEvents, t)
               => taskStatuses[t] = "completed"

=============================================================================
