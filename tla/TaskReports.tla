----------------------------- MODULE TaskReports -----------------------------
(***************************************************************************)
(* What becomes of an inspection task: the agent collects and sends its    *)
(* modules one after the other, a client thread of the server stores each  *)
(* one, and the server's main thread tells the backend (BackendApiClient)  *)
(* and its HTTP clients (HttpApiHandler) how the task ended.               *)
(*                                                                         *)
(* Client threads do not call the main thread.  What they emit or post     *)
(* waits in the main thread's event queue, in order.                       *)
(*                                                                         *)
(* One registered PC is modelled; its agent may lose its connection and    *)
(* come back on the next one.  ClientRegistry models how it registers.     *)
(***************************************************************************)
EXTENDS Naturals, Sequences

CONSTANTS
    Conn,           \* connections of the PC, each with a client thread
    Request,        \* HTTP inspect requests
    Task,           \* task ids
    TaskOf,         \* the task id a request names; nothing keeps ids apart
    ModuleCount,    \* required forensic modules (six in the code)
    NoConn, NoTask, NoRequest

Module == 1 .. ModuleCount
Message == [task : Task, module : Module]

ASSUME ModuleCountAssumption == ModuleCount \in Nat \ {0}
ASSUME TaskOfAssumption == TaskOf \in [Request -> Task]
ASSUME NoneAssumption ==
    NoConn \notin Conn /\ NoTask \notin Task \cup Message /\ NoRequest \notin Request

VARIABLES
    \* the agent
    agentConn,          \* its connection
    requests,           \* ids of the task requests it has not looked at
    running,            \* the task it collects for
    module,             \* the module it collects next
    \* the client threads
    inbox,              \* modules sent on a connection and not yet received
    thread,             \* where a thread is
    job,                \* the task and module it handles
    doomed,             \* the request whose task its cleanup found incomplete
    \* NetworkManager and the database
    listed,             \* connection of the PC's entry in connectedClients_
    clientTaskIds,      \* TaskOf[clientTaskIds] is the id the code keeps for the PC
    stored,             \* modules in forensic_test, per task
    \* the main thread
    posted,             \* its event queue
    taskStatuses,       \* HttpApiHandler's status of each task
    \* history
    accepted,           \* requests whose task was sent
    completeNotices,    \* completion notices from the event queue, per task
    missed,             \* complete tasks that a failing SELECT took for incomplete
    failNotices,        \* failure notices, per request
    superseded          \* requests whose id a later one overwrote

agentVars == <<agentConn, requests, running, module>>
mainVars == <<taskStatuses, completeNotices, failNotices>>
history == <<accepted, missed, superseded>>
vars == <<agentVars, inbox, thread, job, doomed, listed, clientTaskIds, stored,
          posted, mainVars, history>>

Event == [what : {"stored", "complete"}, about : Task]
             \cup [what : {"failed"}, about : Request]

TypeOK ==
    /\ agentConn \in Conn \cup {NoConn}
    /\ requests \in Seq(Task)
    /\ running \in Task \cup {NoTask}
    /\ module \in 1 .. ModuleCount + 1
    /\ inbox \in [Conn -> Seq(Message)]
    /\ thread \in [Conn -> {"free", "recv", "inserted", "emitted", "counted",
                            "closing", "failing", "done"}]
    /\ job \in [Conn -> Message \cup {NoTask}]
    /\ \A c \in Conn :
          job[c] \in Message <=> thread[c] \in {"inserted", "emitted", "counted"}
    /\ doomed \in [Conn -> Request \cup {NoRequest}]
    /\ listed \in Conn \cup {NoConn}
    /\ clientTaskIds \in Request \cup {NoRequest}
    /\ stored \in [Task -> SUBSET Module]
    /\ posted \in Seq(Event)
    /\ taskStatuses \in [Task -> {"unknown", "running", "completed", "failed"}]
    /\ completeNotices \in [Task -> Nat]
    /\ failNotices \in [Request -> Nat]
    /\ accepted \in SUBSET Request
    /\ missed \in SUBSET Task
    /\ superseded \in SUBSET Request

Init ==
    /\ agentConn = NoConn
    /\ requests = <<>>
    /\ running = NoTask
    /\ module = 1
    /\ inbox = [c \in Conn |-> <<>>]
    /\ thread = [c \in Conn |-> "free"]
    /\ job = [c \in Conn |-> NoTask]
    /\ doomed = [c \in Conn |-> NoRequest]
    /\ listed = NoConn
    /\ clientTaskIds = NoRequest
    /\ stored = [t \in Task |-> {}]
    /\ posted = <<>>
    /\ taskStatuses = [t \in Task |-> "unknown"]
    /\ completeNotices = [t \in Task |-> 0]
    /\ failNotices = [r \in Request |-> 0]
    /\ accepted = {}
    /\ missed = {}
    /\ superseded = {}

-----------------------------------------------------------------------------
\* Modules of a task id that are not in the database, whichever request they
\* were collected for.
getMissingModulesForTask(t) == Module \ stored[t]

\* sendTaskToClient, registrations and cleanups run under clientsMutex_.
clientsMutexFree == \A c \in Conn : thread[c] # "failing"

Post(what, x) == posted' = Append(posted, [what |-> what, about |-> x])

-----------------------------------------------------------------------------
(***************************************************************************)
(* The agent.  Its one thread collects a whole task before it returns to   *)
(* its event loop, where it takes the next request and reconnects.         *)
(***************************************************************************)

\* The agent comes (back) on connection c and is listed.
AgentRegisters(c) ==
    /\ agentConn = NoConn
    /\ running = NoTask
    /\ thread[c] = "free"
    /\ clientsMutexFree
    /\ agentConn' = c
    /\ listed' = c
    /\ thread' = [thread EXCEPT ![c] = "recv"]
    /\ UNCHANGED <<requests, running, module, inbox, job,
                   doomed, clientTaskIds, stored, posted, mainVars,
                   history>>

\* The connection breaks; requests the agent has not read are lost.
AgentDisconnects ==
    /\ agentConn # NoConn
    /\ agentConn' = NoConn
    /\ requests' = <<>>
    /\ UNCHANGED <<running, module, inbox, thread, job, doomed,
                   listed, clientTaskIds, stored, posted, mainVars,
                   history>>

\* The agent's process ends, in the middle of a task or not.
AgentStops ==
    /\ agentConn # NoConn \/ running # NoTask
    /\ agentConn' = NoConn
    /\ requests' = <<>>
    /\ running' = NoTask
    /\ UNCHANGED <<module, inbox, thread, job, doomed, listed,
                   clientTaskIds, stored, posted, mainVars,
                   history>>

handleTaskRequest ==
    /\ running = NoTask
    /\ requests # <<>>
    /\ running' = Head(requests)
    /\ requests' = Tail(requests)
    /\ module' = 1
    /\ UNCHANGED <<agentConn, inbox, thread, job, doomed, listed,
                   clientTaskIds, stored, posted, mainVars,
                   history>>

\* One module of an ALL_DATA task.  It is collected and sent; or it is not,
\* because there is nothing to collect, or because collecting or sending
\* fails.  A send on a broken connection is lost.
executeCollection(sent) ==
    /\ running # NoTask
    /\ module <= ModuleCount
    /\ inbox' = IF sent /\ agentConn # NoConn
                THEN [inbox EXCEPT ![agentConn] =
                          Append(@, [task |-> running, module |-> module])]
                ELSE inbox
    /\ module' = module + 1
    /\ UNCHANGED <<agentConn, requests, running, thread, job, doomed,
                   listed, clientTaskIds, stored, posted, mainVars,
                   history>>

\* The agent is done with the task, whatever it has sent.  No message tells
\* the server.
handleTaskExecutionEnds ==
    /\ running # NoTask
    /\ module > ModuleCount
    /\ running' = NoTask
    /\ UNCHANGED <<agentConn, requests, module, inbox, thread, job, doomed,
                   listed, clientTaskIds, stored, posted, mainVars,
                   history>>

-----------------------------------------------------------------------------
(***************************************************************************)
(* The client threads                                                      *)
(***************************************************************************)

\* A DATA_PACKET arrives and its INSERT succeeds, or fails and nothing more
\* happens.
processForensicData(c) ==
    LET d == Head(inbox[c])
    IN  /\ thread[c] = "recv"
        /\ inbox[c] # <<>>
        /\ inbox' = [inbox EXCEPT ![c] = Tail(@)]
        /\ \/ /\ stored' = [stored EXCEPT ![d.task] = @ \cup {d.module}]
              /\ thread' = [thread EXCEPT ![c] = "inserted"]
              /\ job' = [job EXCEPT ![c] = d]
           \/ UNCHANGED <<stored, thread, job>>
        /\ UNCHANGED <<agentVars, doomed, listed, clientTaskIds, posted, mainVars,
                       history>>

\* storeForensicData emits forensicDataStored, which is queued.
emitForensicDataStored(c) ==
    /\ thread[c] = "inserted"
    /\ Post("stored", job[c].task)
    /\ thread' = [thread EXCEPT ![c] = "emitted"]
    /\ UNCHANGED <<agentVars, inbox, job, doomed, listed, clientTaskIds, stored,
                   mainVars, history>>

\* Mutant: the count leaves the module just stored to the next call.
countModulesTooEarly(c) ==
    LET t == job[c].task
    IN  /\ thread[c] = "emitted"
        /\ IF stored[t] \ {job[c].module} = Module
           THEN Post("complete", t) /\ UNCHANGED missed
           ELSE UNCHANGED <<posted, missed>>
        /\ thread' = [thread EXCEPT ![c] = "counted"]
        /\ UNCHANGED <<agentVars, inbox, job, doomed, listed, clientTaskIds, stored,
                       mainVars, accepted, superseded>>

\* Mutant: one module fewer is enough.
countModulesOneShort(c) ==
    LET t == job[c].task
    IN  /\ thread[c] = "emitted"
        /\ IF \E m \in Module : Module \ {m} \subseteq stored[t]
           THEN Post("complete", t) /\ UNCHANGED missed
           ELSE UNCHANGED <<posted, missed>>
        /\ thread' = [thread EXCEPT ![c] = "counted"]
        /\ UNCHANGED <<agentVars, inbox, job, doomed, listed, clientTaskIds, stored,
                       mainVars, accepted, superseded>>

\* storeForensicData counts the task's modules and emits
\* taskCompletionNotification, queued as well, when it finds all of them.  A
\* SELECT that fails counts none.
countModules(c) ==
    LET t == job[c].task
    IN  /\ thread[c] = "emitted"
        /\ \/ /\ getMissingModulesForTask(t) # {}
              /\ UNCHANGED <<posted, missed>>
           \/ /\ getMissingModulesForTask(t) = {}
              /\ \/ Post("complete", t) /\ UNCHANGED missed
                 \/ missed' = missed \cup {t} /\ UNCHANGED posted
        /\ thread' = [thread EXCEPT ![c] = "counted"]
        /\ UNCHANGED <<agentVars, inbox, job, doomed, listed, clientTaskIds, stored,
                       mainVars, accepted, superseded>>

\* processForensicData calls notifyTaskComplete itself, on its own thread,
\* whatever module it has just stored.
notifyTaskCompleteDirectly(c) ==
    /\ thread[c] = "counted"
    /\ thread' = [thread EXCEPT ![c] = "recv"]
    /\ job' = [job EXCEPT ![c] = NoTask]
    /\ UNCHANGED <<agentVars, inbox, doomed, listed, clientTaskIds, stored, posted,
                   mainVars, history>>

\* recv fails after the last message.
handleClientDisconnect(c) ==
    /\ thread[c] = "recv"
    /\ inbox[c] = <<>>
    /\ agentConn # c
    /\ thread' = [thread EXCEPT ![c] = "closing"]
    /\ UNCHANGED <<agentVars, inbox, job, doomed, listed, clientTaskIds, stored,
                   posted, mainVars, history>>

\* Mutant: the cleanup does not look at the task whose id it clears.
cleanupClientForgets(c) ==
    /\ thread[c] = "closing"
    /\ clientsMutexFree
    /\ listed' = IF listed = c THEN NoConn ELSE listed
    /\ doomed' = doomed
    /\ thread' = [thread EXCEPT ![c] = "failing"]
    /\ UNCHANGED <<agentVars, inbox, job, clientTaskIds, stored, posted, mainVars,
                   history>>

\* cleanupClient takes the connection off the list and looks whether the
\* PC's current task misses modules: it does, and all of them, when the SELECT
\* fails ...
cleanupClient(c) ==
    /\ thread[c] = "closing"
    /\ clientsMutexFree
    /\ listed' = IF listed = c THEN NoConn ELSE listed
    /\ \/ doomed' = [doomed EXCEPT ![c] = clientTaskIds]
       \/ /\ clientTaskIds # NoRequest => getMissingModulesForTask(TaskOf[clientTaskIds]) = {}
          /\ doomed' = [doomed EXCEPT ![c] = NoRequest]
    /\ thread' = [thread EXCEPT ![c] = "failing"]
    /\ UNCHANGED <<agentVars, inbox, job, clientTaskIds, stored, posted, mainVars,
                   history>>

\* ... posts its failure, and clears the PC's task id.
cleanupClientFailsTask(c) ==
    /\ thread[c] = "failing"
    /\ IF doomed[c] # NoRequest THEN Post("failed", doomed[c]) ELSE UNCHANGED posted
    /\ clientTaskIds' = NoRequest
    /\ doomed' = [doomed EXCEPT ![c] = NoRequest]
    /\ thread' = [thread EXCEPT ![c] = "done"]
    /\ UNCHANGED <<agentVars, inbox, job, listed, stored, mainVars, history>>

-----------------------------------------------------------------------------
(***************************************************************************)
(* The main thread                                                         *)
(***************************************************************************)

\* HTTP inspect request r, which was not accepted yet: its task goes to the
\* listed connection and the status of its id is "running".  The id may be in
\* use, or have modules in the database: nothing looks.  With the agent gone the
\* send may fail, which clears the task id, or succeed all the same.
handleInspectRequest(r, sent) ==
    /\ r \notin accepted
    /\ listed # NoConn
    /\ clientsMutexFree
    /\ listed = agentConn => sent
    /\ superseded' = IF clientTaskIds = NoRequest THEN superseded
                     ELSE superseded \cup {clientTaskIds}
    /\ clientTaskIds' = IF sent THEN r ELSE NoRequest
    /\ requests' = IF listed = agentConn THEN Append(requests, TaskOf[r]) ELSE requests
    /\ accepted' = IF sent THEN accepted \cup {r} ELSE accepted
    /\ taskStatuses' = IF sent THEN [taskStatuses EXCEPT ![TaskOf[r]] = "running"]
                               ELSE taskStatuses
    /\ UNCHANGED <<agentConn, running, module, inbox, thread, job, doomed, listed,
                   stored, posted, completeNotices, failNotices, missed>>

\* The next event of the queue, with all the slots it is connected to.
NextEvent(what) == posted # <<>> /\ Head(posted).what = what /\ posted' = Tail(posted)

onForensicDataStored ==
    LET t == Head(posted).about
    IN  /\ NextEvent("stored")
        /\ taskStatuses' = IF taskStatuses[t] = "unknown" THEN taskStatuses
                           ELSE [taskStatuses EXCEPT ![t] = "completed"]
        /\ UNCHANGED <<agentVars, inbox, thread, job, doomed, listed, clientTaskIds,
                       stored, completeNotices, failNotices, history>>

onTaskCompletionNotification ==
    LET t == Head(posted).about
    IN  /\ NextEvent("complete")
        /\ completeNotices' = [completeNotices EXCEPT ![t] = @ + 1]
        /\ UNCHANGED <<agentVars, inbox, thread, job, doomed, listed, clientTaskIds,
                       stored, taskStatuses, failNotices, history>>

notifyTaskFailureForMissingModules ==
    LET r == Head(posted).about
    IN  /\ NextEvent("failed")
        /\ failNotices' = [failNotices EXCEPT ![r] = @ + 1]
        /\ taskStatuses' = [taskStatuses EXCEPT ![TaskOf[r]] = "failed"]
        /\ UNCHANGED <<agentVars, inbox, thread, job, doomed, listed, clientTaskIds,
                       stored, completeNotices, history>>

-----------------------------------------------------------------------------
AgentRuns ==
    \/ handleTaskRequest
    \/ \E sent \in BOOLEAN : executeCollection(sent)
    \/ handleTaskExecutionEnds

ThreadStep(c) ==
    \/ processForensicData(c)
    \/ emitForensicDataStored(c)
    \/ countModules(c)
    \/ notifyTaskCompleteDirectly(c)
    \/ handleClientDisconnect(c)
    \/ cleanupClient(c)
    \/ cleanupClientFailsTask(c)

MainEvent ==
    \/ onForensicDataStored
    \/ onTaskCompletionNotification
    \/ notifyTaskFailureForMissingModules

Next ==
    \/ \E c \in Conn : AgentRegisters(c)
    \/ AgentDisconnects
    \/ AgentStops
    \/ AgentRuns
    \/ \E c \in Conn : ThreadStep(c)
    \/ \E r \in Request, sent \in BOOLEAN : handleInspectRequest(r, sent)
    \/ MainEvent

Spec == Init /\ [][Next]_vars

\* The agent's collection is one synchronous loop, the client threads are
\* scheduled by the OS, and the main thread's event loop takes the next event
\* as long as there is one.  Nothing makes an agent (re)connect, a connection
\* break or an inspect request come.
Fairness ==
    /\ WF_vars(AgentRuns)
    /\ \A c \in Conn : WF_vars(ThreadStep(c))
    /\ WF_vars(MainEvent)

FairSpec == Spec /\ Fairness

-----------------------------------------------------------------------------
(***************************************************************************)
(* Properties                                                              *)
(***************************************************************************)

Queued(what, x) == \E i \in DOMAIN posted : posted[i] = [what |-> what, about |-> x]

\* The completion notice that storeForensicData triggers never leaves before
\* all modules of the task are in the database, although it is sent by
\* another thread than the one that counted.
NoticeMeansStored ==
    \A t \in Task : completeNotices[t] > 0 \/ Queued("complete", t)
                        => getMissingModulesForTask(t) = {}

\* At most one accepted request names task id t.
Once(t) == \A r, q \in accepted : TaskOf[r] = t /\ TaskOf[q] = t => r = q

\* The backend gets that notice once: no two threads both store the task's
\* last module, because an agent finishes a task before it reconnects.  (Not so
\* for an id that is used again: its old rows complete every further module.)
CompletedOnce == \A t \in Task : Once(t) => completeNotices[t] <= 1

\* No task is lost on the way: one with all its modules stored was told of, or
\* the notice is queued, or a thread has yet to count it, or a failing SELECT
\* missed it.  Of any other each request that was sent runs on a connection that
\* will be cleaned up, or a later one took its place, or its failure is queued
\* or was told.
NoTaskLost ==
    /\ \A t \in Task : getMissingModulesForTask(t) = {} =>
           \/ completeNotices[t] > 0
           \/ Queued("complete", t)
           \/ \E c \in Conn : thread[c] \in {"inserted", "emitted"} /\ job[c].task = t
           \/ t \in missed
    /\ \A r \in accepted : getMissingModulesForTask(TaskOf[r]) # {} =>
           \/ clientTaskIds = r /\ \E c \in Conn : thread[c] \notin {"free", "done"}
           \/ r \in superseded
           \/ failNotices[r] > 0 \/ Queued("failed", r)

\* A task with all its modules stored is reported as complete in the end,
\* whatever happens to the connection afterwards, unless the SELECT that counts
\* them fails: nothing counts them again.
StoredIsReported ==
    \A t \in Task :
        getMissingModulesForTask(t) = {} ~> completeNotices[t] > 0 \/ t \in missed

\* A running request whose agent is gone gets a verdict: the backend hears of
\* its failure or of its task's completion, unless a later request took its
\* place or a failing SELECT missed the completion.
GoneTaskSettles ==
    \A r \in Request :
        clientTaskIds = r /\ agentConn = NoConn
            ~> \/ failNotices[r] > 0
               \/ completeNotices[TaskOf[r]] > 0
               \/ r \in superseded
               \/ TaskOf[r] \in missed

=============================================================================
