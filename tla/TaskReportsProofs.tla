--------------------------- MODULE TaskReportsProofs ---------------------------
(***************************************************************************)
(* Proofs about TaskReports, for any tasks, connections and number of      *)
(* modules: a completion notice means that all modules are stored, and     *)
(* leaves once.                                                            *)
(***************************************************************************)
EXTENDS TaskReports, TLAPS

-----------------------------------------------------------------------------
(***************************************************************************)
(* The inductive invariant                                                 *)
(***************************************************************************)

\* A thread that has a module in hand.
Busy(c) == thread[c] \in {"inserted", "emitted", "counted"}

\* A connection that has a module of a task still to handle.
Carries(c, t) ==
    \/ \E i \in DOMAIN inbox[c] : inbox[c][i].task = t
    \/ Busy(c) /\ job[c].task = t

\* Nothing has been done about a task.
Untouched(t) == running # t /\ stored[t] = {} /\ \A c \in Conn : ~Carries(c, t)

\* No accepted request names task id t.
Fresh(t) == \A r \in accepted : TaskOf[r] # t

\* A task that was not requested, or that the agent has not looked at.
FreshUntouched == \A t \in Task : Fresh(t) => Untouched(t)
Requested(t) == \E i \in DOMAIN requests : requests[i] = t
RequestsUntouched ==
    /\ \A t \in Task : Requested(t) => ~Fresh(t) /\ (Once(t) => Untouched(t))
    /\ \A i, j \in DOMAIN requests :
          Once(requests[i]) /\ requests[i] = requests[j] => i = j

\* An agent finishes a task before it reconnects: a task that was requested
\* once has one connection.
OneCarrier ==
    \A t \in Task : Once(t) => \A c, d \in Conn : Carries(c, t) /\ Carries(d, t) => c = d
CarriedByAgent ==
    running # NoTask /\ Once(running) /\ agentConn # NoConn =>
        \A c \in Conn : Carries(c, running) => c = agentConn

\* The modules of a task are sent, received and stored in the agent's order.
InOrder ==
    \A c \in Conn : \A i, j \in DOMAIN inbox[c] :
        Once(inbox[c][i].task) /\ i < j /\ inbox[c][i].task = inbox[c][j].task
            => inbox[c][i].module < inbox[c][j].module
BehindStored ==
    \A c \in Conn : \A i \in DOMAIN inbox[c] : Once(inbox[c][i].task) =>
        \A m \in stored[inbox[c][i].task] : m < inbox[c][i].module
NotYetSent ==
    running # NoTask /\ Once(running) =>
        /\ \A m \in stored[running] : m < module
        /\ \A c \in Conn : \A i \in DOMAIN inbox[c] :
              inbox[c][i].task = running => inbox[c][i].module < module

FlowInv ==
    /\ FreshUntouched /\ RequestsUntouched
    /\ OneCarrier /\ CarriedByAgent
    /\ InOrder /\ BehindStored /\ NotYetSent

\* Once a task was counted as complete, nobody else will count it.
Noticed(t) == completeNotices[t] > 0 \/ Queued("complete", t)
NobodyCounts ==
    \A t \in Task : Once(t) /\ Noticed(t) =>
        \A c \in Conn : thread[c] \in {"inserted", "emitted"} => job[c].task # t
OnePlace(t) ==
    \A i, j \in DOMAIN posted :
        posted[i] = posted[j] /\ posted[i] = [what |-> "complete", about |-> t] => i = j
QueuedOnce ==
    \A t \in Task : Once(t) => OnePlace(t) /\ (Queued("complete", t) => completeNotices[t] = 0)

CountInv == NobodyCounts /\ QueuedOnce /\ CompletedOnce

IInv == TypeOK /\ NoticeMeansStored /\ FlowInv /\ CountInv

-----------------------------------------------------------------------------
(***************************************************************************)
(* Sequences                                                               *)
(***************************************************************************)

\* What Append adds.
LEMMA Appended ==
    ASSUME NEW S, NEW s \in Seq(S), NEW e \in S
    PROVE  /\ Append(s, e) \in Seq(S)
           /\ DOMAIN s = 1 .. Len(s) /\ Len(s) \in Nat
           /\ DOMAIN Append(s, e) = 1 .. Len(s) + 1
           /\ \A i \in DOMAIN s : Append(s, e)[i] = s[i]
           /\ Append(s, e)[Len(s) + 1] = e
OBVIOUS

\* What Head and Tail leave.
LEMMA TailTaken ==
    ASSUME NEW S, NEW s \in Seq(S), s # <<>>
    PROVE  /\ Tail(s) \in Seq(S)
           /\ Head(s) \in S /\ Head(s) = s[1] /\ 1 \in DOMAIN s
           /\ \A i \in DOMAIN Tail(s) :
                 i \in Nat /\ i + 1 \in DOMAIN s /\ i + 1 # 1 /\ Tail(s)[i] = s[i + 1]
OBVIOUS

-----------------------------------------------------------------------------
(***************************************************************************)
(* Types                                                                   *)
(***************************************************************************)

\* An event can be queued.
LEMMA PostTyped ==
    ASSUME posted \in Seq(Event), NEW what, NEW x, [what |-> what, about |-> x] \in Event,
           Post(what, x)
    PROVE  posted' \in Seq(Event)
BY Appended DEF Post

\* The next event is one of a task or of a request.
LEMMA NextTyped ==
    ASSUME posted \in Seq(Event), NEW what, NextEvent(what)
    PROVE  /\ posted' \in Seq(Event)
           /\ what \in {"stored", "complete"} => Head(posted).about \in Task
           /\ what = "failed" => Head(posted).about \in Request
<1>1. posted' \in Seq(Event) /\ Head(posted) \in Event /\ Head(posted).what = what
  BY TailTaken DEF NextEvent
<1> QED  BY <1>1 DEF Event

\* The invariant of types holds at the beginning.
LEMMA InitTypeOK == Init => TypeOK
<1> SUFFICES ASSUME Init PROVE TypeOK  OBVIOUS
<1>1. module \in 1 .. ModuleCount + 1
  BY ModuleCountAssumption DEF Init
<1>2. \A c \in Conn : job[c] \notin Message /\ thread[c] = "free"
  BY NoneAssumption DEF Init
<1> QED  BY <1>1, <1>2 DEF Init, TypeOK

\* Every step of the agent keeps the types.
LEMMA AgentTypeOK ==
    ASSUME TypeOK,
           \/ \E c \in Conn : AgentRegisters(c)
           \/ AgentDisconnects \/ AgentStops \/ AgentRuns
    PROVE  TypeOK'
<1>1. ASSUME NEW c \in Conn, AgentRegisters(c) PROVE TypeOK'
  BY <1>1 DEF AgentRegisters, TypeOK, mainVars, history
<1>2. CASE AgentDisconnects
  BY <1>2 DEF AgentDisconnects, TypeOK, mainVars, history
<1>3. CASE AgentStops
  BY <1>3 DEF AgentStops, TypeOK, mainVars, history
<1>4. CASE handleTaskRequest
  <2>1. Head(requests) \in Task /\ Tail(requests) \in Seq(Task) /\ 1 \in 1 .. ModuleCount + 1
    BY <1>4, TailTaken, ModuleCountAssumption DEF handleTaskRequest, TypeOK
  <2> QED  BY <1>4, <2>1 DEF handleTaskRequest, TypeOK, mainVars, history
<1>5. ASSUME NEW sent \in BOOLEAN, executeCollection(sent) PROVE TypeOK'
  <2>1. module' \in 1 .. ModuleCount + 1 /\ module \in Module /\ running \in Task
    BY <1>5, ModuleCountAssumption DEF executeCollection, TypeOK, Module
  <2>2. inbox' \in [Conn -> Seq(Message)]
    <3>1. inbox \in [Conn -> Seq(Message)] /\ agentConn \in Conn \cup {NoConn}
      BY DEF TypeOK
    <3>2. CASE inbox' = inbox
      BY <3>1, <3>2
    <3>3. CASE /\ agentConn \in Conn
               /\ inbox' = [inbox EXCEPT ![agentConn] =
                               Append(@, [task |-> running, module |-> module])]
      <4>1. [task |-> running, module |-> module] \in Message
        BY <2>1 DEF Message
      <4>2. Append(inbox[agentConn], [task |-> running, module |-> module]) \in Seq(Message)
        BY <3>1, <3>3, <4>1, Appended
      <4> QED  BY <3>1, <3>3, <4>2
    <3> QED  BY <1>5, <3>1, <3>2, <3>3 DEF executeCollection
  <2> QED  BY <1>5, <2>1, <2>2 DEF executeCollection, TypeOK, mainVars, history
<1>6. CASE handleTaskExecutionEnds
  BY <1>6 DEF handleTaskExecutionEnds, TypeOK, mainVars, history
<1> QED  BY <1>1, <1>2, <1>3, <1>4, <1>5, <1>6 DEF AgentRuns

\* Every step of a client thread keeps the types.
LEMMA ThreadTypeOK ==
    ASSUME TypeOK, NEW c \in Conn, ThreadStep(c)
    PROVE  TypeOK'
<1>1. CASE processForensicData(c)
  <2>1. /\ inbox[c] \in Seq(Message) /\ inbox[c] # <<>>
        /\ stored \in [Task -> SUBSET Module] /\ inbox \in [Conn -> Seq(Message)]
    BY <1>1 DEF processForensicData, TypeOK
  <2>2. /\ Head(inbox[c]) \in Message /\ Tail(inbox[c]) \in Seq(Message)
        /\ Head(inbox[c]).task \in Task /\ Head(inbox[c]).module \in Module
    <3>1. Head(inbox[c]) \in Message /\ Tail(inbox[c]) \in Seq(Message)
      BY <2>1, TailTaken
    <3> QED  BY <3>1 DEF Message
  <2>3. inbox' \in [Conn -> Seq(Message)]
    BY <1>1, <2>1, <2>2 DEF processForensicData
  <2>4. CASE UNCHANGED <<stored, thread, job>>
    BY <1>1, <2>3, <2>4 DEF processForensicData, TypeOK, agentVars, mainVars, history
  <2>5. CASE /\ stored' = [stored EXCEPT ![Head(inbox[c]).task] = @ \cup {Head(inbox[c]).module}]
             /\ thread' = [thread EXCEPT ![c] = "inserted"]
             /\ job' = [job EXCEPT ![c] = Head(inbox[c])]
    <3>1. stored' \in [Task -> SUBSET Module]
      BY <2>1, <2>2, <2>5
    <3> QED
      BY <1>1, <2>2, <2>3, <2>5, <3>1 DEF processForensicData, TypeOK, agentVars, mainVars, history
  <2> QED  BY <1>1, <2>4, <2>5 DEF processForensicData
<1>2. CASE emitForensicDataStored(c)
  <2>1. [what |-> "stored", about |-> job[c].task] \in Event
    BY <1>2 DEF emitForensicDataStored, TypeOK, Message, Event
  <2>2. posted' \in Seq(Event)
    BY <1>2, <2>1, PostTyped DEF emitForensicDataStored, TypeOK
  <2> QED  BY <1>2, <2>2 DEF emitForensicDataStored, TypeOK, agentVars, mainVars, history
<1>3. CASE countModules(c)
  <2>1. job[c].task \in Task /\ [what |-> "complete", about |-> job[c].task] \in Event
    BY <1>3 DEF countModules, TypeOK, Message, Event
  <2>2. posted' \in Seq(Event) /\ missed' \in SUBSET Task
    BY <1>3, <2>1, PostTyped DEF countModules, TypeOK
  <2> QED  BY <1>3, <2>2 DEF countModules, TypeOK, agentVars, mainVars
<1>4. CASE notifyTaskCompleteDirectly(c)
  BY <1>4, NoneAssumption DEF notifyTaskCompleteDirectly, TypeOK, agentVars, mainVars, history
<1>5. CASE handleClientDisconnect(c)
  BY <1>5 DEF handleClientDisconnect, TypeOK, agentVars, mainVars, history
<1>6. CASE cleanupClient(c)
  BY <1>6 DEF cleanupClient, TypeOK, agentVars, mainVars, history
<1>7. CASE cleanupClientFailsTask(c)
  <2>1. doomed[c] \in Request \cup {NoRequest}
    BY DEF TypeOK
  <2>2. doomed[c] # NoRequest => [what |-> "failed", about |-> doomed[c]] \in Event
    BY <2>1 DEF Event
  <2>3. posted' \in Seq(Event)
    BY <1>7, <2>2, PostTyped DEF cleanupClientFailsTask, TypeOK
  <2> QED  BY <1>7, <2>3 DEF cleanupClientFailsTask, TypeOK, agentVars, mainVars, history
<1> QED  BY <1>1, <1>2, <1>3, <1>4, <1>5, <1>6, <1>7 DEF ThreadStep

\* Every step of the main thread keeps the types.
LEMMA MainTypeOK ==
    ASSUME TypeOK,
           \/ \E r \in Request, sent \in BOOLEAN : handleInspectRequest(r, sent)
           \/ MainEvent
    PROVE  TypeOK'
<1>1. ASSUME NEW r \in Request, NEW sent \in BOOLEAN, handleInspectRequest(r, sent) PROVE TypeOK'
  <2>1. TaskOf[r] \in Task
    BY TaskOfAssumption
  <2>2. requests' \in Seq(Task)
    BY <1>1, <2>1, Appended DEF handleInspectRequest, TypeOK
  <2>3. superseded' \in SUBSET Request /\ accepted' \in SUBSET Request
    BY <1>1 DEF handleInspectRequest, TypeOK
  <2>4. taskStatuses' \in [Task -> {"unknown", "running", "completed", "failed"}]
    BY <1>1, <2>1 DEF handleInspectRequest, TypeOK
  <2> QED  BY <1>1, <2>2, <2>3, <2>4 DEF handleInspectRequest, TypeOK
<1>2. CASE onForensicDataStored
  <2>1. posted' \in Seq(Event) /\ Head(posted).about \in Task
    BY <1>2, NextTyped DEF onForensicDataStored, TypeOK
  <2> QED  BY <1>2, <2>1 DEF onForensicDataStored, TypeOK, agentVars, history
<1>3. CASE onTaskCompletionNotification
  <2>1. posted' \in Seq(Event) /\ Head(posted).about \in Task
    BY <1>3, NextTyped DEF onTaskCompletionNotification, TypeOK
  <2>2. completeNotices' \in [Task -> Nat]
    BY <1>3, <2>1 DEF onTaskCompletionNotification, TypeOK
  <2>3. /\ UNCHANGED <<agentConn, requests, running, module>>
        /\ UNCHANGED <<inbox, thread, job, doomed, listed, clientTaskIds, stored>>
        /\ UNCHANGED <<taskStatuses, failNotices, accepted, missed, superseded>>
    BY <1>3 DEF onTaskCompletionNotification, agentVars, history
  <2> QED  BY <2>1, <2>2, <2>3 DEF TypeOK
<1>4. CASE notifyTaskFailureForMissingModules
  <2>1. posted' \in Seq(Event) /\ Head(posted).about \in Request
    BY <1>4, NextTyped DEF notifyTaskFailureForMissingModules, TypeOK
  <2>2. failNotices' \in [Request -> Nat]
    BY <1>4, <2>1 DEF notifyTaskFailureForMissingModules, TypeOK
  <2>3. taskStatuses' \in [Task -> {"unknown", "running", "completed", "failed"}]
    BY <1>4, <2>1, TaskOfAssumption DEF notifyTaskFailureForMissingModules, TypeOK
  <2>4. /\ UNCHANGED <<agentConn, requests, running, module>>
        /\ UNCHANGED <<inbox, thread, job, doomed, listed, clientTaskIds, stored>>
        /\ UNCHANGED <<completeNotices, accepted, missed, superseded>>
    BY <1>4 DEF notifyTaskFailureForMissingModules, agentVars, history
  <2> QED
    BY <2>1, <2>2, <2>3, <2>4 DEF TypeOK
<1> QED  BY <1>1, <1>2, <1>3, <1>4 DEF MainEvent

LEMMA NextTypeOK == TypeOK /\ [Next]_vars => TypeOK'
<1> SUFFICES ASSUME TypeOK, [Next]_vars PROVE TypeOK'  OBVIOUS
<1>1. CASE UNCHANGED vars
  <2>1. /\ UNCHANGED <<inbox, thread, job, doomed, listed, clientTaskIds, stored, posted>>
        /\ UNCHANGED agentVars /\ UNCHANGED mainVars /\ UNCHANGED history
    BY <1>1 DEF vars
  <2>2. /\ UNCHANGED <<agentConn, requests, running, module>>
        /\ UNCHANGED <<taskStatuses, completeNotices, failNotices>>
        /\ UNCHANGED <<accepted, missed, superseded>>
    BY <2>1 DEF agentVars, mainVars, history
  <2> QED  BY <2>1, <2>2 DEF TypeOK
<1> QED  BY <1>1, AgentTypeOK, ThreadTypeOK, MainTypeOK DEF Next

\* Every variable keeps its type, and a thread has a module in hand exactly
\* while it handles one.
THEOREM Spec_TypeOK == Spec => []TypeOK
BY InitTypeOK, NextTypeOK, PTL DEF Spec

-----------------------------------------------------------------------------
(***************************************************************************)
(* The main thread's queue                                                 *)
(***************************************************************************)

\* An event that is queued is the last one.
LEMMA EventPosted ==
    ASSUME TypeOK, NEW u, NEW what, [what |-> what, about |-> u] \in Event, Post(what, u),
           NEW t \in Task
    PROVE  /\ Queued("complete", t)' => Queued("complete", t) \/ (what = "complete" /\ u = t)
           /\ OnePlace(t) /\ ~(what = "complete" /\ u = t /\ Queued("complete", t))
                 => OnePlace(t)'
<1> DEFINE e == [what |-> what, about |-> u]
           n == Len(posted) + 1
<1>1. e \in Event /\ posted \in Seq(Event)
  BY DEF TypeOK
<1>2. /\ posted' = Append(posted, e)
      /\ DOMAIN posted = 1 .. Len(posted) /\ Len(posted) \in Nat
      /\ DOMAIN posted' = 1 .. n
      /\ \A i \in DOMAIN posted : posted'[i] = posted[i]
      /\ posted'[n] = e
  BY <1>1, Appended DEF Post
<1>3. \A i \in DOMAIN posted' : i \in DOMAIN posted \/ i = n
  BY <1>2
<1> HIDE DEF e, n
<1>4. e = [what |-> "complete", about |-> t] => what = "complete" /\ u = t
  BY DEF e
<1>5. Queued("complete", t)' => Queued("complete", t) \/ (what = "complete" /\ u = t)
  BY <1>2, <1>3, <1>4 DEF Queued
<1>6. ASSUME OnePlace(t), ~(what = "complete" /\ u = t /\ Queued("complete", t)),
             NEW i \in DOMAIN posted', NEW j \in DOMAIN posted',
             posted'[i] = posted'[j], posted'[i] = [what |-> "complete", about |-> t]
      PROVE  i = j
  <2>1. CASE i \in DOMAIN posted /\ j \in DOMAIN posted
    BY <1>2, <1>6, <2>1 DEF OnePlace
  <2>2. CASE i = n /\ j \in DOMAIN posted
    BY <1>2, <1>4, <1>6, <2>2 DEF Queued
  <2>3. CASE j = n /\ i \in DOMAIN posted
    BY <1>2, <1>4, <1>6, <2>3 DEF Queued
  <2> QED  BY <1>3, <2>1, <2>2, <2>3
<1> QED  BY <1>5, <1>6 DEF OnePlace

\* The event that is taken was the first one.
LEMMA EventTaken ==
    ASSUME TypeOK, NEW what, NextEvent(what), NEW t \in Task
    PROVE  /\ Queued("complete", t)' => Queued("complete", t)
           /\ OnePlace(t) => OnePlace(t)'
           /\ what = "complete" /\ t = Head(posted).about
                 => Queued("complete", t) /\ (OnePlace(t) => ~Queued("complete", t)')
<1>1. posted \in Seq(Event) /\ posted # <<>> /\ posted' = Tail(posted)
      /\ Head(posted).what = what
  BY DEF TypeOK, NextEvent
<1>2. /\ Head(posted) \in Event /\ Head(posted) = posted[1] /\ 1 \in DOMAIN posted
      /\ \A i \in DOMAIN posted' :
            i \in Nat /\ i + 1 \in DOMAIN posted /\ i + 1 # 1 /\ posted'[i] = posted[i + 1]
  BY <1>1, TailTaken
<1>3. Queued("complete", t)' => Queued("complete", t)
  BY <1>2 DEF Queued
<1>4. ASSUME OnePlace(t), NEW i \in DOMAIN posted', NEW j \in DOMAIN posted',
             posted'[i] = posted'[j], posted'[i] = [what |-> "complete", about |-> t]
      PROVE  i = j
  <2>1. /\ i + 1 \in DOMAIN posted /\ j + 1 \in DOMAIN posted
        /\ posted[i + 1] = posted[j + 1]
        /\ posted[i + 1] = [what |-> "complete", about |-> t]
    BY <1>2, <1>4
  <2>2. i + 1 = j + 1
    BY <1>4, <2>1 DEF OnePlace
  <2> QED  BY <1>2, <2>2
<1>5. ASSUME what = "complete", t = Head(posted).about
      PROVE  Queued("complete", t) /\ (OnePlace(t) => ~Queued("complete", t)')
  <2>1. posted[1] = [what |-> "complete", about |-> t]
    BY <1>1, <1>2, <1>5 DEF Event
  <2>2. ASSUME OnePlace(t) PROVE ~Queued("complete", t)'
    BY <1>2, <2>1, <2>2 DEF Queued, OnePlace
  <2> QED  BY <1>2, <2>1, <2>2 DEF Queued
<1> QED  BY <1>3, <1>4, <1>5 DEF OnePlace

-----------------------------------------------------------------------------
(***************************************************************************)
(* The way of the modules                                                  *)
(***************************************************************************)

\* What waits on a connection.
LEMMA InboxTyped ==
    ASSUME TypeOK, NEW c \in Conn, NEW i \in DOMAIN inbox[c]
    PROVE  /\ inbox[c][i] \in Message
           /\ inbox[c][i].task \in Task
           /\ inbox[c][i].module \in Module /\ inbox[c][i].module \in Nat
<1>1. inbox[c] \in Seq(Message)
  BY DEF TypeOK
<1>2. inbox[c][i] \in Message
  BY <1>1
<1> QED  BY <1>2, ModuleCountAssumption DEF Message, Module

LEMMA InitFlow == Init => FlowInv
<1> SUFFICES ASSUME Init PROVE FlowInv  OBVIOUS
<1>1. /\ \A c \in Conn : inbox[c] = <<>> /\ thread[c] = "free"
      /\ \A t \in Task : stored[t] = {} /\ t # running
      /\ running = NoTask /\ requests = <<>>
  BY NoneAssumption DEF Init
<1>2. \A c \in Conn : ~Busy(c)
  BY <1>1 DEF Busy
<1>3. DOMAIN requests = {} /\ \A c \in Conn : DOMAIN inbox[c] = {}
  <2>1. DOMAIN <<>> = {}
    OBVIOUS
  <2> QED  BY <1>1, <2>1
<1>4. \A c \in Conn : \A t \in Task : ~Carries(c, t)
  BY <1>2, <1>3 DEF Carries
<1> QED
  BY <1>1, <1>3, <1>4 DEF FlowInv, FreshUntouched, RequestsUntouched, Requested, Untouched,
     OneCarrier, CarriedByAgent, InOrder, BehindStored, NotYetSent

\* Threads that put a module aside, an agent that stops or (re)connects between
\* tasks, requests that are lost and statuses that change leave the modules'
\* way as it is.
LEMMA FlowShrinks ==
    ASSUME TypeOK, FlowInv,
           UNCHANGED <<inbox, stored, module>>,
           \A c \in Conn : Busy(c)' => Busy(c) /\ job'[c] = job[c],
           UNCHANGED accepted,
           requests' = requests \/ requests' = <<>>,
           running' = running \/ running' = NoTask,
           running' = NoTask \/ agentConn' = agentConn \/ agentConn' = NoConn
    PROVE  FlowInv'
<1> USE DEF FlowInv
<1>1. \A c \in Conn, t \in Task : Carries(c, t)' => Carries(c, t)
  BY DEF Carries
<1>2. \A t \in Task : Untouched(t) => Untouched(t)'
  BY <1>1, NoneAssumption DEF Untouched
<1>3. \A t : (Once(t)' <=> Once(t)) /\ (Fresh(t)' <=> Fresh(t))
  BY DEF Once, Fresh
<1>4. FreshUntouched'
  BY <1>2, <1>3 DEF FreshUntouched
<1>5. RequestsUntouched'
  <2>1. CASE requests' = requests
    BY <1>2, <1>3, <2>1 DEF RequestsUntouched, Requested
  <2>2. CASE requests' = <<>>
    BY <2>2 DEF RequestsUntouched, Requested
  <2> QED  BY <2>1, <2>2
<1>6. OneCarrier'
  BY <1>1, <1>3 DEF OneCarrier
<1>7. CarriedByAgent'
  BY <1>1, <1>3 DEF CarriedByAgent, TypeOK
<1>8. InOrder' /\ BehindStored' /\ NotYetSent'
  BY <1>3 DEF InOrder, BehindStored, NotYetSent
<1> QED  BY <1>4, <1>5, <1>6, <1>7, <1>8

\* The agent takes a task, which nobody has touched if it was requested once.
LEMMA FlowTaken == TypeOK /\ FlowInv /\ handleTaskRequest => FlowInv'
<1> SUFFICES ASSUME TypeOK, FlowInv, handleTaskRequest, NEW t, t = Head(requests)
             PROVE  FlowInv'
  OBVIOUS
<1> USE DEF FlowInv
<1>1. /\ requests \in Seq(Task) /\ running = NoTask /\ requests # <<>>
      /\ running' = t /\ requests' = Tail(requests)
      /\ UNCHANGED <<agentConn, inbox, thread, job, stored, accepted>>
  BY DEF TypeOK, handleTaskRequest, history
<1>2. /\ t \in Task /\ t = requests[1] /\ 1 \in DOMAIN requests
      /\ \A i \in DOMAIN requests' :
            i \in Nat /\ i + 1 \in DOMAIN requests /\ i + 1 # 1 /\ requests'[i] = requests[i + 1]
  BY <1>1, TailTaken
<1>3. ~Fresh(t) /\ (Once(t) => Untouched(t))
  BY <1>2 DEF RequestsUntouched, Requested
<1>4. \A c \in Conn, u \in Task : Carries(c, u)' <=> Carries(c, u)
  BY <1>1 DEF Carries, Busy
<1>5. \A u \in Task : u # t /\ Untouched(u) => Untouched(u)'
  BY <1>1, <1>4 DEF Untouched
<1>6. \A u : (Once(u)' <=> Once(u)) /\ (Fresh(u)' <=> Fresh(u))
  BY <1>1 DEF Once, Fresh
<1>7. FreshUntouched'
  BY <1>3, <1>5, <1>6 DEF FreshUntouched
<1>8. RequestsUntouched'
  <2>1. ASSUME NEW u \in Task, Requested(u)'
        PROVE  ~Fresh(u) /\ (Once(u) => Untouched(u)')
    <3>1. PICK i \in DOMAIN requests' : requests'[i] = u
      BY <2>1 DEF Requested
    <3>2. i + 1 \in DOMAIN requests /\ i + 1 # 1 /\ u = requests[i + 1]
      BY <1>2, <3>1
    <3>3. ~Fresh(u) /\ (Once(u) => u # t /\ Untouched(u))
      BY <1>2, <3>2 DEF RequestsUntouched, Requested
    <3> QED  BY <1>5, <3>3
  <2>2. ASSUME NEW i \in DOMAIN requests', NEW j \in DOMAIN requests',
               Once(requests'[i]), requests'[i] = requests'[j]
        PROVE  i = j
    <3>1. /\ i + 1 \in DOMAIN requests /\ j + 1 \in DOMAIN requests
          /\ Once(requests[i + 1]) /\ requests[i + 1] = requests[j + 1]
      BY <1>2, <2>2
    <3>2. i + 1 = j + 1
      BY <3>1 DEF RequestsUntouched
    <3> QED  BY <1>2, <3>2
  <2> QED  BY <1>6, <2>1, <2>2 DEF RequestsUntouched
<1>9. OneCarrier'
  BY <1>4, <1>6 DEF OneCarrier
<1>10. CarriedByAgent' /\ NotYetSent'
  <2>1. Once(t) => stored'[t] = {} /\ \A c \in Conn : ~Carries(c, t)'
    BY <1>1, <1>2, <1>3, <1>4 DEF Untouched
  <2> QED  BY <1>1, <1>6, <2>1 DEF CarriedByAgent, NotYetSent, Carries
<1>11. InOrder' /\ BehindStored'
  BY <1>1, <1>6 DEF InOrder, BehindStored
<1> QED  BY <1>7, <1>8, <1>9, <1>10, <1>11

\* A task that is requested for the first time is fresh; of any other nothing is
\* claimed from now on.
LEMMA FlowRequested ==
    ASSUME TypeOK, FlowInv, NEW r \in Request, NEW sent \in BOOLEAN, handleInspectRequest(r, sent)
    PROVE  FlowInv'
<1> USE DEF FlowInv
<1> DEFINE t == TaskOf[r]
<1>1. /\ UNCHANGED <<agentConn, running, module, inbox, thread, job, stored>>
      /\ r \notin accepted /\ t \in Task
      /\ accepted' = IF sent THEN accepted \cup {r} ELSE accepted
      /\ \/ requests' = requests
         \/ requests' = Append(requests, t) /\ sent
  BY TaskOfAssumption DEF handleInspectRequest
<1> HIDE DEF t
<1>2. \A u : /\ Once(u)' => Once(u)
             /\ Fresh(u)' => Fresh(u)
             /\ u # t => (Fresh(u)' <=> Fresh(u))
  BY <1>1 DEF Once, Fresh, t
<1>3. sent => ~Fresh(t)' /\ (Once(t)' => Fresh(t))
  BY <1>1 DEF Once, Fresh, t
<1>4. Fresh(t) => Untouched(t) /\ ~Requested(t)
  BY <1>1 DEF FreshUntouched, RequestsUntouched
<1>5. \A c \in Conn, u \in Task : Carries(c, u)' <=> Carries(c, u)
  BY <1>1 DEF Carries, Busy
<1>6. \A u \in Task : Untouched(u)' <=> Untouched(u)
  BY <1>1, <1>5 DEF Untouched
<1>7. FreshUntouched'
  BY <1>2, <1>6 DEF FreshUntouched
<1>8. RequestsUntouched'
  <2>1. CASE requests' = requests
    <3>1. \A u \in Task : Requested(u)' <=> Requested(u)
      BY <2>1 DEF Requested
    <3>2. \A u \in Task : ~Fresh(u) => ~Fresh(u)'
      BY <1>2
    <3> QED  BY <1>2, <1>6, <2>1, <3>1, <3>2 DEF RequestsUntouched
  <2>2. CASE requests' = Append(requests, t) /\ sent
    <3>1. /\ DOMAIN requests = 1 .. Len(requests) /\ Len(requests) \in Nat
          /\ DOMAIN requests' = 1 .. Len(requests) + 1
          /\ \A i \in DOMAIN requests : requests'[i] = requests[i]
          /\ requests'[Len(requests) + 1] = t
      <4>1. requests \in Seq(Task)
        BY DEF TypeOK
      <4> QED  BY <1>1, <2>2, <4>1, Appended
    <3>2. \A i \in DOMAIN requests' : i \in DOMAIN requests \/ i = Len(requests) + 1
      BY <3>1
    <3>3. \A u \in Task : Requested(u)' => Requested(u) \/ u = t
      BY <3>1, <3>2 DEF Requested
    <3>4. \A u \in Task : Requested(u)' => ~Fresh(u)' /\ (Once(u)' => Untouched(u)')
      BY <1>1, <1>2, <1>3, <1>4, <1>6, <2>2, <3>3 DEF RequestsUntouched
    <3>5. ASSUME NEW i \in DOMAIN requests', NEW j \in DOMAIN requests',
                 NEW u, u = requests'[i], u = requests'[j], Once(u)'
          PROVE  i = j
      <4>1. CASE i \in DOMAIN requests /\ j \in DOMAIN requests
        <5>1. requests'[i] = requests[i] /\ requests'[j] = requests[j]
          BY <3>1, <4>1
        <5>2. Once(requests[i]) /\ requests[i] = requests[j]
          BY <1>2, <3>5, <5>1
        <5> QED  BY <4>1, <5>2 DEF RequestsUntouched
      <4>2. CASE i = Len(requests) + 1 \/ j = Len(requests) + 1
        <5>1. Once(t)' /\ requests'[i] = t /\ requests'[j] = t
          BY <3>1, <3>5, <4>2
        <5>2. ~Requested(t)
          BY <1>3, <1>4, <2>2, <5>1
        <5>3. i \notin DOMAIN requests /\ j \notin DOMAIN requests
          BY <3>1, <5>1, <5>2 DEF Requested
        <5> QED  BY <3>2, <5>3
      <4> QED  BY <3>2, <4>1, <4>2
    <3> QED  BY <3>4, <3>5 DEF RequestsUntouched
  <2> QED  BY <1>1, <2>1, <2>2
<1>9. OneCarrier' /\ CarriedByAgent'
  <2>1. OneCarrier'
    BY <1>2, <1>5 DEF OneCarrier
  <2>2. agentConn' = agentConn /\ running' = running /\ CarriedByAgent
    BY <1>1
  <2>3. running \in Task \cup {NoTask}
    BY DEF TypeOK
  <2>4. CarriedByAgent'
    BY <1>2, <1>5, <2>2, <2>3 DEF CarriedByAgent
  <2> QED  BY <2>1, <2>4
<1>10. InOrder' /\ BehindStored' /\ NotYetSent'
  BY <1>1, <1>2 DEF InOrder, BehindStored, NotYetSent
<1> QED  BY <1>7, <1>8, <1>9, <1>10

\* The agent sends the next module after all others of its task.
LEMMA FlowSent ==
    ASSUME TypeOK, FlowInv, NEW sent \in BOOLEAN, executeCollection(sent)
    PROVE  FlowInv'
<1> USE DEF FlowInv
<1> DEFINE a == agentConn
           n == Len(inbox[a]) + 1
           new == [task |-> running, module |-> module]
<1>1. /\ UNCHANGED <<agentConn, requests, running, thread, job, stored>>
      /\ running \in Task /\ module \in Nat /\ module' = module + 1
      /\ \A u : (Once(u)' <=> Once(u)) /\ (Fresh(u)' <=> Fresh(u))
  BY ModuleCountAssumption DEF executeCollection, TypeOK, history, Once, Fresh
<1>2. CASE inbox' = inbox
  <2>1. \A c \in Conn, u \in Task : Carries(c, u)' <=> Carries(c, u)
    BY <1>1, <1>2 DEF Carries, Busy
  <2>2. \A u \in Task : /\ Untouched(u)' <=> Untouched(u)
                        /\ Requested(u)' <=> Requested(u)
    BY <1>1, <2>1 DEF Untouched, Requested
  <2>3. FreshUntouched' /\ RequestsUntouched'
    BY <1>1, <2>2 DEF FreshUntouched, RequestsUntouched
  <2>4. OneCarrier' /\ CarriedByAgent'
    BY <1>1, <2>1 DEF OneCarrier, CarriedByAgent
  <2>5. InOrder' /\ BehindStored'
    BY <1>1, <1>2 DEF InOrder, BehindStored
  <2>6. NotYetSent'
    <3>1. \A m \in stored[running] : m \in Nat
      BY <1>1 DEF TypeOK, Module
    <3>2. \A c \in Conn : \A i \in DOMAIN inbox[c] : inbox[c][i].module \in Nat
      BY InboxTyped
    <3> QED  BY <1>1, <1>2, <3>1, <3>2 DEF NotYetSent
  <2> QED  BY <2>3, <2>4, <2>5, <2>6
<1>3. CASE a \in Conn /\ inbox' = [inbox EXCEPT ![a] = Append(@, new)]
  <2>1. new \in Message /\ new.task = running /\ new.module = module
    BY <1>1 DEF executeCollection, Message, Module, TypeOK
  <2>2. inbox \in [Conn -> Seq(Message)] /\ inbox[a] \in Seq(Message)
    BY <1>3 DEF TypeOK
  <2>3. /\ DOMAIN inbox[a] = 1 .. Len(inbox[a]) /\ Len(inbox[a]) \in Nat
        /\ DOMAIN inbox'[a] = 1 .. n
        /\ \A i \in DOMAIN inbox[a] : inbox'[a][i] = inbox[a][i]
        /\ inbox'[a][n] = new
        /\ \A c \in Conn \ {a} : inbox'[c] = inbox[c]
    BY <1>3, <2>1, <2>2, Appended
  <2> HIDE DEF n, new
  <2>4. n \in Nat /\ \A i \in DOMAIN inbox'[a] : i = n \/ (i \in DOMAIN inbox[a] /\ i < n)
    BY <2>3 DEF n
  <2>5. \A c \in Conn, u \in Task :
            Carries(c, u)' => Carries(c, u) \/ (c = a /\ u = running)
    BY <1>1, <2>1, <2>3, <2>4 DEF Carries, Busy
  <2>6. \A u \in Task : /\ Untouched(u) => Untouched(u)'
                        /\ Requested(u)' <=> Requested(u)
    BY <1>1, <2>5 DEF Untouched, Requested
  <2>7. FreshUntouched' /\ RequestsUntouched'
    BY <1>1, <2>6 DEF FreshUntouched, RequestsUntouched
  <2>8. OneCarrier' /\ CarriedByAgent'
    BY <1>1, <1>3, <2>5, NoneAssumption DEF OneCarrier, CarriedByAgent, executeCollection
  <2>9. /\ \A m \in stored[running] : m \in Nat /\ (Once(running) => m < module)
        /\ \A c \in Conn : \A i \in DOMAIN inbox[c] :
              /\ inbox[c][i].module \in Nat
              /\ Once(running) /\ inbox[c][i].task = running => inbox[c][i].module < module
    <3>1. running # NoTask
      BY DEF executeCollection
    <3>2. \A m \in stored[running] : m \in Nat
      BY <1>1 DEF TypeOK, Module
    <3> QED  BY <3>1, <3>2, InboxTyped DEF NotYetSent
  <2>10. InOrder' /\ BehindStored' /\ NotYetSent'
    <3>1. InOrder'
      BY <1>1, <1>3, <2>1, <2>3, <2>4, <2>9 DEF InOrder
    <3>2. BehindStored'
      BY <1>1, <1>3, <2>1, <2>3, <2>4, <2>9 DEF BehindStored
    <3>3. NotYetSent'
      BY <1>1, <1>3, <2>1, <2>3, <2>4, <2>9 DEF NotYetSent
    <3> QED  BY <3>1, <3>2, <3>3
  <2> QED  BY <2>7, <2>8, <2>10
<1> QED  BY <1>2, <1>3 DEF executeCollection, TypeOK

\* A module that is received is the first of those that wait.
LEMMA FlowReceived ==
    ASSUME TypeOK, FlowInv, NEW c \in Conn, processForensicData(c),
           NEW d, d = Head(inbox[c])
    PROVE  FlowInv'
<1> USE DEF FlowInv
<1>1. /\ UNCHANGED <<agentConn, requests, running, module>>
      /\ \A u : (Once(u)' <=> Once(u)) /\ (Fresh(u)' <=> Fresh(u))
      /\ inbox' = [inbox EXCEPT ![c] = Tail(@)] /\ inbox[c] # <<>> /\ thread[c] = "recv"
      /\ \/ UNCHANGED <<stored, thread, job>>
         \/ /\ stored' = [stored EXCEPT ![d.task] = @ \cup {d.module}]
            /\ thread' = [thread EXCEPT ![c] = "inserted"]
            /\ job' = [job EXCEPT ![c] = d]
  BY DEF processForensicData, agentVars, history, Once, Fresh
<1>2. /\ inbox \in [Conn -> Seq(Message)] /\ stored \in [Task -> SUBSET Module]
      /\ job \in [Conn -> Message \cup {NoTask}] /\ thread = [e \in Conn |-> thread[e]]
  BY DEF TypeOK
<1>3. /\ d \in Message /\ d = inbox[c][1] /\ 1 \in DOMAIN inbox[c]
      /\ \A i \in DOMAIN inbox'[c] : /\ i \in Nat /\ i + 1 \in DOMAIN inbox[c] /\ i + 1 > 1
                                     /\ inbox'[c][i] = inbox[c][i + 1]
      /\ \A e \in Conn \ {c} : inbox'[e] = inbox[e]
  <2>1. inbox[c] \in Seq(Message) /\ inbox'[c] = Tail(inbox[c])
    BY <1>1, <1>2
  <2>2. \A e \in Conn \ {c} : inbox'[e] = inbox[e]
    BY <1>1, <1>2
  <2>3. /\ d \in Message /\ d = inbox[c][1] /\ 1 \in DOMAIN inbox[c]
        /\ \A i \in DOMAIN inbox'[c] : /\ i \in Nat /\ i + 1 \in DOMAIN inbox[c] /\ i + 1 # 1
                                       /\ inbox'[c][i] = inbox[c][i + 1]
    <3>1. inbox[c] \in Seq(Message) /\ inbox[c] # <<>>
      BY <1>1, <2>1
    <3>2. /\ Head(inbox[c]) \in Message /\ Head(inbox[c]) = inbox[c][1]
          /\ 1 \in DOMAIN inbox[c]
          /\ \A i \in DOMAIN Tail(inbox[c]) :
                /\ i \in Nat /\ i + 1 \in DOMAIN inbox[c] /\ i + 1 # 1
                /\ Tail(inbox[c])[i] = inbox[c][i + 1]
      BY ONLY <3>1, TailTaken
    <3> QED  BY <2>1, <3>2
  <2>4. \A i \in Nat : i + 1 # 1 => i + 1 > 1
    OBVIOUS
  <2> QED  BY <2>2, <2>3, <2>4
<1>4. d.task \in Task /\ d.module \in Nat /\ Carries(c, d.task)
  BY <1>3 DEF Message, Module, Carries
<1>5. \A e \in Conn, u \in Task : Carries(e, u)' => Carries(e, u)
  <2>1. \A e \in Conn, u \in Task :
            (\E i \in DOMAIN inbox'[e] : inbox'[e][i].task = u) => Carries(e, u)
    BY <1>3 DEF Carries
  <2>2. \A e \in Conn, u \in Task : Busy(e)' /\ job'[e].task = u => Carries(e, u)
    BY <1>1, <1>2, <1>4 DEF Carries, Busy
  <2> QED  BY <2>1, <2>2 DEF Carries
<1>6. \A u \in Task : u # d.task => stored'[u] = stored[u]
  BY <1>1, <1>2, <1>4
<1>7. \A u \in Task : Untouched(u) => Untouched(u)'
  <2>1. \A u \in Task : Untouched(u) => u # d.task
    BY <1>4 DEF Untouched
  <2> QED  BY <1>1, <1>5, <1>6, <2>1 DEF Untouched
<1>8. FreshUntouched' /\ RequestsUntouched'
  BY <1>1, <1>7 DEF FreshUntouched, RequestsUntouched, Requested
<1>9. OneCarrier' /\ CarriedByAgent'
  <2>1. OneCarrier'
    BY <1>1, <1>5 DEF OneCarrier
  <2>2. running \in Task \cup {NoTask}
    BY DEF TypeOK
  <2> QED  BY <1>1, <1>5, <2>1, <2>2 DEF CarriedByAgent
<1>10. \A u \in Task : \A m \in stored'[u] : m \in stored[u] \/ (u = d.task /\ m = d.module)
  BY <1>1, <1>2, <1>4
<1>11. InOrder'
  BY <1>1, <1>3 DEF InOrder
<1>12. BehindStored'
  <2>1. SUFFICES ASSUME NEW e \in Conn, NEW i \in DOMAIN inbox'[e],
                        Once(inbox'[e][i].task),
                        NEW m \in stored'[inbox'[e][i].task]
                 PROVE  m < inbox'[e][i].module
    BY <1>1 DEF BehindStored
  <2>2. CASE e # c
    <3>1. inbox'[e] = inbox[e] /\ i \in DOMAIN inbox[e] /\ inbox[e][i].task \in Task
      BY <1>3, <2>2, InboxTyped
    <3>2. inbox[e][i].task # d.task
      BY <1>4, <2>1, <2>2, <3>1 DEF OneCarrier, Carries
    <3> QED  BY <1>6, <2>1, <3>1, <3>2 DEF BehindStored
  <2>3. CASE e = c
    <3>1. /\ i + 1 \in DOMAIN inbox[c] /\ 1 < i + 1
          /\ inbox'[e][i] = inbox[c][i + 1] /\ inbox[c][i + 1].task \in Task
      BY <1>3, <2>3, InboxTyped
    <3>2. CASE m \in stored[inbox[c][i + 1].task]
      BY <2>1, <3>1, <3>2 DEF BehindStored
    <3>3. CASE inbox[c][i + 1].task = d.task /\ m = d.module
      BY <1>3, <2>1, <3>1, <3>3 DEF InOrder
    <3> QED  BY <1>10, <2>1, <3>1, <3>2, <3>3
  <2> QED  BY <2>2, <2>3
<1>13. NotYetSent'
  <2>1. running # NoTask => running \in Task
    BY DEF TypeOK
  <2>2. running # NoTask /\ Once(running) => \A m \in stored'[running] : m < module
    BY <1>3, <1>10, <2>1 DEF NotYetSent
  <2>3. running # NoTask /\ Once(running) =>
            \A e \in Conn : \A i \in DOMAIN inbox'[e] :
                inbox'[e][i].task = running => inbox'[e][i].module < module
    BY <1>3 DEF NotYetSent
  <2> QED  BY <1>1, <2>2, <2>3 DEF NotYetSent
<1> QED  BY <1>8, <1>9, <1>11, <1>12, <1>13

\* A thread goes on with the module it has, or puts it aside.
LEMMA ThreadShrinks ==
    ASSUME TypeOK, NEW c \in Conn,
           \/ emitForensicDataStored(c) \/ countModules(c) \/ notifyTaskCompleteDirectly(c)
           \/ handleClientDisconnect(c) \/ cleanupClient(c) \/ cleanupClientFailsTask(c)
    PROVE  /\ UNCHANGED <<agentConn, requests, running, module, inbox, stored, accepted,
                          completeNotices>>
           /\ \A d \in Conn : Busy(d)' => Busy(d) /\ job'[d] = job[d]
<1>1. /\ UNCHANGED <<agentConn, requests, running, module, inbox, stored, accepted,
                     completeNotices>>
      /\ \/ Busy(c) /\ job' = job /\ \E w : thread' = [thread EXCEPT ![c] = w]
         \/ /\ job' = job \/ job' = [job EXCEPT ![c] = NoTask]
            /\ \E w \in {"recv", "closing", "failing", "done"} :
                  thread' = [thread EXCEPT ![c] = w]
  BY DEF emitForensicDataStored, countModules, notifyTaskCompleteDirectly,
     handleClientDisconnect, cleanupClient, cleanupClientFailsTask, agentVars, mainVars, history,
     Busy
<1> QED  BY <1>1 DEF Busy, TypeOK

\* The main thread's events leave the modules' way alone.
LEMMA MainShrinks ==
    ASSUME MainEvent
    PROVE  UNCHANGED <<agentConn, requests, running, module, inbox, stored, thread, job,
                       accepted>>
BY DEF MainEvent, onForensicDataStored, onTaskCompletionNotification,
       notifyTaskFailureForMissingModules, agentVars, history

\* What the agent does without a module leaves threads and queue alone.
LEMMA AgentShrinks ==
    ASSUME TypeOK,
           \/ \E c \in Conn : AgentRegisters(c)
           \/ AgentDisconnects \/ AgentStops \/ handleTaskExecutionEnds
    PROVE  /\ UNCHANGED <<module, inbox, stored, job, accepted, posted, completeNotices>>
           /\ \A d \in Conn : Busy(d)' <=> Busy(d)
           /\ \A d \in Conn : thread'[d] \in {"inserted", "emitted"} => thread'[d] = thread[d]
           /\ requests' = requests \/ requests' = <<>>
           /\ running' = running \/ running' = NoTask
           /\ running' = NoTask \/ agentConn' = agentConn \/ agentConn' = NoConn
<1>1. ASSUME NEW c \in Conn, AgentRegisters(c)
      PROVE  /\ UNCHANGED <<module, inbox, stored, job, accepted, posted, completeNotices>>
             /\ \A d \in Conn : Busy(d)' <=> Busy(d)
             /\ \A d \in Conn : thread'[d] \in {"inserted", "emitted"} => thread'[d] = thread[d]
             /\ requests' = requests /\ running' = NoTask
  BY <1>1 DEF AgentRegisters, mainVars, history, Busy, TypeOK
<1>2. CASE AgentDisconnects
  BY <1>2 DEF AgentDisconnects, mainVars, history, Busy
<1>3. CASE AgentStops
  BY <1>3 DEF AgentStops, mainVars, history, Busy
<1>4. CASE handleTaskExecutionEnds
  BY <1>4 DEF handleTaskExecutionEnds, mainVars, history, Busy
<1> QED  BY <1>1, <1>2, <1>3, <1>4

\* Every step keeps the modules of a task on their way.
LEMMA NextFlow == TypeOK /\ FlowInv /\ Next => FlowInv'
<1> SUFFICES ASSUME TypeOK, FlowInv, Next PROVE FlowInv'  OBVIOUS
<1>1. CASE \/ \E c \in Conn : AgentRegisters(c)
           \/ AgentDisconnects \/ AgentStops \/ handleTaskExecutionEnds
  BY <1>1, AgentShrinks, FlowShrinks
<1>2. CASE handleTaskRequest
  BY <1>2, FlowTaken
<1>3. CASE \E sent \in BOOLEAN : executeCollection(sent)
  BY <1>3, FlowSent
<1>4. ASSUME NEW c \in Conn, processForensicData(c) PROVE FlowInv'
  BY <1>4, FlowReceived
<1>5. ASSUME NEW c \in Conn,
             \/ emitForensicDataStored(c) \/ countModules(c) \/ notifyTaskCompleteDirectly(c)
             \/ handleClientDisconnect(c) \/ cleanupClient(c) \/ cleanupClientFailsTask(c)
      PROVE  FlowInv'
  BY <1>5, ThreadShrinks, FlowShrinks
<1>6. CASE \E r \in Request, sent \in BOOLEAN : handleInspectRequest(r, sent)
  BY <1>6, FlowRequested
<1>7. CASE MainEvent
  <2>1. \A c \in Conn : Busy(c)' => Busy(c) /\ job'[c] = job[c]
    BY <1>7, MainShrinks DEF Busy
  <2> QED  BY <1>7, <2>1, MainShrinks, FlowShrinks
<1> QED  BY <1>1, <1>2, <1>3, <1>4, <1>5, <1>6, <1>7 DEF Next, AgentRuns, ThreadStep

-----------------------------------------------------------------------------
(***************************************************************************)
(* The notices                                                             *)
(***************************************************************************)

\* Modules are never deleted.
LEMMA StoredGrows ==
    ASSUME TypeOK, Next, NEW t \in Task
    PROVE  stored[t] \subseteq stored'[t]
<1>1. ASSUME NEW c \in Conn, processForensicData(c) PROVE stored[t] \subseteq stored'[t]
  <2>1. stored' = stored
        \/ stored' = [stored EXCEPT ![Head(inbox[c]).task] = @ \cup {Head(inbox[c]).module}]
    BY <1>1 DEF processForensicData
  <2>2. stored \in [Task -> SUBSET Module]
    BY DEF TypeOK
  <2> QED  BY <2>1, <2>2
<1>2. CASE stored' = stored
  BY <1>2
<1>3. AgentRuns => stored' = stored
  BY DEF AgentRuns, handleTaskRequest, executeCollection, handleTaskExecutionEnds
<1>4. \A r \in Request, sent \in BOOLEAN : handleInspectRequest(r, sent) => stored' = stored
  BY DEF handleInspectRequest
<1> QED
  BY <1>1, <1>2, <1>3, <1>4, AgentShrinks, ThreadShrinks, MainShrinks DEF Next, ThreadStep

\* Requests that were accepted stay so: an id that was used twice stays so.
LEMMA AcceptedGrows ==
    ASSUME TypeOK, Next
    PROVE  /\ accepted \subseteq accepted'
           /\ \A t : Once(t)' => Once(t)
<1>1. accepted \subseteq accepted'
  <2>1. CASE UNCHANGED accepted
    BY <2>1
  <2>2. ASSUME NEW r \in Request, NEW sent \in BOOLEAN, handleInspectRequest(r, sent)
        PROVE  accepted \subseteq accepted'
    BY <2>2 DEF handleInspectRequest
  <2>3. ASSUME NEW c \in Conn, ThreadStep(c) PROVE UNCHANGED accepted
    BY <2>3, ThreadShrinks DEF ThreadStep, processForensicData, history
  <2>4. AgentRuns => UNCHANGED accepted
    BY DEF AgentRuns, handleTaskRequest, executeCollection, handleTaskExecutionEnds, history
  <2> QED  BY <2>1, <2>2, <2>3, <2>4, AgentShrinks, MainShrinks DEF Next
<1> QED  BY <1>1 DEF Once

\* What a step does to the notices of a task: nothing new, unless a thread
\* counts all its modules; and the main thread sends what was queued.
LEMMA NoticeSteps ==
    ASSUME TypeOK, Next, NEW t \in Task
    PROVE  \/ /\ completeNotices'[t] = completeNotices[t]
              /\ Queued("complete", t)' => Queued("complete", t)
              /\ OnePlace(t) => OnePlace(t)'
           \/ /\ completeNotices'[t] = completeNotices[t]
              /\ \E c \in Conn : /\ countModules(c) /\ job[c].task = t
                                 /\ getMissingModulesForTask(t) = {}
              /\ ~Queued("complete", t) /\ OnePlace(t) => OnePlace(t)'
           \/ /\ completeNotices'[t] = completeNotices[t] + 1
              /\ Queued("complete", t)
              /\ OnePlace(t) => ~Queued("complete", t)' /\ OnePlace(t)'
<1> DEFINE Goal ==
           \/ /\ completeNotices'[t] = completeNotices[t]
              /\ Queued("complete", t)' => Queued("complete", t)
              /\ OnePlace(t) => OnePlace(t)'
           \/ /\ completeNotices'[t] = completeNotices[t]
              /\ \E c \in Conn : /\ countModules(c) /\ job[c].task = t
                                 /\ getMissingModulesForTask(t) = {}
              /\ ~Queued("complete", t) /\ OnePlace(t) => OnePlace(t)'
           \/ /\ completeNotices'[t] = completeNotices[t] + 1
              /\ Queued("complete", t)
              /\ OnePlace(t) => ~Queued("complete", t)' /\ OnePlace(t)'
<1>1. ASSUME UNCHANGED <<posted, completeNotices>> PROVE Goal
  BY <1>1 DEF Queued, OnePlace
<1>2. ASSUME NEW u, NEW what \in {"stored", "failed"}, Post(what, u),
             [what |-> what, about |-> u] \in Event, UNCHANGED completeNotices
      PROVE  Goal
  BY <1>2, EventPosted
<1>3. ASSUME NEW c \in Conn, countModules(c) PROVE Goal
  <2>1. /\ job[c].task \in Task /\ thread[c] = "emitted" /\ UNCHANGED completeNotices
    BY <1>3 DEF countModules, TypeOK, Message, mainVars
  <2>2. CASE UNCHANGED posted
    BY <1>1, <2>1, <2>2
  <2>3. CASE getMissingModulesForTask(job[c].task) = {} /\ Post("complete", job[c].task)
    <3>1. [what |-> "complete", about |-> job[c].task] \in Event
      BY <2>1 DEF Event
    <3> QED  BY <1>3, <2>1, <2>3, <3>1, EventPosted
  <2> QED  BY <1>3, <2>2, <2>3 DEF countModules
<1>4. CASE onForensicDataStored \/ notifyTaskFailureForMissingModules
  <2>1. PICK what : NextEvent(what) /\ UNCHANGED completeNotices
    BY <1>4 DEF onForensicDataStored, notifyTaskFailureForMissingModules
  <2> QED  BY <2>1, EventTaken
<1>5. CASE onTaskCompletionNotification
  <2>1. /\ NextEvent("complete") /\ Head(posted).about \in Task
        /\ completeNotices' = [completeNotices EXCEPT ![Head(posted).about] = @ + 1]
    BY <1>5, NextTyped DEF onTaskCompletionNotification, TypeOK
  <2>2. CASE t = Head(posted).about
    BY <2>1, <2>2, EventTaken DEF TypeOK
  <2>3. CASE t # Head(posted).about
    BY <2>1, <2>3, EventTaken DEF TypeOK
  <2> QED  BY <2>2, <2>3
<1>6. ASSUME NEW c \in Conn, emitForensicDataStored(c) PROVE Goal
  <2>1. /\ [what |-> "stored", about |-> job[c].task] \in Event
        /\ Post("stored", job[c].task) /\ UNCHANGED completeNotices
    BY <1>6 DEF emitForensicDataStored, TypeOK, Message, mainVars, Event
  <2> QED  BY <1>2, <2>1
<1>7. ASSUME NEW c \in Conn, cleanupClientFailsTask(c) PROVE Goal
  <2>1. /\ doomed[c] # NoRequest => [what |-> "failed", about |-> doomed[c]] \in Event
        /\ UNCHANGED completeNotices
        /\ IF doomed[c] # NoRequest THEN Post("failed", doomed[c]) ELSE UNCHANGED posted
    BY <1>7 DEF cleanupClientFailsTask, TypeOK, mainVars, history, Event
  <2> QED  BY <1>1, <1>2, <2>1
<1>8. ASSUME NEW c \in Conn,
             \/ processForensicData(c) \/ notifyTaskCompleteDirectly(c)
             \/ handleClientDisconnect(c) \/ cleanupClient(c)
      PROVE  Goal
  <2>1. UNCHANGED <<posted, completeNotices>>
    BY <1>8 DEF processForensicData, notifyTaskCompleteDirectly, handleClientDisconnect,
       cleanupClient, mainVars
  <2> QED  BY <1>1, <2>1
<1>9. ASSUME AgentRuns \/ \E r \in Request, sent \in BOOLEAN : handleInspectRequest(r, sent)
      PROVE  Goal
  <2>1. UNCHANGED <<posted, completeNotices>>
    BY <1>9 DEF AgentRuns, handleTaskRequest, executeCollection, handleTaskExecutionEnds,
       handleInspectRequest, mainVars
  <2> QED  BY <1>1, <2>1
<1>10. ASSUME \/ \E c \in Conn : AgentRegisters(c)
              \/ AgentDisconnects \/ AgentStops
       PROVE  Goal
  BY <1>1, <1>10, AgentShrinks
<1> QED
  BY <1>3, <1>4, <1>5, <1>6, <1>7, <1>8, <1>9, <1>10 DEF Next, ThreadStep, MainEvent

\* A notice of a task with modules missing does not come about.
LEMMA NextNotice == TypeOK /\ NoticeMeansStored /\ Next => NoticeMeansStored'
<1> SUFFICES ASSUME TypeOK, NoticeMeansStored, Next, NEW t \in Task,
                    completeNotices'[t] > 0 \/ Queued("complete", t)'
             PROVE  getMissingModulesForTask(t)' = {}
  BY DEF NoticeMeansStored
<1>1. stored[t] \subseteq stored'[t]
  BY StoredGrows
<1>2. completeNotices[t] \in Nat
  BY DEF TypeOK
<1>3. getMissingModulesForTask(t) = {}
  BY <1>2, NoticeSteps DEF NoticeMeansStored
<1> QED  BY <1>1, <1>3 DEF getMissingModulesForTask

\* Nobody has the last module of a task in hand once it was counted.
LEMMA NextNobodyCounts ==
    TypeOK /\ NoticeMeansStored /\ FlowInv /\ CountInv /\ Next => NobodyCounts'
<1> SUFFICES ASSUME TypeOK, NoticeMeansStored, FlowInv, CountInv, Next,
                    NEW t \in Task, Once(t)', Noticed(t)',
                    NEW c \in Conn, thread'[c] \in {"inserted", "emitted"}, job'[c].task = t
             PROVE  FALSE
  BY DEF NobodyCounts
<1> USE DEF CountInv
<1>1. Once(t) /\ OnePlace(t) /\ completeNotices[t] \in Nat
  BY AcceptedGrows DEF QueuedOnce, TypeOK
<1>2. CASE Noticed(t)
  <2>1. ModuleCount \in stored[t] /\ ModuleCount \in Module
    BY <1>2, ModuleCountAssumption DEF Noticed, NoticeMeansStored, getMissingModulesForTask, Module
  <2>2. \A d \in Conn : thread[d] \in {"inserted", "emitted"} => job[d].task # t
    BY <1>1, <1>2 DEF NobodyCounts
  <2>3. ASSUME NEW d \in Conn, processForensicData(d) PROVE FALSE
    <3>1. inbox[d] \in Seq(Message) /\ inbox[d] # <<>>
      BY <2>3 DEF processForensicData, TypeOK
    <3>2. 1 \in DOMAIN inbox[d] /\ Head(inbox[d]) = inbox[d][1]
      BY <3>1, TailTaken
    <3>3. inbox[d][1].module \in Module
      BY <3>2, InboxTyped
    <3>4. inbox[d][1].task # t
      BY <1>1, <2>1, <3>2, <3>3, ModuleCountAssumption DEF FlowInv, BehindStored, Module
    <3>5. \/ thread'[c] = thread[c] /\ job'[c] = job[c]
          \/ job'[c] = inbox[d][1]
      BY <2>3, <3>2 DEF processForensicData, TypeOK
    <3> QED  BY <2>2, <3>4, <3>5
  <2>4. ASSUME NEW d \in Conn,
               \/ emitForensicDataStored(d) \/ countModules(d) \/ notifyTaskCompleteDirectly(d)
               \/ handleClientDisconnect(d) \/ cleanupClient(d) \/ cleanupClientFailsTask(d)
        PROVE  FALSE
    <3>1. thread[c] \in {"inserted", "emitted"} /\ job'[c] = job[c]
      BY <2>4 DEF emitForensicDataStored, countModules, notifyTaskCompleteDirectly,
         handleClientDisconnect, cleanupClient, cleanupClientFailsTask, TypeOK
    <3> QED  BY <2>2, <3>1
  <2>5. CASE MainEvent \/ \E r \in Request, sent \in BOOLEAN : handleInspectRequest(r, sent)
    <3>1. UNCHANGED <<thread, job>>
      BY <2>5, MainShrinks DEF handleInspectRequest
    <3> QED  BY <2>2, <3>1
  <2>6. CASE \/ \E d \in Conn : AgentRegisters(d)
             \/ AgentDisconnects \/ AgentStops
    <3>1. thread'[c] = thread[c] /\ job' = job
      BY <2>6, AgentShrinks
    <3> QED  BY <2>2, <3>1
  <2>7. CASE AgentRuns
    <3>1. UNCHANGED <<thread, job>>
      BY <2>7 DEF AgentRuns, handleTaskRequest, executeCollection, handleTaskExecutionEnds
    <3> QED  BY <2>2, <3>1
  <2> QED  BY <2>3, <2>4, <2>5, <2>6, <2>7 DEF Next, ThreadStep
<1>3. CASE ~Noticed(t)
  <2>1. PICK d \in Conn : countModules(d) /\ job[d].task = t
    BY <1>1, <1>3, NoticeSteps DEF Noticed
  <2>2. thread[d] = "emitted" /\ thread' = [thread EXCEPT ![d] = "counted"] /\ job' = job
    BY <2>1 DEF countModules
  <2>3. c # d /\ thread[c] \in {"inserted", "emitted"} /\ job[c].task = t
    BY <2>2 DEF TypeOK
  <2> QED  BY <1>1, <2>1, <2>2, <2>3 DEF FlowInv, OneCarrier, Carries, Busy
<1> QED  BY <1>2, <1>3

\* The event of a task is queued once and sent once.
LEMMA NextOnce ==
    TypeOK /\ NoticeMeansStored /\ FlowInv /\ CountInv /\ Next => QueuedOnce' /\ CompletedOnce'
<1> SUFFICES ASSUME TypeOK, CountInv, Next, NEW t \in Task, Once(t)'
             PROVE  /\ OnePlace(t)' /\ (Queued("complete", t)' => completeNotices'[t] = 0)
                    /\ completeNotices'[t] <= 1
  BY DEF QueuedOnce, CompletedOnce
<1>1. /\ OnePlace(t) /\ (Queued("complete", t) => completeNotices[t] = 0)
      /\ completeNotices[t] \in Nat /\ completeNotices[t] <= 1 /\ Once(t)
  BY AcceptedGrows DEF CountInv, QueuedOnce, CompletedOnce, TypeOK
<1>2. CASE /\ completeNotices'[t] = completeNotices[t]
           /\ Queued("complete", t)' => Queued("complete", t)
           /\ OnePlace(t) => OnePlace(t)'
  BY <1>1, <1>2
<1>3. CASE /\ completeNotices'[t] = completeNotices[t]
           /\ \E c \in Conn : countModules(c) /\ job[c].task = t
           /\ ~Queued("complete", t) /\ OnePlace(t) => OnePlace(t)'
  <2>1. ~Noticed(t)
    BY <1>1, <1>3 DEF CountInv, NobodyCounts, countModules
  <2> QED  BY <1>1, <1>3, <2>1 DEF Noticed
<1>4. CASE /\ completeNotices'[t] = completeNotices[t] + 1
           /\ Queued("complete", t)
           /\ OnePlace(t) => ~Queued("complete", t)' /\ OnePlace(t)'
  BY <1>1, <1>4
<1> QED  BY <1>2, <1>3, <1>4, NoticeSteps

\* A stuttering step changes nothing.
LEMMA StutterIInv == IInv /\ UNCHANGED vars => IInv'
<1> SUFFICES ASSUME IInv, UNCHANGED vars PROVE IInv'  OBVIOUS
<1>1. /\ UNCHANGED <<inbox, thread, job, stored, posted>>
      /\ UNCHANGED agentVars /\ UNCHANGED mainVars /\ UNCHANGED history
  BY DEF vars
<1>2. /\ UNCHANGED <<agentConn, requests, running, module>>
      /\ UNCHANGED <<taskStatuses, completeNotices, failNotices, accepted>>
  BY <1>1 DEF agentVars, mainVars, history
<1>3. TypeOK'
  BY NextTypeOK DEF IInv
<1>4. NoticeMeansStored'
  BY <1>1, <1>2 DEF IInv, NoticeMeansStored, Queued, getMissingModulesForTask
<1>5. FlowInv'
  BY <1>1, <1>2, FlowShrinks DEF IInv, Busy
<1>6. CountInv'
  BY <1>1, <1>2 DEF IInv, CountInv, NobodyCounts, QueuedOnce, CompletedOnce, Noticed, OnePlace,
     Queued, Once
<1> QED  BY <1>3, <1>4, <1>5, <1>6 DEF IInv

LEMMA InitIInv == Init => IInv
<1> SUFFICES ASSUME Init PROVE IInv  OBVIOUS
<1>1. \A t \in Task : completeNotices[t] = 0 /\ ~Queued("complete", t)
  BY DEF Init, Queued
<1>2. NoticeMeansStored /\ NobodyCounts /\ CompletedOnce
  BY <1>1 DEF NoticeMeansStored, NobodyCounts, CompletedOnce, Noticed
<1>3. QueuedOnce
  BY <1>1 DEF QueuedOnce, OnePlace, Queued
<1> QED  BY <1>2, <1>3, InitTypeOK, InitFlow DEF IInv, CountInv

\* The invariant is inductive.
THEOREM Spec_IInv == Spec => []IInv
<1>1. IInv /\ [Next]_vars => IInv'
  <2>1. IInv /\ Next => IInv'
    BY NextTypeOK, NextFlow, NextNotice, NextNobodyCounts, NextOnce DEF IInv, CountInv
  <2> QED  BY <2>1, StutterIInv
<1> QED  BY <1>1, InitIInv, PTL DEF Spec

\* A completion notice never leaves before all modules of its task are stored,
\* although the thread that counts and the one that sends differ.
THEOREM Spec_NoticeMeansStored == Spec => []NoticeMeansStored
<1>1. IInv => NoticeMeansStored
  BY DEF IInv
<1> QED  BY <1>1, Spec_IInv, PTL

\* The backend gets the completion notice of a task at most once, if its id was
\* requested once.
THEOREM Spec_CompletedOnce == Spec => []CompletedOnce
<1>1. IInv => CompletedOnce
  BY DEF IInv, CountInv
<1> QED  BY <1>1, Spec_IInv, PTL

-----------------------------------------------------------------------------
(***************************************************************************)
(* No task is lost                                                         *)
(***************************************************************************)

\* A thread of a connection that has not been cleaned up.
Serves(c) == thread[c] \in {"recv", "inserted", "emitted", "counted", "closing"}

\* The listed connection is served, and a current task has one that is listed or a
\* cleanup that is about to fail it, if it is not complete.
ListedServed == listed # NoConn => listed \in Conn /\ Serves(listed)
CurrentHasThread ==
    clientTaskIds # NoRequest => listed # NoConn \/ \E c \in Conn : thread[c] = "failing"
OneFails == \A c, d \in Conn : thread[c] = "failing" /\ thread[d] = "failing" => c = d
FailsCurrent ==
    \A c \in Conn : thread[c] = "failing" /\ clientTaskIds # NoRequest =>
        doomed[c] = clientTaskIds \/ getMissingModulesForTask(TaskOf[clientTaskIds]) = {}

CleanInv == ListedServed /\ CurrentHasThread /\ OneFails /\ FailsCurrent

\* Whoever stored the last module has yet to count it, or has, or failed to.
Counting(t) == \E c \in Conn : thread[c] \in {"inserted", "emitted"} /\ job[c].task = t
Told(t) == Noticed(t) \/ t \in missed
StoredInv == \A t \in Task : getMissingModulesForTask(t) = {} => Told(t) \/ Counting(t)

Settled(r) == r \in superseded \/ failNotices[r] > 0 \/ Queued("failed", r)
SentInv ==
    \A r \in accepted : getMissingModulesForTask(TaskOf[r]) # {} =>
        clientTaskIds = r \/ Settled(r)

LostInv == CleanInv /\ StoredInv /\ SentInv

\* What is queued stays so until it is taken, and what is posted is queued.
LEMMA QueuedStays ==
    ASSUME posted \in Seq(Event), NEW what, NEW x, NEW u, [what |-> x, about |-> u] \in Event,
           Post(x, u)
    PROVE  /\ Queued(x, u)'
           /\ \A t : Queued(what, t) => Queued(what, t)'
<1> DEFINE e == [what |-> x, about |-> u]
<1>1. e \in Event
  OBVIOUS
<1>2. /\ posted' = Append(posted, e)
      /\ DOMAIN posted = 1 .. Len(posted) /\ Len(posted) \in Nat
      /\ DOMAIN posted' = 1 .. Len(posted) + 1
      /\ \A i \in DOMAIN posted : posted'[i] = posted[i]
      /\ posted'[Len(posted) + 1] = e
  BY <1>1, Appended DEF Post
<1>3. Queued(x, u)'
  BY <1>2 DEF Queued
<1>4. DOMAIN posted \subseteq DOMAIN posted'
  BY <1>2
<1>5. ASSUME NEW t, Queued(what, t) PROVE Queued(what, t)'
  BY <1>2, <1>4, <1>5 DEF Queued
<1> QED  BY <1>3, <1>5

LEMMA QueuedTaken ==
    ASSUME posted \in Seq(Event), NEW x, NextEvent(x), NEW what, NEW t, Queued(what, t)
    PROVE  Queued(what, t)' \/ (what = x /\ t = Head(posted).about)
<1>1. posted # <<>> /\ posted' = Tail(posted) /\ Head(posted).what = x
  BY DEF NextEvent
<1>2. PICK i \in DOMAIN posted : posted[i] = [what |-> what, about |-> t]
  BY DEF Queued
<1>3. CASE i = 1
  BY <1>1, <1>2, <1>3
<1>4. CASE i # 1
  <2>1. i - 1 \in DOMAIN Tail(posted) /\ Tail(posted)[i - 1] = posted[i]
    BY <1>1, <1>4
  <2> QED  BY <1>1, <1>2, <2>1 DEF Queued
<1> QED  BY <1>3, <1>4

\* What a step does to a verdict that is queued or was told.
LEMMA VerdictStays ==
    ASSUME TypeOK, [Next]_vars
    PROVE  /\ \A t \in Task : Noticed(t) => Noticed(t)'
           /\ \A r \in Request : failNotices[r] > 0 \/ Queued("failed", r)
                 => (failNotices[r] > 0 \/ Queued("failed", r))'
<1> DEFINE Stays == /\ \A t \in Task : Noticed(t) => Noticed(t)'
                    /\ \A r \in Request : failNotices[r] > 0 \/ Queued("failed", r)
                          => (failNotices[r] > 0 \/ Queued("failed", r))'
<1>1. /\ posted \in Seq(Event)
      /\ completeNotices \in [Task -> Nat] /\ failNotices \in [Request -> Nat]
  BY DEF TypeOK
<1>2. ASSUME UNCHANGED <<posted, completeNotices, failNotices>> PROVE Stays
  BY <1>2 DEF Noticed, Queued
<1>3. ASSUME NEW u, NEW x, [what |-> x, about |-> u] \in Event, Post(x, u),
             UNCHANGED <<completeNotices, failNotices>>
      PROVE  Stays
  BY <1>1, <1>3, QueuedStays DEF Noticed
<1>4. ASSUME NEW c \in Conn, emitForensicDataStored(c) \/ countModules(c) PROVE Stays
  <2>1. \A x \in {"stored", "complete"} : [what |-> x, about |-> job[c].task] \in Event
    BY <1>4 DEF emitForensicDataStored, countModules, TypeOK, Message, Event
  <2>2. /\ UNCHANGED <<completeNotices, failNotices>>
        /\ UNCHANGED posted \/ \E x \in {"stored", "complete"} : Post(x, job[c].task)
    BY <1>4 DEF emitForensicDataStored, countModules, mainVars
  <2> QED  BY <1>2, <1>3, <2>1, <2>2
<1>5. ASSUME NEW c \in Conn, cleanupClientFailsTask(c) PROVE Stays
  <2>1. /\ doomed[c] \in Request \cup {NoRequest} /\ UNCHANGED <<completeNotices, failNotices>>
        /\ UNCHANGED posted \/ (doomed[c] # NoRequest /\ Post("failed", doomed[c]))
    BY <1>5 DEF cleanupClientFailsTask, TypeOK, mainVars
  <2>2. doomed[c] # NoRequest => [what |-> "failed", about |-> doomed[c]] \in Event
    BY <2>1 DEF Event
  <2> QED  BY <1>2, <1>3, <2>1, <2>2
<1>6. CASE onForensicDataStored
  <2>1. NextEvent("stored") /\ UNCHANGED <<completeNotices, failNotices>>
    BY <1>6 DEF onForensicDataStored
  <2> QED  BY <1>1, <2>1, QueuedTaken DEF Noticed
<1>7. CASE onTaskCompletionNotification
  <2>1. /\ NextEvent("complete") /\ Head(posted).about \in Task /\ UNCHANGED failNotices
        /\ completeNotices' = [completeNotices EXCEPT ![Head(posted).about] = @ + 1]
    BY <1>1, <1>7, NextTyped DEF onTaskCompletionNotification
  <2>2. \A t \in Task : /\ completeNotices[t] > 0 => completeNotices'[t] > 0
                        /\ t = Head(posted).about => completeNotices'[t] > 0
    BY <1>1, <2>1
  <2> QED  BY <1>1, <2>1, <2>2, QueuedTaken DEF Noticed
<1>8. CASE notifyTaskFailureForMissingModules
  <2>1. /\ NextEvent("failed") /\ Head(posted).about \in Request /\ UNCHANGED completeNotices
        /\ failNotices' = [failNotices EXCEPT ![Head(posted).about] = @ + 1]
    BY <1>1, <1>8, NextTyped DEF notifyTaskFailureForMissingModules
  <2>2. \A r \in Request : /\ failNotices[r] > 0 => failNotices'[r] > 0
                           /\ r = Head(posted).about => failNotices'[r] > 0
    BY <1>1, <2>1
  <2> QED  BY <1>1, <2>1, <2>2, QueuedTaken DEF Noticed
<1>9. ASSUME \/ \E c \in Conn : \/ AgentRegisters(c) \/ processForensicData(c)
                                \/ notifyTaskCompleteDirectly(c) \/ handleClientDisconnect(c)
                                \/ cleanupClient(c)
             \/ AgentDisconnects \/ AgentStops \/ AgentRuns
             \/ \E r \in Request, sent \in BOOLEAN : handleInspectRequest(r, sent)
             \/ UNCHANGED vars
      PROVE  Stays
  <2>1. UNCHANGED <<posted, completeNotices, failNotices>>
    BY <1>9 DEF AgentRegisters, processForensicData, notifyTaskCompleteDirectly,
       handleClientDisconnect, cleanupClient, AgentDisconnects, AgentStops, AgentRuns,
       handleTaskRequest, executeCollection, handleTaskExecutionEnds, handleInspectRequest,
       mainVars, vars
  <2> QED  BY <1>2, <2>1
<1> QED  BY <1>4, <1>5, <1>6, <1>7, <1>8, <1>9 DEF Next, ThreadStep, MainEvent

\* What a failing SELECT has missed and what a request has replaced stays so.
LEMMA HistoryGrows ==
    ASSUME [Next]_vars
    PROVE  missed \subseteq missed' /\ superseded \subseteq superseded'
BY DEF Next, AgentRegisters, AgentDisconnects, AgentStops, AgentRuns, handleTaskRequest,
       executeCollection, handleTaskExecutionEnds, ThreadStep, processForensicData,
       emitForensicDataStored, countModules, notifyTaskCompleteDirectly, handleClientDisconnect,
       cleanupClient, cleanupClientFailsTask, handleInspectRequest, MainEvent,
       onForensicDataStored, onTaskCompletionNotification, notifyTaskFailureForMissingModules,
       history, vars

\* Steps that leave threads, list and the current task alone.
LEMMA CleanUntouched ==
    ASSUME CleanInv, UNCHANGED <<thread, listed, clientTaskIds, doomed, stored>>
    PROVE  CleanInv'
BY DEF CleanInv, ListedServed, Serves, CurrentHasThread, OneFails, FailsCurrent,
       getMissingModulesForTask

\* A thread goes on serving its connection.
LEMMA CleanServes ==
    ASSUME TypeOK, CleanInv, NEW c \in Conn, Serves(c), Serves(c)',
           \A d \in Conn \ {c} : thread'[d] = thread[d],
           UNCHANGED <<listed, clientTaskIds, doomed>>,
           \A t \in Task : stored[t] \subseteq stored'[t]
    PROVE  CleanInv'
<1>1. \A d \in Conn : thread'[d] = "failing" <=> thread[d] = "failing"
  BY DEF Serves
<1>2. ListedServed'
  BY DEF CleanInv, ListedServed, Serves
<1>3. CurrentHasThread'
  BY <1>1 DEF CleanInv, CurrentHasThread
<1>4. OneFails'
  BY <1>1 DEF CleanInv, OneFails
<1>5. FailsCurrent'
  BY <1>1, TaskOfAssumption DEF CleanInv, FailsCurrent, getMissingModulesForTask, TypeOK
<1> QED  BY <1>2, <1>3, <1>4, <1>5 DEF CleanInv

LEMMA NextClean == TypeOK /\ CleanInv /\ [Next]_vars => CleanInv'
<1> SUFFICES ASSUME TypeOK, CleanInv, [Next]_vars PROVE CleanInv'  OBVIOUS
<1>1. ASSUME NEW c \in Conn, AgentRegisters(c) PROVE CleanInv'
  <2>1. /\ listed' = c /\ UNCHANGED <<clientTaskIds, doomed, stored>>
        /\ \A d \in Conn : thread[d] # "failing"
        /\ thread' = [thread EXCEPT ![c] = "recv"] /\ DOMAIN thread = Conn
    BY <1>1 DEF AgentRegisters, clientsMutexFree, TypeOK
  <2>2. \A d \in Conn : thread'[d] # "failing"
    BY <2>1
  <2>3. ListedServed'
    BY <2>1 DEF ListedServed, Serves
  <2>4. c # NoConn
    BY NoneAssumption
  <2> QED  BY <2>1, <2>2, <2>3, <2>4 DEF CleanInv, CurrentHasThread, OneFails, FailsCurrent
<1>2. ASSUME \/ AgentDisconnects \/ AgentStops \/ AgentRuns \/ MainEvent \/ UNCHANGED vars
      PROVE  CleanInv'
  <2>1. UNCHANGED <<thread, listed, clientTaskIds, doomed, stored>>
    BY <1>2 DEF AgentDisconnects, AgentStops, AgentRuns, handleTaskRequest, executeCollection,
       handleTaskExecutionEnds, MainEvent, onForensicDataStored, onTaskCompletionNotification,
       notifyTaskFailureForMissingModules, vars
  <2> QED  BY <2>1, CleanUntouched
<1>3. ASSUME NEW c \in Conn,
             \/ processForensicData(c) \/ emitForensicDataStored(c) \/ countModules(c)
             \/ notifyTaskCompleteDirectly(c) \/ handleClientDisconnect(c)
      PROVE  CleanInv'
  <2>1. /\ Serves(c)
        /\ \/ thread' = thread
           \/ \E w \in {"recv", "inserted", "emitted", "counted", "closing"} :
                 thread' = [thread EXCEPT ![c] = w]
        /\ UNCHANGED <<listed, clientTaskIds, doomed>>
    BY <1>3 DEF processForensicData, emitForensicDataStored, countModules,
       notifyTaskCompleteDirectly, handleClientDisconnect, Serves
  <2>2. Serves(c)' /\ \A d \in Conn \ {c} : thread'[d] = thread[d]
    BY <2>1 DEF Serves, TypeOK
  <2>3. \A t \in Task : stored[t] \subseteq stored'[t]
    BY <1>3, StoredGrows DEF Next, ThreadStep
  <2> QED  BY <2>1, <2>2, <2>3, CleanServes
<1>4. ASSUME NEW c \in Conn, cleanupClient(c) PROVE CleanInv'
  <2>1. /\ thread[c] = "closing" /\ \A d \in Conn : thread[d] # "failing"
        /\ thread' = [thread EXCEPT ![c] = "failing"] /\ DOMAIN thread = Conn
        /\ listed' = IF listed = c THEN NoConn ELSE listed
        /\ \/ doomed' = [doomed EXCEPT ![c] = clientTaskIds]
           \/ clientTaskIds # NoRequest => getMissingModulesForTask(TaskOf[clientTaskIds]) = {}
        /\ DOMAIN doomed = Conn
        /\ UNCHANGED <<clientTaskIds, stored>>
    BY <1>4 DEF cleanupClient, clientsMutexFree, TypeOK
  <2>2. thread'[c] = "failing" /\ \A d \in Conn \ {c} : thread'[d] = thread[d]
    BY <2>1
  <2>3. ListedServed'
    BY <2>1, <2>2 DEF CleanInv, ListedServed, Serves
  <2>4. CurrentHasThread' /\ OneFails'
    BY <2>1, <2>2 DEF CurrentHasThread, OneFails
  <2>5. FailsCurrent'
    BY <2>1, <2>2 DEF FailsCurrent, getMissingModulesForTask
  <2> QED  BY <2>3, <2>4, <2>5 DEF CleanInv
<1>5. ASSUME NEW c \in Conn, cleanupClientFailsTask(c) PROVE CleanInv'
  <2>1. /\ thread[c] = "failing" /\ clientTaskIds' = NoRequest /\ UNCHANGED listed
        /\ thread' = [thread EXCEPT ![c] = "done"] /\ DOMAIN thread = Conn
    BY <1>5 DEF cleanupClientFailsTask, TypeOK
  <2>2. thread'[c] = "done" /\ \A d \in Conn \ {c} : thread'[d] = thread[d]
    BY <2>1
  <2>3. ListedServed'
    BY <2>1, <2>2 DEF CleanInv, ListedServed, Serves
  <2>4. OneFails'
    BY <2>1, <2>2 DEF CleanInv, OneFails
  <2> QED  BY <2>1, <2>3, <2>4 DEF CleanInv, CurrentHasThread, FailsCurrent
<1>6. ASSUME NEW r \in Request, NEW sent \in BOOLEAN, handleInspectRequest(r, sent)
      PROVE  CleanInv'
  <2>1. /\ listed # NoConn /\ UNCHANGED <<thread, listed>>
        /\ \A d \in Conn : thread[d] # "failing"
    BY <1>6 DEF handleInspectRequest, clientsMutexFree
  <2> QED
    BY <2>1 DEF CleanInv, ListedServed, Serves, CurrentHasThread, OneFails, FailsCurrent
<1> QED  BY <1>1, <1>2, <1>3, <1>4, <1>5, <1>6 DEF Next, ThreadStep

\* A thread that has a module yet to count keeps it, or counts it.
LEMMA CountingStays ==
    ASSUME TypeOK, Next, NEW t \in Task, getMissingModulesForTask(t) = {}, Counting(t)
    PROVE  Told(t)' \/ Counting(t)'
<1>1. PICK c \in Conn : thread[c] \in {"inserted", "emitted"} /\ job[c].task = t
  BY DEF Counting
<1>2. ASSUME UNCHANGED <<thread, job>> PROVE Counting(t)'
  BY <1>1, <1>2 DEF Counting
<1>3. ASSUME NEW d \in Conn, ThreadStep(d) PROVE Told(t)' \/ Counting(t)'
  <2>1. CASE d # c
    <3>1. thread'[c] = thread[c] /\ job'[c] = job[c]
      BY <1>3, <2>1 DEF ThreadStep, processForensicData, emitForensicDataStored, countModules,
         notifyTaskCompleteDirectly, handleClientDisconnect, cleanupClient,
         cleanupClientFailsTask, TypeOK
    <3> QED  BY <1>1, <3>1 DEF Counting
  <2>2. CASE d = c /\ emitForensicDataStored(c)
    <3>1. thread'[c] = "emitted" /\ job' = job
      BY <2>2 DEF emitForensicDataStored, TypeOK
    <3> QED  BY <1>1, <3>1 DEF Counting
  <2>3. CASE d = c /\ countModules(c)
    <3>1. Post("complete", t) \/ t \in missed'
      BY <1>1, <2>3 DEF countModules
    <3>2. posted \in Seq(Event) /\ [what |-> "complete", about |-> t] \in Event
      BY DEF TypeOK, Event
    <3> QED  BY <3>1, <3>2, QueuedStays DEF Told, Noticed
  <2>4. CASE d = c /\ ~emitForensicDataStored(c) /\ ~countModules(c)
    BY <1>1, <1>3, <2>4 DEF ThreadStep, processForensicData, notifyTaskCompleteDirectly,
       handleClientDisconnect, cleanupClient, cleanupClientFailsTask
  <2> QED  BY <2>1, <2>2, <2>3, <2>4
<1>4. ASSUME NEW d \in Conn, AgentRegisters(d) PROVE Counting(t)'
  <2>1. thread'[c] = thread[c] /\ job' = job
    BY <1>1, <1>4 DEF AgentRegisters, TypeOK
  <2> QED  BY <1>1, <2>1 DEF Counting
<1>5. ASSUME \/ AgentDisconnects \/ AgentStops \/ AgentRuns \/ MainEvent
             \/ \E r \in Request, sent \in BOOLEAN : handleInspectRequest(r, sent)
      PROVE  Counting(t)'
  <2>1. UNCHANGED <<thread, job>>
    BY <1>5, MainShrinks DEF AgentDisconnects, AgentStops, AgentRuns, handleTaskRequest,
       executeCollection, handleTaskExecutionEnds, handleInspectRequest
  <2> QED  BY <1>2, <2>1
<1> QED  BY <1>3, <1>4, <1>5 DEF Next

\* A task that becomes complete is in the hands of the thread that stored its last
\* module.
LEMMA NextStored == TypeOK /\ StoredInv /\ [Next]_vars => StoredInv'
<1> SUFFICES ASSUME TypeOK, StoredInv, [Next]_vars, NEW t \in Task,
                    getMissingModulesForTask(t)' = {}
             PROVE  Told(t)' \/ Counting(t)'
  BY DEF StoredInv
<1> Told(t) => Told(t)'
  BY VerdictStays, HistoryGrows DEF Told
<1>1. CASE UNCHANGED vars
  <2>1. UNCHANGED <<thread, job, stored>>
    BY <1>1 DEF vars
  <2> QED  BY <1>1, <2>1 DEF StoredInv, Counting, getMissingModulesForTask
<1>2. CASE Next /\ getMissingModulesForTask(t) = {}
  BY <1>2, CountingStays DEF StoredInv
<1>3. CASE Next /\ getMissingModulesForTask(t) # {}
  <2>1. ~(stored' = stored)
    BY <1>3 DEF getMissingModulesForTask
  <2>2. PICK c \in Conn : processForensicData(c)
    BY <1>3, <2>1, AgentShrinks, ThreadShrinks, MainShrinks
       DEF Next, ThreadStep, AgentRuns, handleTaskRequest, executeCollection,
           handleInspectRequest
  <2>3. /\ stored' = [stored EXCEPT ![Head(inbox[c]).task] = @ \cup {Head(inbox[c]).module}]
        /\ thread' = [thread EXCEPT ![c] = "inserted"]
        /\ job' = [job EXCEPT ![c] = Head(inbox[c])]
    BY <2>1, <2>2 DEF processForensicData
  <2>4. Head(inbox[c]).task = t
    BY <1>3, <2>3 DEF getMissingModulesForTask, TypeOK
  <2>5. thread'[c] = "inserted" /\ job'[c].task = t
    BY <2>3, <2>4 DEF TypeOK
  <2> QED  BY <2>5 DEF Counting
<1> QED  BY <1>1, <1>2, <1>3

\* A request whose task is not complete leaves the PC by one that takes its place
\* or by a cleanup, which reports it.
LEMMA NextSent == TypeOK /\ CleanInv /\ SentInv /\ [Next]_vars => SentInv'
<1> SUFFICES ASSUME TypeOK, CleanInv, SentInv, [Next]_vars, NEW r \in accepted',
                    getMissingModulesForTask(TaskOf[r])' # {}
             PROVE  clientTaskIds' = r \/ Settled(r)'
  BY DEF SentInv
<1>1. r \in Request
  BY NextTypeOK DEF TypeOK
<1>2. getMissingModulesForTask(TaskOf[r]) # {}
  <2>1. Next => stored[TaskOf[r]] \subseteq stored'[TaskOf[r]]
    BY <1>1, StoredGrows, TaskOfAssumption
  <2> QED  BY <2>1 DEF getMissingModulesForTask, vars
<1>3. Settled(r) => Settled(r)'
  BY <1>1, HistoryGrows, VerdictStays DEF Settled
<1>4. ASSUME NEW u \in Request, NEW sent \in BOOLEAN, handleInspectRequest(u, sent)
      PROVE  clientTaskIds' = r \/ Settled(r)'
  <2>1. CASE r \in accepted
    <3>1. clientTaskIds = r \/ Settled(r)
      BY <1>2, <2>1 DEF SentInv
    <3>2. clientTaskIds = r => r \in superseded'
      BY <1>1, <1>4, NoneAssumption DEF handleInspectRequest
    <3> QED  BY <1>3, <3>1, <3>2 DEF Settled
  <2>2. CASE r \notin accepted
    BY <1>4, <2>2 DEF handleInspectRequest
  <2> QED  BY <2>1, <2>2
<1>5. ASSUME NEW c \in Conn, cleanupClientFailsTask(c) PROVE Settled(r)'
  <2>1. r \in accepted /\ posted \in Seq(Event)
    BY <1>5 DEF cleanupClientFailsTask, history, TypeOK
  <2>2. clientTaskIds = r \/ Settled(r)
    BY <1>2, <2>1 DEF SentInv
  <2>3. ASSUME clientTaskIds = r PROVE Queued("failed", r)'
    <3>1. doomed[c] = r /\ r # NoRequest
      BY <1>1, <1>2, <1>5, <2>3, NoneAssumption
         DEF CleanInv, FailsCurrent, cleanupClientFailsTask
    <3>2. Post("failed", r) /\ [what |-> "failed", about |-> r] \in Event
      BY <1>1, <1>5, <3>1 DEF cleanupClientFailsTask, Event
    <3> QED  BY <2>1, <3>2, QueuedStays
  <2> QED  BY <1>3, <2>2, <2>3 DEF Settled
<1>6. ASSUME \/ \E c \in Conn :
                   \/ AgentRegisters(c) \/ processForensicData(c) \/ emitForensicDataStored(c)
                   \/ countModules(c) \/ notifyTaskCompleteDirectly(c)
                   \/ handleClientDisconnect(c) \/ cleanupClient(c)
             \/ AgentDisconnects \/ AgentStops \/ AgentRuns \/ MainEvent \/ UNCHANGED vars
      PROVE  clientTaskIds' = r \/ Settled(r)'
  <2>1. UNCHANGED clientTaskIds /\ r \in accepted
    BY <1>6 DEF AgentRegisters, processForensicData, emitForensicDataStored, countModules,
       notifyTaskCompleteDirectly, handleClientDisconnect, cleanupClient, AgentDisconnects,
       AgentStops, AgentRuns, handleTaskRequest, executeCollection, handleTaskExecutionEnds,
       MainEvent, onForensicDataStored, onTaskCompletionNotification,
       notifyTaskFailureForMissingModules, history, vars
  <2> QED  BY <1>2, <1>3, <2>1 DEF SentInv
<1> QED  BY <1>4, <1>5, <1>6 DEF Next, ThreadStep

LEMMA InitLost == Init => LostInv
<1> SUFFICES ASSUME Init PROVE LostInv  OBVIOUS
<1>1. CleanInv
  BY DEF Init, CleanInv, ListedServed, CurrentHasThread, OneFails, FailsCurrent
<1>2. \A t \in Task : getMissingModulesForTask(t) # {}
  <2>1. 1 \in Module
    BY ModuleCountAssumption DEF Module
  <2>2. \A t \in Task : stored[t] = {}
    BY DEF Init
  <2> QED  BY <2>1, <2>2 DEF getMissingModulesForTask
<1>3. StoredInv /\ SentInv
  BY <1>2 DEF Init, StoredInv, SentInv
<1> QED  BY <1>1, <1>3 DEF LostInv

\* A thread is at hand for a current request.
LEMMA CurrentCleaned ==
    ASSUME TypeOK, CleanInv, clientTaskIds # NoRequest
    PROVE  \E c \in Conn : thread[c] \notin {"free", "done"}
BY DEF CleanInv, ListedServed, Serves, CurrentHasThread

LEMMA LostFromInv == TypeOK /\ LostInv => NoTaskLost
<1> SUFFICES ASSUME TypeOK, LostInv PROVE NoTaskLost  OBVIOUS
<1>1. ASSUME NEW t \in Task, getMissingModulesForTask(t) = {}
      PROVE  \/ completeNotices[t] > 0
             \/ Queued("complete", t)
             \/ \E c \in Conn : thread[c] \in {"inserted", "emitted"} /\ job[c].task = t
             \/ t \in missed
  BY <1>1, Zenon DEF LostInv, StoredInv, Told, Noticed, Counting
<1>2. ASSUME NEW r \in accepted, getMissingModulesForTask(TaskOf[r]) # {}
      PROVE  \/ clientTaskIds = r /\ \E c \in Conn : thread[c] \notin {"free", "done"}
             \/ r \in superseded
             \/ failNotices[r] > 0 \/ Queued("failed", r)
  <2>1. r # NoRequest
    BY NoneAssumption DEF TypeOK
  <2>2. clientTaskIds = r => \E c \in Conn : thread[c] \notin {"free", "done"}
    BY <2>1, CurrentCleaned DEF LostInv
  <2> QED  BY <1>2, <2>2, Zenon DEF LostInv, SentInv, Settled
<1> QED  BY <1>1, <1>2, Zenon DEF NoTaskLost

\* No task is lost on the way, for any tasks, connections and number of modules:
\* each one is complete and told of or about to be, or runs, or was replaced or
\* reported as failed.
THEOREM Spec_NoTaskLost == Spec => []NoTaskLost
<1>1. TypeOK /\ LostInv /\ [Next]_vars => LostInv'
  BY NextClean, NextStored, NextSent DEF LostInv
<1> QED  BY <1>1, InitLost, LostFromInv, Spec_TypeOK, PTL DEF Spec

=============================================================================
