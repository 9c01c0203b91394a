-------------------------- MODULE ForensicServerProofs --------------------------
(***************************************************************************)
(* Proofs about the whole server, for any connections and requests: the    *)
(* composition keeps the invariants of the lifecycle and of the HTTP API.  *)
(***************************************************************************)
EXTENDS ForensicServer, TLAPS

(***************************************************************************)
(* The HTTP API: HttpSpec by itself, for any requests, layouts, PCs and    *)
(* tasks                                                                   *)
(***************************************************************************)

\* The inspection of task t has been sent to its agent and its handler goes on.
Inspecting(t) == taskSent /\ \E r \in inspecting : TaskOf[r] = t

\* A request starts its task when its handler does, and the socket is read no
\* more when it is answered.
StartsInv ==
    \A r \in Request :
        /\ r \in inspecting =>
              /\ socket[r] = "open"
              /\ answer[r] = "none"
              /\ starts[r] = IF taskSent THEN 1 ELSE 0
        /\ r \notin inspecting /\ answer[r] = "none" => starts[r] = 0
        /\ socket[r] # "gone" => answer[r] = "none"
        /\ \A q \in inspecting : r \in inspecting => q = r

\* What is in a buffer was not complete when it was put there.
BufferInv ==
    \A r \in Request \ inspecting : requestBuffers[r] > 0 => ~Complete(r, requestBuffers[r])

\* A row's signal is queued until it is handled, and is handled after the
\* inspection it belongs to.
StatusInv ==
    \A t \in TaskId :
        /\ taskStatuses[t] = "completed" => t \in everStored
        /\ t \in storedSince => t \in everStored
        /\ Contains(storedEvents, t) => t \in everStored
        /\ (\E p \in Pc : t \in assigned[p]) => taskStatuses[t] # "unknown" \/ Inspecting(t)
        /\ t \in storedSince => taskStatuses[t] # "unknown" \/ Inspecting(t)
        /\ t \in storedSince =>
              \/ Contains(storedEvents, t)
              \/ taskStatuses[t] = "completed" /\ ~Inspecting(t)

HttpInv ==
    /\ HttpTypeOK
    /\ StartsInv
    /\ OneTaskPerRequest
    /\ BufferInv
    /\ InspectionsUnderstood
    /\ StatusInv

-----------------------------------------------------------------------------
LEMMA LayoutTypes ==
    ASSUME NEW r \in Request
    PROVE  /\ Layout[r].header \in Nat \ {0}
           /\ Layout[r].body \in Nat
           /\ Layout[r].extra \in Nat
           /\ Layout[r].narrow \in Nat
           /\ Layout[r].hasLength \in BOOLEAN
           /\ Total(r) \in Nat
           /\ TaskOf[r] \in TaskId
           /\ PcOf[r] # NoPc => PcOf[r] \in Pc
<1>1. Layout[r] \in [header : Nat \ {0}, body : Nat, extra : Nat, narrow : Nat,
                     hasLength : BOOLEAN]
  BY RequestAssumption
<1> QED BY <1>1, RequestAssumption DEF Total

\* When all of a request has arrived it is complete.
LEMMA TotalComplete ==
    ASSUME NEW r \in Request
    PROVE  Complete(r, Total(r))
BY LayoutTypes DEF Complete, BodyRead, Total

\* A complete inspection without wide characters and without anything behind it
\* has exactly its bytes.
LEMMA CompleteIsExact ==
    ASSUME NEW r \in Request, NEW n \in 1 .. Total(r), Complete(r, n),
           Layout[r].hasLength, Layout[r].narrow = 0, Layout[r].body > 0,
           Layout[r].extra = 0
    PROVE  BodyParses(r, n)
BY LayoutTypes DEF Complete, BodyRead, BodyParses, Total

LEMMA AppendContains ==
    ASSUME NEW s \in Seq(TaskId), NEW e \in TaskId, NEW t \in TaskId
    PROVE  Contains(Append(s, e), t) <=> Contains(s, t) \/ t = e
BY DEF Contains

LEMMA TailContains ==
    ASSUME NEW s \in Seq(TaskId), s # <<>>, NEW t \in TaskId
    PROVE  /\ Tail(s) \in Seq(TaskId)
           /\ Head(s) \in TaskId
           /\ Contains(s, t) <=> t = Head(s) \/ Contains(Tail(s), t)
<1>1. /\ Tail(s) \in Seq(TaskId)
      /\ Head(s) \in TaskId
      /\ Len(s) \in Nat \ {0}
      /\ Len(Tail(s)) = Len(s) - 1
      /\ Head(s) = s[1]
      /\ \A i \in 1 .. Len(Tail(s)) : Tail(s)[i] = s[i + 1]
  OBVIOUS
<1>2. ASSUME Contains(s, t), t # Head(s) PROVE Contains(Tail(s), t)
  <2>1. PICK i \in 1 .. Len(s) : s[i] = t BY <1>2 DEF Contains
  <2>2. i - 1 \in 1 .. Len(Tail(s)) BY <1>1, <1>2, <2>1
  <2>3. Tail(s)[i - 1] = s[(i - 1) + 1] BY <1>1, <2>2
  <2> QED BY <2>1, <2>2, <2>3 DEF Contains
<1>3. ASSUME t = Head(s) PROVE Contains(s, t)
  BY <1>1, <1>3 DEF Contains
<1>4. ASSUME Contains(Tail(s), t) PROVE Contains(s, t)
  <2>1. PICK i \in 1 .. Len(Tail(s)) : Tail(s)[i] = t BY <1>4 DEF Contains
  <2>2. i + 1 \in 1 .. Len(s) /\ s[i + 1] = t BY <1>1, <2>1
  <2> QED BY <2>2 DEF Contains
<1> QED BY <1>1, <1>2, <1>3, <1>4

-----------------------------------------------------------------------------
LEMMA HttpInitInv == HttpInit => HttpInv
<1> SUFFICES ASSUME HttpInit PROVE HttpInv OBVIOUS
<1> USE DEF HttpInit
<1>1. HttpTypeOK
  <2>1. \A r \in Request : requestBuffers[r] <= Total(r) BY LayoutTypes
  <2>2. /\ socket \in [Request -> {"new", "open", "gone"}]
        /\ requestBuffers \in [Request -> Nat]
        /\ answer \in [Request -> {"none", "ok", "started", "badRequest", "failed", "notFound"}]
        /\ starts \in [Request -> Nat]
    OBVIOUS
  <2>3. /\ taskStatuses \in [TaskId -> {"unknown", "running", "completed"}]
        /\ assigned \in [Pc -> SUBSET TaskId]
        /\ rows \in [Pc -> 0 .. MaxRows]
    BY RequestAssumption
  <2>4. \A r \in Request : answer[r] # "none" => requestBuffers[r] = 0 OBVIOUS
  <2>5. storedEvents \in Seq(TaskId) OBVIOUS
  <2>6. /\ inspecting \in SUBSET Request
        /\ everStored \in SUBSET TaskId
        /\ storedSince \in SUBSET TaskId
    OBVIOUS
  <2>7. taskSent \in BOOLEAN OBVIOUS
  <2> HIDE DEF HttpInit
  <2> QED BY <2>1, <2>2, <2>3, <2>4, <2>5, <2>6, <2>7 DEF HttpTypeOK
<1>2. StartsInv BY DEF StartsInv
<1>3. OneTaskPerRequest BY DEF OneTaskPerRequest
<1>4. BufferInv BY DEF BufferInv
<1>5. InspectionsUnderstood BY DEF InspectionsUnderstood
<1>6. StatusInv BY DEF StatusInv, Contains
<1> QED BY <1>1, <1>2, <1>3, <1>4, <1>5, <1>6 DEF HttpInv

LEMMA TypeStep == HttpTypeOK /\ StartsInv /\ HttpNext => HttpTypeOK'
<1> SUFFICES ASSUME HttpTypeOK, StartsInv, HttpNext PROVE HttpTypeOK' OBVIOUS
<1> USE RequestAssumption DEF HttpTypeOK, requestVars, taskVars
<1>0. \A q \in Request : Total(q)' = Total(q) /\ Total(q) \in Nat
  BY LayoutTypes DEF Total
<1>1. ASSUME NEW r \in Request, onNewConnection(r) PROVE HttpTypeOK'
  BY <1>0, <1>1 DEF onNewConnection
<1>2. ASSUME NEW r \in Request, NEW n \in 1 .. Total(r), waitForMore(r, n)
      PROVE HttpTypeOK'
  <2>1. answer[r] = "none" BY <1>2 DEF waitForMore, Reads, StartsInv
  <2>2. n \in Nat BY <1>0
  <2> QED BY <1>0, <1>2, <2>1, <2>2 DEF waitForMore
<1>3. ASSUME NEW r \in Request, NEW n \in 1 .. Total(r), handleQuery(r, n)
      PROVE HttpTypeOK'
  BY <1>0, <1>3 DEF handleQuery, Respond
<1>4. ASSUME NEW r \in Request, NEW n \in 1 .. Total(r), rejectInspect(r, n)
      PROVE HttpTypeOK'
  BY <1>0, <1>4 DEF rejectInspect, Respond
<1>5. ASSUME NEW r \in Request, NEW n \in 1 .. Total(r), NEW success \in BOOLEAN,
             sendTask(r, n, success)
      PROVE HttpTypeOK'
  <2>1. answer[r] = "none" BY <1>5 DEF sendTask, Reads, StartsInv
  <2>2. n \in Nat BY <1>0
  <2>3. TaskOf[r] \in TaskId OBVIOUS
  <2>4. /\ starts' \in [Request -> Nat]
        /\ assigned' \in [Pc -> SUBSET TaskId]
        /\ rows' \in [Pc -> 0 .. MaxRows]
        /\ storedSince' \in SUBSET TaskId
    <3>1. {TaskOf[r]} \in SUBSET TaskId BY <2>3
    <3>2. starts' \in [Request -> Nat]
      <4>1. starts' = starts \/ starts' = [starts EXCEPT ![r] = @ + 1]
        BY <1>5 DEF sendTask
      <4>2. starts[r] + 1 \in Nat OBVIOUS
      <4>3. CASE starts' = [starts EXCEPT ![r] = @ + 1]
        BY <4>2, <4>3
      <4> QED BY <4>1, <4>3
    <3>3. assigned' \in [Pc -> SUBSET TaskId] BY <1>5, <3>1 DEF sendTask
    <3>4. rows' \in [Pc -> 0 .. MaxRows]
      <4>1. rows' = rows \/ rows' = [rows EXCEPT ![PcOf[r]] = 0]
        BY <1>5 DEF sendTask
      <4>2. 0 \in 0 .. MaxRows OBVIOUS
      <4> QED BY <4>1, <4>2
    <3>5. storedSince' \in SUBSET TaskId BY <1>5 DEF sendTask
    <3> QED BY <3>2, <3>3, <3>4, <3>5
  <2>5. /\ requestBuffers' \in [Request -> Nat]
        /\ \A q \in Request : requestBuffers'[q] <= Total(q)'
        /\ \A q \in Request : answer'[q] # "none" => requestBuffers'[q] = 0
    BY <1>0, <1>5, <2>1, <2>2 DEF sendTask
  <2> QED BY <1>5, <2>4, <2>5 DEF sendTask
<1>6. ASSUME NEW r \in Request, finishInspect(r) PROVE HttpTypeOK'
  <2>1. taskStatuses' \in [TaskId -> {"unknown", "running", "completed"}]
    BY <1>6 DEF finishInspect
  <2>2. PICK what \in {"started", "failed"} : Respond(r, what)
    BY <1>6 DEF finishInspect
  <2>3. answer' \in [Request -> {"none", "ok", "started", "badRequest", "failed", "notFound"}]
    BY <2>2 DEF Respond
  <2>4. /\ requestBuffers' \in [Request -> Nat]
        /\ socket' \in [Request -> {"new", "open", "gone"}]
        /\ \A q \in Request : requestBuffers'[q] <= Total(q)'
        /\ \A q \in Request : answer'[q] # "none" => requestBuffers'[q] = 0
    BY <1>0, <2>2 DEF Respond
  <2> QED BY <1>6, <2>1, <2>3, <2>4 DEF finishInspect
<1>7. ASSUME NEW r \in Request, onClientDisconnected(r) PROVE HttpTypeOK'
  BY <1>0, <1>7 DEF onClientDisconnected
<1>8. ASSUME NEW p \in Pc, storeForensicData(p) PROVE HttpTypeOK'
  BY <1>0, <1>8 DEF storeForensicData
<1>9. ASSUME onForensicDataStored PROVE HttpTypeOK'
  <2>1. Tail(storedEvents) \in Seq(TaskId) BY <1>9 DEF onForensicDataStored
  <2> QED BY <1>0, <1>9, <2>1 DEF onForensicDataStored
<1>10. ASSUME stopServer PROVE HttpTypeOK'
  BY <1>0, <1>10 DEF stopServer
<1> HIDE DEF HttpTypeOK, requestVars, taskVars
<1> QED BY <1>1, <1>2, <1>3, <1>4, <1>5, <1>6, <1>7, <1>8, <1>9, <1>10 DEF HttpNext, HttpStep
-----------------------------------------------------------------------------
LEMMA StartsStep ==
    HttpTypeOK /\ StartsInv /\ OneTaskPerRequest /\ HttpNext
        => StartsInv' /\ OneTaskPerRequest'
<1> SUFFICES ASSUME HttpTypeOK, StartsInv, OneTaskPerRequest, HttpNext
             PROVE  StartsInv' /\ OneTaskPerRequest'
  OBVIOUS
<1>0. /\ socket \in [Request -> {"new", "open", "gone"}]
      /\ answer \in [Request -> {"none", "ok", "started", "badRequest", "failed", "notFound"}]
      /\ starts \in [Request -> Nat]
      /\ inspecting \in SUBSET Request
  BY DEF HttpTypeOK
<1> USE DEF StartsInv, OneTaskPerRequest, requestVars, taskVars
<1>1. ASSUME NEW r \in Request, onNewConnection(r) PROVE StartsInv' /\ OneTaskPerRequest'
  BY <1>0, <1>1 DEF onNewConnection, HttpIdle
<1>2. ASSUME NEW r \in Request, NEW n \in 1 .. Total(r), waitForMore(r, n)
      PROVE StartsInv' /\ OneTaskPerRequest'
  BY <1>0, <1>2 DEF waitForMore
<1>3. ASSUME NEW r \in Request, NEW n \in 1 .. Total(r), handleQuery(r, n)
      PROVE StartsInv' /\ OneTaskPerRequest'
  BY <1>0, <1>3 DEF handleQuery, Respond, Reads, HttpIdle
<1>4. ASSUME NEW r \in Request, NEW n \in 1 .. Total(r), rejectInspect(r, n)
      PROVE StartsInv' /\ OneTaskPerRequest'
  BY <1>0, <1>4 DEF rejectInspect, Respond, Reads, HttpIdle
<1>5. ASSUME NEW r \in Request, NEW n \in 1 .. Total(r), NEW success \in BOOLEAN,
             sendTask(r, n, success)
      PROVE StartsInv' /\ OneTaskPerRequest'
  <2>1. CASE success
    <3>1. starts' = [starts EXCEPT ![r] = starts[r] + 1] BY <1>5, <2>1 DEF sendTask
    <3>2. starts[r] = 0 /\ answer[r] = "none" /\ socket[r] = "open"
      BY <1>5 DEF sendTask, Reads, HttpIdle
    <3>3. inspecting' = {r} /\ taskSent' /\ inspecting = {}
      BY <1>5, <2>1 DEF sendTask, Reads, HttpIdle
    <3> QED BY <1>0, <1>5, <3>1, <3>2, <3>3 DEF sendTask
  <2>2. CASE ~success
    <3>1. starts' = starts BY <1>5, <2>2 DEF sendTask
    <3>2. starts[r] = 0 /\ answer[r] = "none" /\ socket[r] = "open"
      BY <1>5 DEF sendTask, Reads, HttpIdle
    <3>3. inspecting' = {r} /\ ~taskSent' /\ inspecting = {}
      BY <1>5, <2>2 DEF sendTask, Reads, HttpIdle
    <3> QED BY <1>0, <1>5, <3>1, <3>2, <3>3 DEF sendTask
  <2> QED BY <2>1, <2>2
<1>6. ASSUME NEW r \in Request, finishInspect(r) PROVE StartsInv' /\ OneTaskPerRequest'
  <2>1. CASE taskSent
    <3>1. Respond(r, "started") /\ starts[r] = 1 BY <1>6, <2>1 DEF finishInspect
    <3> QED BY <1>0, <1>6, <3>1 DEF finishInspect, Respond
  <2>2. CASE ~taskSent
    <3>1. Respond(r, "failed") /\ starts[r] = 0 BY <1>6, <2>2 DEF finishInspect
    <3> QED BY <1>0, <1>6, <3>1 DEF finishInspect, Respond
  <2> QED BY <2>1, <2>2
<1>7. ASSUME NEW r \in Request, onClientDisconnected(r) PROVE StartsInv' /\ OneTaskPerRequest'
  BY <1>0, <1>7 DEF onClientDisconnected, HttpIdle
<1>8. ASSUME NEW p \in Pc, storeForensicData(p) PROVE StartsInv' /\ OneTaskPerRequest'
  BY <1>8 DEF storeForensicData
<1>9. ASSUME onForensicDataStored PROVE StartsInv' /\ OneTaskPerRequest'
  BY <1>9 DEF onForensicDataStored
<1>10. ASSUME stopServer PROVE StartsInv' /\ OneTaskPerRequest'
  BY <1>0, <1>10 DEF stopServer, HttpIdle
<1> HIDE DEF StartsInv, OneTaskPerRequest, requestVars, taskVars
<1> QED BY <1>1, <1>2, <1>3, <1>4, <1>5, <1>6, <1>7, <1>8, <1>9, <1>10 DEF HttpNext, HttpStep
-----------------------------------------------------------------------------
LEMMA BufferStep == HttpTypeOK /\ BufferInv /\ StartsInv /\ HttpNext => BufferInv'
<1> SUFFICES ASSUME HttpTypeOK, BufferInv, StartsInv, HttpNext PROVE BufferInv' OBVIOUS
<1>0. requestBuffers \in [Request -> Nat] /\ inspecting \in SUBSET Request
  BY DEF HttpTypeOK
<1>a. \A q \in Request, n \in Nat : Complete(q, n)' = Complete(q, n)
  BY DEF Complete, BodyRead
<1>1. ASSUME NEW r \in Request, HttpStep(r) PROVE BufferInv'
  <2>1. ASSUME UNCHANGED <<inspecting, requestBuffers>> PROVE BufferInv'
    BY <1>0, <1>a, <2>1 DEF BufferInv
  <2>2. ASSUME NEW n \in 1 .. Total(r), waitForMore(r, n) PROVE BufferInv'
    <3>1. n \in Nat BY LayoutTypes
    <3> QED BY <1>0, <1>a, <2>2, <3>1 DEF waitForMore, BufferInv
  <2>3. ASSUME inspecting' = inspecting, requestBuffers' = [requestBuffers EXCEPT ![r] = 0]
        PROVE BufferInv'
    BY <1>0, <1>a, <2>3 DEF BufferInv
  <2>4. ASSUME NEW n \in 1 .. Total(r), NEW success \in BOOLEAN, sendTask(r, n, success)
        PROVE BufferInv'
    <3>1. /\ inspecting = {}
          /\ inspecting' = {r}
          /\ requestBuffers' = [requestBuffers EXCEPT ![r] = n]
      BY <2>4 DEF sendTask, Reads, HttpIdle
    <3>2. \A q \in Request \ {r} : requestBuffers'[q] = requestBuffers[q] BY <1>0, <3>1
    <3> QED BY <1>0, <1>a, <3>1, <3>2 DEF BufferInv
  <2>5. ASSUME finishInspect(r) PROVE BufferInv'
    <3>1. r \in inspecting /\ inspecting' = {} BY <2>5 DEF finishInspect
    <3>2. requestBuffers' = [requestBuffers EXCEPT ![r] = 0]
      BY <2>5 DEF finishInspect, Respond
    <3>3. inspecting = {r} BY <1>0, <3>1 DEF StartsInv
    <3> QED BY <1>0, <1>a, <3>1, <3>2, <3>3 DEF BufferInv
  <2> QED BY <1>1, <2>1, <2>2, <2>3, <2>4, <2>5
          DEF HttpStep, onNewConnection, handleQuery, rejectInspect, Respond,
              onClientDisconnected
<1>2. ASSUME NEW p \in Pc, storeForensicData(p) PROVE BufferInv'
  BY <1>0, <1>a, <1>2 DEF storeForensicData, requestVars, BufferInv
<1>3. ASSUME onForensicDataStored PROVE BufferInv'
  BY <1>0, <1>a, <1>3 DEF onForensicDataStored, requestVars, BufferInv
<1>4. ASSUME stopServer PROVE BufferInv'
  BY <1>0, <1>a, <1>4 DEF stopServer, BufferInv
<1> QED BY <1>1, <1>2, <1>3, <1>4 DEF HttpNext

LEMMA NoRequestWaitsFromInv == HttpInv => NoRequestWaits
<1> SUFFICES ASSUME HttpTypeOK, BufferInv, NEW r \in Request,
                    requestBuffers[r] = Total(r)
             PROVE  r \in inspecting
  BY DEF HttpInv, NoRequestWaits
<1>1. requestBuffers[r] > 0 BY LayoutTypes DEF Total
<1>2. Complete(r, requestBuffers[r]) BY TotalComplete
<1> QED BY <1>1, <1>2 DEF BufferInv

LEMMA UnderstoodStep ==
    HttpTypeOK /\ InspectionsUnderstood /\ HttpNext => InspectionsUnderstood'
<1> SUFFICES ASSUME HttpTypeOK, InspectionsUnderstood, HttpNext
             PROVE  InspectionsUnderstood'
  OBVIOUS
<1>0. answer \in [Request -> {"none", "ok", "started", "badRequest", "failed", "notFound"}]
  BY DEF HttpTypeOK
<1> USE DEF InspectionsUnderstood, requestVars, taskVars
<1>1. ASSUME NEW r \in Request, HttpStep(r) PROVE InspectionsUnderstood'
  <2>1. ASSUME UNCHANGED answer PROVE InspectionsUnderstood'
    BY <2>1
  <2>2. ASSUME NEW what \in {"ok", "notFound", "started", "failed"},
               answer' = [answer EXCEPT ![r] = what]
        PROVE InspectionsUnderstood'
    BY <1>0, <2>2
  <2>3. ASSUME NEW n \in 1 .. Total(r), rejectInspect(r, n) PROVE InspectionsUnderstood'
    <3>1. answer' = [answer EXCEPT ![r] = "badRequest"] BY <2>3 DEF rejectInspect, Respond
    <3>2. ~(/\ PcOf[r] # NoPc /\ Layout[r].hasLength /\ Layout[r].narrow = 0
            /\ Layout[r].body > 0 /\ Layout[r].extra = 0)
      BY <2>3, CompleteIsExact DEF rejectInspect
    <3> QED BY <1>0, <3>1, <3>2
  <2>4. ASSUME NEW n \in 1 .. Total(r), handleQuery(r, n) PROVE InspectionsUnderstood'
    BY <2>2, <2>4 DEF handleQuery, Respond
  <2>5. ASSUME finishInspect(r) PROVE InspectionsUnderstood'
    BY <2>2, <2>5 DEF finishInspect, Respond
  <2> HIDE DEF InspectionsUnderstood
  <2> QED BY <1>1, <2>1, <2>3, <2>4, <2>5
          DEF HttpStep, onNewConnection, waitForMore, sendTask, onClientDisconnected
<1>2. UNCHANGED answer => InspectionsUnderstood' OBVIOUS
<1> HIDE DEF InspectionsUnderstood
<1> QED BY <1>1, <1>2 DEF HttpNext, storeForensicData, onForensicDataStored, stopServer
-----------------------------------------------------------------------------
LEMMA StatusStep == HttpTypeOK /\ StartsInv /\ StatusInv /\ HttpNext => StatusInv'
<1> SUFFICES ASSUME HttpTypeOK, StartsInv, StatusInv, HttpNext PROVE StatusInv' OBVIOUS
<1>0. /\ taskStatuses \in [TaskId -> {"unknown", "running", "completed"}]
      /\ assigned \in [Pc -> SUBSET TaskId]
      /\ storedEvents \in Seq(TaskId)
      /\ everStored \in SUBSET TaskId
      /\ storedSince \in SUBSET TaskId
      /\ inspecting \in SUBSET Request
  BY DEF HttpTypeOK
<1>1. ASSUME UNCHANGED <<inspecting, taskSent, taskStatuses, taskVars>> PROVE StatusInv'
  BY <1>1 DEF StatusInv, Inspecting, Contains, taskVars
<1>2. ASSUME NEW r \in Request, NEW n \in 1 .. Total(r), NEW success \in BOOLEAN,
             sendTask(r, n, success)
      PROVE  StatusInv'
  <2> USE <1>2 DEF sendTask, Reads, HttpIdle
  <2>1. /\ \A t \in TaskId : ~Inspecting(t)
        /\ \A t \in TaskId : Inspecting(t)' <=> success /\ TaskOf[r] = t
    BY DEF Inspecting
  <2>2. \A t \in TaskId : Contains(storedEvents, t)' <=> Contains(storedEvents, t)
    BY DEF Contains
  <2>3. CASE success
    <3>1. /\ assigned' = [assigned EXCEPT ![PcOf[r]] = {TaskOf[r]}]
          /\ storedSince' = storedSince \ {TaskOf[r]}
      BY <2>3
    <3>2. \A t \in TaskId : (\E p \in Pc : t \in assigned'[p])
              => t = TaskOf[r] \/ (\E p \in Pc : t \in assigned[p])
      BY <1>0, <3>1
    <3> QED BY <1>0, <2>1, <2>2, <2>3, <3>1, <3>2 DEF StatusInv
  <2>4. CASE ~success
    <3>1. UNCHANGED <<assigned, storedSince>> BY <2>4
    <3> QED BY <1>0, <2>1, <2>2, <2>4, <3>1 DEF StatusInv
  <2> QED BY <2>3, <2>4
<1>3. ASSUME NEW r \in Request, finishInspect(r) PROVE StatusInv'
  <2>1. inspecting = {r} BY <1>0, <1>3 DEF finishInspect, StartsInv
  <2>2. /\ \A t \in TaskId : Inspecting(t) <=> taskSent /\ TaskOf[r] = t
        /\ \A t \in TaskId : ~Inspecting(t)'
    BY <1>3, <2>1 DEF Inspecting, finishInspect
  <2>3. \A t \in TaskId : Contains(storedEvents, t)' <=> Contains(storedEvents, t)
    BY <1>3 DEF finishInspect, taskVars, Contains
  <2>4. UNCHANGED <<assigned, storedSince, everStored>> BY <1>3 DEF finishInspect, taskVars
  <2>5. CASE taskSent
    <3>1. taskStatuses' = [taskStatuses EXCEPT ![TaskOf[r]] = "running"]
      BY <1>3, <2>5 DEF finishInspect
    <3> QED BY <1>0, <2>2, <2>3, <2>4, <2>5, <3>1 DEF StatusInv
  <2>6. CASE ~taskSent
    <3>1. UNCHANGED taskStatuses BY <1>3, <2>6 DEF finishInspect
    <3> QED BY <1>0, <2>2, <2>3, <2>4, <2>6, <3>1 DEF StatusInv
  <2> QED BY <2>5, <2>6
<1>4. ASSUME NEW p \in Pc, storeForensicData(p) PROVE StatusInv'
  <2>1. PICK s \in assigned[p] : /\ storedEvents' = Append(storedEvents, s)
                                 /\ everStored' = everStored \cup {s}
                                 /\ storedSince' = storedSince \cup {s}
                                 /\ UNCHANGED <<requestVars, taskStatuses, assigned>>
    BY <1>4 DEF storeForensicData
  <2>2. s \in TaskId BY <1>0
  <2>3. \A t \in TaskId : Contains(storedEvents, t)' <=> Contains(storedEvents, t) \/ t = s
    BY <1>0, <2>1, <2>2, AppendContains DEF Contains
  <2>4. \A t \in TaskId : Inspecting(t)' <=> Inspecting(t)
    BY <2>1 DEF requestVars, Inspecting
  <2> QED BY <1>0, <2>1, <2>2, <2>3, <2>4 DEF StatusInv
<1>5. ASSUME onForensicDataStored PROVE StatusInv'
  <2> DEFINE s == Head(storedEvents)
  <2>1. storedEvents # <<>> /\ inspecting = {} /\ UNCHANGED inspecting
    BY <1>5 DEF onForensicDataStored, HttpIdle, requestVars
  <2>2. /\ s \in TaskId
        /\ \A t \in TaskId : Contains(storedEvents, t) <=> t = s \/ Contains(storedEvents, t)'
    BY <1>0, <1>5, <2>1, TailContains DEF onForensicDataStored, Contains
  <2>3. \A t \in TaskId : ~Inspecting(t) /\ ~Inspecting(t)' BY <2>1 DEF Inspecting
  <2>4. UNCHANGED <<assigned, everStored, storedSince>> BY <1>5 DEF onForensicDataStored
  <2>5. CASE taskStatuses[s] = "unknown"
    <3>1. UNCHANGED taskStatuses BY <1>5, <2>5 DEF onForensicDataStored
    <3> QED BY <1>0, <2>2, <2>3, <2>4, <2>5, <3>1 DEF StatusInv
  <2>6. CASE taskStatuses[s] # "unknown"
    <3>1. taskStatuses' = [taskStatuses EXCEPT ![s] = "completed"]
      BY <1>5, <2>6 DEF onForensicDataStored
    <3> QED BY <1>0, <2>2, <2>3, <2>4, <2>6, <3>1 DEF StatusInv
  <2> QED BY <2>5, <2>6
<1> QED BY <1>1, <1>2, <1>3, <1>4, <1>5
        DEF HttpNext, HttpStep, onNewConnection, waitForMore, handleQuery, rejectInspect,
            onClientDisconnected, stopServer

-----------------------------------------------------------------------------
LEMMA HttpStepInv == HttpInv /\ [HttpNext]_httpVars => HttpInv'
<1>1. HttpInv /\ HttpNext => HttpInv'
  BY TypeStep, StartsStep, BufferStep, UnderstoodStep, StatusStep DEF HttpInv
<1>2. ASSUME HttpInv, UNCHANGED httpVars PROVE HttpInv'
  <2> USE <1>2 DEF httpVars
  <2>1. HttpTypeOK' BY DEF HttpInv, HttpTypeOK, Total
  <2>2. StartsInv' BY DEF HttpInv, StartsInv
  <2>3. OneTaskPerRequest' BY DEF HttpInv, OneTaskPerRequest
  <2>4. BufferInv' BY DEF HttpInv, BufferInv, Complete, BodyRead
  <2>5. InspectionsUnderstood' BY DEF HttpInv, InspectionsUnderstood
  <2>6. StatusInv' BY DEF HttpInv, StatusInv, Inspecting, Contains
  <2> QED BY <2>1, <2>2, <2>3, <2>4, <2>5, <2>6 DEF HttpInv
<1> QED BY <1>1, <1>2

LEMMA StatusTellsFromInv == HttpInv => StatusTellsFirstRow
BY DEF HttpInv, StatusInv, StatusTellsFirstRow, HttpIdle, Inspecting

\* The invariant of the HTTP API, for any requests and any behaviour of the agents.
THEOREM HttpSpec_Inv == HttpSpec => []HttpInv
BY HttpInitInv, HttpStepInv, PTL DEF HttpSpec

\* The variables keep their types, and an answered socket has no buffer.
THEOREM HttpSpec_TypeOK == HttpSpec => []HttpTypeOK
BY HttpSpec_Inv, PTL DEF HttpInv

\* A request starts at most one task, and exactly the "started" ones did.
THEOREM HttpSpec_OneTaskPerRequest == HttpSpec => []OneTaskPerRequest
BY HttpSpec_Inv, PTL DEF HttpInv

\* No whole request waits in a buffer.
THEOREM HttpSpec_NoRequestWaits == HttpSpec => []NoRequestWaits
BY HttpSpec_Inv, NoRequestWaitsFromInv, PTL

\* No inspection with a narrow header and a Content-Length is misread.
THEOREM HttpSpec_InspectionsUnderstood == HttpSpec => []InspectionsUnderstood
BY HttpSpec_Inv, PTL DEF HttpInv

\* The status of a task id tells whether a row was stored under it.
THEOREM HttpSpec_StatusTellsFirstRow == HttpSpec => []StatusTellsFirstRow
BY HttpSpec_Inv, StatusTellsFromInv, PTL

-----------------------------------------------------------------------------
(***************************************************************************)
(* The lifecycle, and the server as the composition of both                *)
(***************************************************************************)

\* The places of the main thread while it runs an accept thread, may find client
\* threads, and has its listener.
ListenPhase == {"http", "ready", "exec", "stopHttp", "stopRunning"}
AcceptPhase == ListenPhase \cup {"closeSocket", "joinAccept"}
ThreadPhase == AcceptPhase \cup {"joinClients"}

PhaseInv ==
    /\ currentState = "RUNNING" => mainAt \in {"ready", "exec", "stopHttp", "killed"}
    /\ mainAt \in ListenPhase => isRunning /\ serverSocket = "listening"
    /\ mainAt \in ThreadPhase \cup {"init", "listen", "disconnect"} => databaseConnected
    /\ acceptThread \in {"check", "accept", "emplace"} => mainAt \in AcceptPhase \cup {"killed"}
    /\ \A c \in Connection : clientThread[c] \in {"check", "recv", "handle", "cleanup"}
                                 => mainAt \in ThreadPhase \cup {"killed"}

LifecycleInv == LifecycleTypeOK /\ RunningServes /\ PhaseInv

LEMMA LifecycleInitInv == LifecycleInit => LifecycleInv
BY DEF LifecycleInit, LifecycleInv, LifecycleTypeOK, RunningServes, PhaseInv, StartSteps,
       ListenPhase, AcceptPhase, ThreadPhase

LEMMA MainStep ==
    ASSUME LifecycleInv,
           Startup \/ signalHandler \/ terminate \/ leaveLoop \/ stopHttpServer \/ Shutdown
    PROVE  LifecycleInv'
<1> USE DEF LifecycleInv, LifecycleTypeOK, RunningServes, PhaseInv, StartSteps, StopSteps,
            ListenPhase, AcceptPhase, ThreadPhase, serverVars, threadVars, startFails
<1>1. CASE connectDatabase
  <2>a. databaseConnected' \in BOOLEAN BY <1>1, Zenon DEF connectDatabase
  <2>b. /\ mainAt' \in {"init", "destroy"}
        /\ currentState' \in {currentState, "ERROR"}
        /\ UNCHANGED <<quitHandler, quitRequested, isRunning, serverSocket, httpRunning,
                       threadVars>>
    BY <1>1 DEF connectDatabase
  <2>1. LifecycleTypeOK' BY <2>a, <2>b
  <2>2. RunningServes' BY <1>1 DEF connectDatabase
  <2>3. PhaseInv' BY <1>1 DEF connectDatabase
  <2> QED BY <2>1, <2>2, <2>3
<1>2. CASE NetworkManagerInit BY <1>2 DEF NetworkManagerInit
<1>3. CASE NetworkManagerStart
  <2>a. isRunning' \in BOOLEAN BY <1>3, Zenon DEF NetworkManagerStart
  <2>b. /\ mainAt' \in {"http", "destroy"}
        /\ currentState' \in {currentState, "ERROR"}
        /\ serverSocket' \in {serverSocket, "listening"}
        /\ acceptThread' \in {acceptThread, "check"}
    BY <1>3 DEF NetworkManagerStart
  <2>c. UNCHANGED <<quitHandler, quitRequested, databaseConnected, httpRunning, accepted,
                    clientThread, agent>>
    BY <1>3, Zenon DEF NetworkManagerStart
  <2>d. mainAt = "listen" BY <1>3 DEF NetworkManagerStart
  <2>e. acceptThread # "emplace" BY <2>d
  <2>1. LifecycleTypeOK' BY <2>a, <2>b, <2>c, <2>e
  <2>2. RunningServes' BY <1>3 DEF NetworkManagerStart
  <2>3. PhaseInv' BY <1>3 DEF NetworkManagerStart
  <2> QED BY <2>1, <2>2, <2>3
<1>4. CASE startServer BY <1>4 DEF startServer
<1>5. CASE enterLoop BY <1>5 DEF enterLoop
<1>6. CASE signalHandler
  <2>1. quitRequested' \in BOOLEAN BY <1>6, Zenon DEF signalHandler, InLoop
  <2>2. /\ quitHandler' = FALSE
        /\ UNCHANGED <<mainAt, currentState, databaseConnected, isRunning, serverSocket,
                       httpRunning, acceptThread, accepted, clientThread, agent>>
    BY <1>6, Zenon DEF signalHandler
  <2>3. quitHandler' \in BOOLEAN BY <2>2
  <2>4. LifecycleTypeOK' BY <2>1, <2>2, <2>3
  <2>5. RunningServes' BY <2>2
  <2>6. PhaseInv' BY <2>2
  <2> QED BY <2>4, <2>5, <2>6
<1>7. CASE terminate BY <1>7 DEF terminate
<1>8. CASE leaveLoop BY <1>8 DEF leaveLoop, InLoop
<1>9. CASE stopHttpServer BY <1>9 DEF stopHttpServer
<1>10. CASE stopRunning BY <1>10 DEF stopRunning
<1>11. CASE closeSocket BY <1>11 DEF closeSocket
<1>12. CASE joinAcceptThread BY <1>12 DEF joinAcceptThread
<1>13. CASE joinClientThreads BY <1>13 DEF joinClientThreads
<1>14. CASE disconnectDatabase BY <1>14 DEF disconnectDatabase
<1>15. CASE destroyServer BY <1>15 DEF destroyServer
<1> QED
  BY <1>1, <1>2, <1>3, <1>4, <1>5, <1>6, <1>7, <1>8, <1>9, <1>10, <1>11, <1>12, <1>13,
     <1>14, <1>15 DEF Startup, Shutdown

LEMMA AcceptStep ==
    ASSUME LifecycleInv, Accepting
    PROVE  LifecycleInv'
<1> USE DEF LifecycleInv, LifecycleTypeOK, RunningServes, PhaseInv, ListenPhase, AcceptPhase,
            ThreadPhase, serverVars, Alive
<1>1. CASE acceptCheck BY <1>1 DEF acceptCheck
<1>2. ASSUME NEW c \in Connection, acceptClient(c) PROVE LifecycleInv'
  BY <1>2 DEF acceptClient
<1>3. CASE acceptFails BY <1>3 DEF acceptFails
<1>4. CASE startClientThread
  <2>1. mainAt \in AcceptPhase BY <1>4 DEF startClientThread
  <2>2. clientThread' \in
            [Connection -> {"none", "check", "recv", "handle", "cleanup", "ended"}]
    BY <1>4 DEF startClientThread
  <2> QED BY <1>4, <2>1, <2>2 DEF startClientThread
<1> QED BY <1>1, <1>2, <1>3, <1>4 DEF Accepting

LEMMA ClientStep ==
    ASSUME LifecycleInv, NEW c \in Connection,
           Serving(c) \/ receiveMessage(c) \/ handleMessage(c) \/ agentConnects(c)
           \/ agentHangsUp(c)
    PROVE  LifecycleInv'
<1> USE DEF LifecycleInv, LifecycleTypeOK, RunningServes, PhaseInv, serverVars, Alive
<1>1. ASSUME NEW from \in {"check", "recv", "handle", "cleanup"},
             NEW to \in {"check", "recv", "handle", "cleanup", "ended"},
             ThreadStep(c, from, to)
      PROVE LifecycleInv'
  BY <1>1 DEF ThreadStep
<1>2. CASE Serving(c) BY <1>1, <1>2 DEF Serving, clientCheck, receiveFails, cleanupClient
<1>3. CASE receiveMessage(c) BY <1>1, <1>3 DEF receiveMessage
<1>4. CASE handleMessage(c) BY <1>1, <1>4 DEF handleMessage
<1>5. CASE agentConnects(c) BY <1>5 DEF agentConnects
<1>6. CASE agentHangsUp(c) BY <1>6 DEF agentHangsUp
<1> QED BY <1>2, <1>3, <1>4, <1>5, <1>6

LEMMA LifecycleStepInv == LifecycleInv /\ [LifecycleNext]_lifecycleVars => LifecycleInv'
<1>1. LifecycleInv /\ LifecycleNext => LifecycleInv'
  BY MainStep, AcceptStep, ClientStep DEF LifecycleNext
<1>2. LifecycleInv /\ UNCHANGED lifecycleVars => LifecycleInv'
  BY DEF lifecycleVars, LifecycleInv, LifecycleTypeOK, RunningServes, PhaseInv
<1> QED BY <1>1, <1>2

-----------------------------------------------------------------------------
\* A step of the server is a step of its lifecycle, or leaves that alone.
LEMMA NextIsLifecycleStep == [Next]_vars => [LifecycleNext]_lifecycleVars
BY DEF Next, vars, MainAlone, quit, stopHttp, HttpEvent, Threads, handle, LifecycleNext

\* A step of the server is a step of its HTTP API, or leaves that alone.
LEMMA NextIsHttpStep == [Next]_vars => [HttpNext]_httpVars
BY PcAssumption
   DEF Next, vars, MainAlone, quit, stopHttp, HttpEvent, Threads, handle, HttpNext

LEMMA LifecycleProps == LifecycleInv => ThreadsFindDatabase /\ NoThreadOutlives
BY DEF LifecycleInv, LifecycleTypeOK, PhaseInv, ListenPhase, AcceptPhase, ThreadPhase,
       ThreadsFindDatabase, NoThreadOutlives, Alive

\* The server implements its lifecycle's specification: the HTTP API adds no step to
\* it, and the loop that runs the API takes none away.
THEOREM Spec_ImplementsLifecycle == Spec => LifecycleSpec
BY NextIsLifecycleStep, PTL DEF Spec, Init, LifecycleSpec

\* The server implements its HTTP API's specification, whatever the lifecycle does.
THEOREM Spec_ImplementsHttp == Spec => HttpSpec
BY NextIsHttpStep, PTL DEF Spec, Init, HttpSpec

\* The invariant of the lifecycle.
THEOREM Spec_LifecycleInv == Spec => []LifecycleInv
<1>1. LifecycleSpec => []LifecycleInv
  BY LifecycleInitInv, LifecycleStepInv, PTL DEF LifecycleSpec
<1> QED BY <1>1, Spec_ImplementsLifecycle, PTL

\* The server's variables keep their types.
THEOREM Spec_TypeOK == Spec => []TypeOK
<1>1. LifecycleInv => LifecycleTypeOK BY DEF LifecycleInv
<1>2. LifecycleTypeOK /\ HttpTypeOK => TypeOK BY DEF TypeOK
<1> QED BY <1>1, <1>2, Spec_LifecycleInv, HttpSpec_TypeOK, Spec_ImplementsHttp, PTL

\* A server that says it runs has its database and listens.
THEOREM Spec_RunningServes == Spec => []RunningServes
<1>1. LifecycleInv => RunningServes BY DEF LifecycleInv
<1> QED BY <1>1, Spec_LifecycleInv, PTL

\* Threads that use the database find it connected, also while stop runs.
THEOREM Spec_ThreadsFindDatabase == Spec => []ThreadsFindDatabase
BY LifecycleProps, Spec_LifecycleInv, PTL

\* No thread outlives the server's objects.
THEOREM Spec_NoThreadOutlives == Spec => []NoThreadOutlives
BY LifecycleProps, Spec_LifecycleInv, PTL

\* What the status of a task id says holds in the composed server, too.
THEOREM Spec_StatusTellsFirstRow == Spec => []StatusTellsFirstRow
BY HttpSpec_StatusTellsFirstRow, Spec_ImplementsHttp, PTL

\* stop and the threads never wait for one another in a circle: the accept thread
\* is not at the mutex while stop holds it to join the client threads, and it
\* can start none that stop would miss.
NoCircularWait ==
    ClientThreadsLocked => acceptThread \in {"none", "ended"}

\* The safety half of StopEnds, for any number of connections.
THEOREM Spec_NoCircularWait == Spec => []NoCircularWait
<1>1. LifecycleInv => NoCircularWait
  BY DEF LifecycleInv, LifecycleTypeOK, PhaseInv, AcceptPhase, ListenPhase, NoCircularWait,
         ClientThreadsLocked
<1> QED  BY <1>1, Spec_LifecycleInv, PTL

\* No client thread starts once stop has begun to join them, so that it ends
\* with all of them joined.
THEOREM Spec_JoinsAll ==
    Spec => [][mainAt = "joinClients" =>
                  \A c \in Connection : clientThread[c] = "none" => clientThread'[c] = "none"]_vars
<1>1. ASSUME LifecycleInv, [LifecycleNext]_lifecycleVars, mainAt = "joinClients",
             NEW c \in Connection, clientThread[c] = "none"
      PROVE  clientThread'[c] = "none"
  <2>1. acceptThread \in {"none", "ended"} /\ DOMAIN clientThread = Connection
    BY <1>1 DEF LifecycleInv, LifecycleTypeOK, PhaseInv, AcceptPhase, ListenPhase
  <2>2. CASE Startup \/ signalHandler \/ terminate \/ leaveLoop \/ stopHttpServer \/ Shutdown
    BY <1>1, <2>2
       DEF Startup, Shutdown, connectDatabase, NetworkManagerInit, NetworkManagerStart,
           startServer, enterLoop, signalHandler, terminate, leaveLoop, stopHttpServer, stopRunning,
           closeSocket, joinAcceptThread, joinClientThreads, disconnectDatabase, destroyServer,
           threadVars
  <2>3. CASE Accepting
    BY <2>1, <2>3 DEF Accepting, acceptCheck, acceptClient, acceptFails, startClientThread
  <2>4. ASSUME NEW d \in Connection,
               Serving(d) \/ receiveMessage(d) \/ handleMessage(d) \/ agentConnects(d)
               \/ agentHangsUp(d)
        PROVE  clientThread'[c] = "none"
    BY <1>1, <2>1, <2>4
       DEF Serving, clientCheck, receiveFails, cleanupClient, receiveMessage, handleMessage,
           agentConnects, agentHangsUp, ThreadStep
  <2>5. CASE UNCHANGED lifecycleVars
    BY <1>1, <2>5 DEF lifecycleVars, threadVars
  <2> QED  BY <1>1, <2>2, <2>3, <2>4, <2>5 DEF LifecycleNext
<1>2. LifecycleInv /\ [Next]_vars
          => (mainAt = "joinClients" =>
                 \A c \in Connection : clientThread[c] = "none" => clientThread'[c] = "none")
  BY <1>1, NextIsLifecycleStep
<1> QED  BY <1>2, Spec_LifecycleInv, PTL DEF Spec

=============================================================================
