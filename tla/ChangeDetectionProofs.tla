------------------------- MODULE ChangeDetectionProofs -------------------------
(***************************************************************************)
(* Proofs about ChangeDetection, for any PCs, fields and connections.      *)
(***************************************************************************)
EXTENDS ChangeDetection, TLAPS

-----------------------------------------------------------------------------
(***************************************************************************)
(* Types                                                                   *)
(***************************************************************************)

\* A row stays a row when it is written.
LEMMA RowWritten ==
    ASSUME row \in [Pc -> Row], NEW p \in Pc, NEW fields \in [Field -> Value],
           NEW first \in Nat, NEW scan, registerOrUpdateClient(p, fields, first, scan)
    PROVE  /\ row' \in [Pc -> Row]
           /\ row'[p].fields = fields
           /\ row'[p].scan = row[p].scan
           /\ row'[p].first = IF Known(p) THEN row[p].first ELSE first
           /\ \A q \in Pc \ {p} : row'[q] = row[q]
BY DEF registerOrUpdateClient, Row, Known

\* Rows with changes are rows.
LEMMA ChangesTyped ==
    ASSUME TypeOK, NEW c \in Conn, NEW fields \in [Field -> Value]
    PROVE  WithChanges(c, fields) \in [Field -> Value]
BY DEF WithChanges, TypeOK

\* What the statements of a registration do to the failures.
LEMMA QueryTyped ==
    ASSUME failures \in Nat, failed \in SUBSET Conn, NEW c \in Conn, NEW ok, executeQuery(c, ok)
    PROVE  failures' \in Nat /\ failed' \in SUBSET Conn
BY DEF executeQuery, dbVars

\* The queue stays a queue of signals.
LEMMA EventAppended ==
    ASSUME TypeOK, NEW c \in Conn, pc[c] \in Pc, NEW fields \in [Field -> Value]
    PROVE  /\ Append(events, [what |-> "clientInfoChanged", pc |-> pc[c], new |-> fields])
                  \in Seq(Event)
           /\ Append(events, [what |-> "pcChangesDetected", pc |-> pc[c], conn |-> c])
                  \in Seq(Event)
<1>1. [what |-> "clientInfoChanged", pc |-> pc[c], new |-> fields] \in Event
  BY DEF Event
<1>2. [what |-> "pcChangesDetected", pc |-> pc[c], conn |-> c] \in Event
  BY DEF Event
<1> QED  BY <1>1, <1>2 DEF TypeOK

\* The invariant of types holds at the beginning.
LEMMA InitTypeOK == Init => TypeOK
<1> SUFFICES ASSUME Init PROVE TypeOK  OBVIOUS
<1>1. row \in [Pc -> Row]
  BY ChangeAssumption DEF Init, Row
<1>2. seen \in [Conn -> Row]
  BY ChangeAssumption DEF Init, Row
<1>3. told \in [Pc -> [Field -> SUBSET Value]]
  BY ChangeAssumption DEF Init
<1>4. info \in [Conn -> [Field -> Value]] /\ events \in Seq(Event)
  BY ChangeAssumption DEF Init
<1> QED  BY <1>1, <1>2, <1>3, <1>4, ChangeAssumption DEF Init, TypeOK

\* Every step keeps the types.
LEMMA NextTypeOK == TypeOK /\ [Next]_vars => TypeOK'
<1> SUFFICES ASSUME TypeOK, [Next]_vars PROVE TypeOK'  OBVIOUS
<1> USE DEF Goto
<1>1. ASSUME NEW c \in Conn, NEW p \in Pc, NEW i \in Info, handlePCInfo(c, p, i) PROVE TypeOK'
  <2>1. i \in [Field -> Value]
    BY ChangeAssumption
  <2> QED  BY <1>1, <2>1 DEF handlePCInfo, TypeOK, dbVars
<1>2. ASSUME NEW c \in Conn, NEW ok \in BOOLEAN, lookupClient(c, ok) PROVE TypeOK'
  <2>1. failures' \in Nat /\ failed' \in SUBSET Conn
    BY <1>2, QueryTyped DEF lookupClient, TypeOK
  <2>2. pc[c] \in Pc
    BY <1>2 DEF lookupClient, TypeOK
  <2>3. pendingRegistrations' \in SUBSET Pc
    BY <1>2, <2>2 DEF lookupClient, TypeOK
  <2>4. CASE thread' = [thread EXCEPT ![c] = "detect"]
    BY <1>2, <2>1, <2>3, <2>4 DEF lookupClient, TypeOK, history
  <2>5. CASE thread' = [thread EXCEPT ![c] = "ownerRequired"]
    BY <1>2, <2>1, <2>3, <2>5 DEF lookupClient, TypeOK, history
  <2> QED  BY <1>2, <2>4, <2>5 DEF lookupClient
<1>3. ASSUME NEW c \in Conn, NEW ok \in BOOLEAN, detectPCChanges(c, ok) PROVE TypeOK'
  <2>1. failures' \in Nat /\ failed' \in SUBSET Conn
    BY <1>3, QueryTyped DEF detectPCChanges, TypeOK
  <2> QED  BY <1>3, <2>1 DEF detectPCChanges, TypeOK, history
<1>4. ASSUME NEW c \in Conn, NEW ok \in BOOLEAN, detectClientChanges(c, ok) PROVE TypeOK'
  <2>1. failures' \in Nat /\ failed' \in SUBSET Conn
    BY <1>4, QueryTyped DEF detectClientChanges, TypeOK
  <2>2. changedFields' \in [Conn -> SUBSET Field]
    BY <1>4 DEF detectClientChanges, TypeOK, Differences
  <2>3. lastDetection' \in [Pc -> Conn \cup {NoConn}]
    <3>1. lastDetection \in [Pc -> Conn \cup {NoConn}]
      BY DEF TypeOK
    <3>2. lastDetection' = lastDetection \/ lastDetection' = [lastDetection EXCEPT ![pc[c]] = c]
      BY <1>4 DEF detectClientChanges
    <3> QED  BY <3>1, <3>2
  <2>4. CASE thread' = [thread EXCEPT ![c] = "done"] /\ detecting' = {}
    <3>1. \A d \in Conn : thread'[d] \notin {"compare", "prepare", "emit"}
      BY <1>4, <2>4 DEF detectClientChanges, TypeOK
    <3> QED  BY <1>4, <2>1, <2>2, <2>3, <2>4, <3>1 DEF detectClientChanges, TypeOK
  <2>5. CASE thread' = [thread EXCEPT ![c] = "prepare"] /\ detecting' = {c}
    BY <1>4, <2>1, <2>2, <2>3, <2>5 DEF detectClientChanges, TypeOK
  <2> QED  BY <1>4, <2>4, <2>5 DEF detectClientChanges, HoldsMutex
<1>5. ASSUME NEW c \in Conn, NEW ok \in BOOLEAN, prepareClientUpdateRequest(c, ok) PROVE TypeOK'
  <2>1. failures' \in Nat /\ failed' \in SUBSET Conn
    BY <1>5, QueryTyped DEF prepareClientUpdateRequest, TypeOK
  <2>2. pc[c] \in Pc
    BY <1>5 DEF prepareClientUpdateRequest, TypeOK
  <2>3. row[pc[c]].fields \in [Field -> Value]
    BY <2>2 DEF TypeOK, Row
  <2>4. events' \in Seq(Event)
    <3>1. WithChanges(c, row[pc[c]].fields) \in [Field -> Value]
      BY <2>3, ChangesTyped
    <3>2. Append(events, [what |-> "clientInfoChanged", pc |-> pc[c],
                          new |-> WithChanges(c, row[pc[c]].fields)]) \in Seq(Event)
      BY <2>2, <3>1, EventAppended
    <3> QED  BY <1>5, <3>2 DEF prepareClientUpdateRequest, TypeOK
  <2>5. untold' \in SUBSET Pc
    BY <1>5, <2>2 DEF prepareClientUpdateRequest, TypeOK
  <2> QED  BY <1>5, <2>1, <2>4, <2>5 DEF prepareClientUpdateRequest, TypeOK, history
<1>6. ASSUME NEW c \in Conn, emitPcChangesDetected(c) PROVE TypeOK'
  <2>1. pc[c] \in Pc /\ row[pc[c]].fields \in [Field -> Value]
    BY <1>6 DEF emitPcChangesDetected, TypeOK, Row
  <2>2. Append(events, [what |-> "pcChangesDetected", pc |-> pc[c], conn |-> c]) \in Seq(Event)
    BY <2>1, EventAppended
  <2>3. events' \in Seq(Event)
    BY <1>6, <2>2 DEF emitPcChangesDetected
  <2> QED  BY <1>6, <2>3 DEF emitPcChangesDetected, TypeOK, dbVars, history
<1>7. ASSUME NEW c \in Conn, NEW ok \in BOOLEAN, readForUpdate(c, ok) PROVE TypeOK'
  <2>1. failures' \in Nat /\ failed' \in SUBSET Conn
    BY <1>7, QueryTyped DEF readForUpdate, TypeOK
  <2>2. seen' \in [Conn -> Row]
    <3>1. pc[c] \in Pc /\ row[pc[c]] \in Row /\ seen \in [Conn -> Row]
      BY <1>7 DEF readForUpdate, TypeOK
    <3>2. seen' = seen \/ seen' = [seen EXCEPT ![c] = row[pc[c]]]
      BY <1>7 DEF readForUpdate
    <3> QED  BY <3>1, <3>2
  <2>3. CASE thread' = [thread EXCEPT ![c] = "write"]
    BY <1>7, <2>1, <2>2, <2>3 DEF readForUpdate, TypeOK, history
  <2>4. CASE thread' = [thread EXCEPT ![c] = "done"]
    BY <1>7, <2>1, <2>2, <2>4 DEF readForUpdate, TypeOK, history
  <2> QED  BY <1>7, <2>3, <2>4 DEF readForUpdate
<1>8. ASSUME NEW c \in Conn, NEW ok \in BOOLEAN, processPCChanges(c, ok) PROVE TypeOK'
  <2>1. failures' \in Nat /\ failed' \in SUBSET Conn
    BY <1>8, QueryTyped DEF processPCChanges, TypeOK
  <2>2. pc[c] \in Pc /\ seen[c].fields \in [Field -> Value] /\ seen[c].first \in Nat
    BY <1>8 DEF processPCChanges, TypeOK, Row
  <2>3. row' \in [Pc -> Row]
    BY <1>8, <2>2, ChangesTyped, RowWritten DEF processPCChanges, TypeOK
  <2> QED  BY <1>8, <2>1, <2>3 DEF processPCChanges, TypeOK, history
<1>9. ASSUME NEW c \in Conn, verifyOwner(c) PROVE TypeOK'
  <2>1. told' \in [Pc -> [Field -> SUBSET Value]]
    BY <1>9 DEF verifyOwner, TypeOK
  <2> QED  BY <1>9, <2>1 DEF verifyOwner, TypeOK, dbVars, history
<1>10. ASSUME NEW c \in Conn, NEW success \in BOOLEAN, NEW ok \in BOOLEAN,
              onOwnerVerificationResult(c, success, ok)
       PROVE  TypeOK'
  <2>1. now' \in Nat \ {0} /\ pc[c] \in Pc /\ info[c] \in [Field -> Value]
    BY <1>10 DEF onOwnerVerificationResult, TypeOK
  <2>2. row' \in [Pc -> Row]
    BY <1>10, <2>1, RowWritten DEF onOwnerVerificationResult, TypeOK
  <2>3. failures' \in Nat /\ failed' \in SUBSET Conn
    BY <1>10, QueryTyped DEF onOwnerVerificationResult, TypeOK, dbVars
  <2> QED  BY <1>10, <2>1, <2>2, <2>3 DEF onOwnerVerificationResult, TypeOK, history
<1>11. ASSUME onClientInfoChanged PROVE TypeOK'
  <2>1. Head(events) \in Event /\ events' \in Seq(Event)
    BY <1>11 DEF onClientInfoChanged, TypeOK
  <2>2. Head(events).pc \in Pc /\ Head(events).new \in [Field -> Value]
    BY <1>11, <2>1 DEF onClientInfoChanged, Event
  <2>3. told' \in [Pc -> [Field -> SUBSET Value]]
    BY <1>11, <2>2 DEF onClientInfoChanged, TypeOK
  <2> QED  BY <1>11, <2>1, <2>3 DEF onClientInfoChanged, TypeOK, dbVars, history
<1>12. ASSUME onPCChangesDetected PROVE TypeOK'
  <2>1. Head(events) \in Event /\ events' \in Seq(Event)
    BY <1>12 DEF onPCChangesDetected, TypeOK
  <2>2. Head(events).pc \in Pc /\ Head(events).conn \in Conn
    BY <1>12, <2>1 DEF onPCChangesDetected, Event
  <2> QED  BY <1>12, <2>1, <2>2 DEF onPCChangesDetected, TypeOK, dbVars, history
<1>13. ASSUME NEW p \in Pc, updateClientRecentScan(p) PROVE TypeOK'
  <2>1. row[p] \in Row /\ row[p].scan + 1 \in 0 .. MaxScans
    BY <1>13, ChangeAssumption DEF updateClientRecentScan, TypeOK, Row
  <2>2. row' = [row EXCEPT ![p] = [row[p] EXCEPT !.scan = row[p].scan + 1]]
    BY <1>13, <2>1 DEF updateClientRecentScan, TypeOK
  <2>3. [row[p] EXCEPT !.scan = row[p].scan + 1] \in Row
    BY <2>1 DEF Row
  <2>4. row' \in [Pc -> Row] /\ lastScan' \in [Pc -> 0 .. MaxScans]
    BY <1>13, <2>1, <2>2, <2>3 DEF updateClientRecentScan, TypeOK
  <2> QED  BY <1>13, <2>4 DEF updateClientRecentScan, TypeOK, dbVars
<1>14. CASE UNCHANGED vars
  BY <1>14 DEF vars, history, TypeOK
<1> QED
  BY <1>1, <1>2, <1>3, <1>4, <1>5, <1>6, <1>7, <1>8, <1>9, <1>10, <1>11, <1>12, <1>13, <1>14
     DEF Next, ThreadStep

\* Every variable of the change detection keeps its type; the mutex has one
\* holder, and that one is inside the detection.
THEOREM Spec_TypeOK == Spec => []TypeOK
BY InitTypeOK, NextTypeOK, PTL DEF Spec

-----------------------------------------------------------------------------
(***************************************************************************)
(* What is written is told.  WrittenIsTold is not inductive: a client      *)
(* thread writes what it read before, and what it reported before.  Each   *)
(* was told when the thread got that far.                                  *)
(***************************************************************************)

\* What a registration holds is known to the backend.
Settled(c) ==
    /\ thread[c] \in {"detect", "compare", "prepare", "emit", "process", "write"} => Known(pc[c])
    /\ pc[c] \notin untold => \A f \in Field :
          /\ thread[c] \in {"emit", "process", "write"}
             /\ f \in changedFields[c] /\ info[c][f] # Empty => info[c][f] \in Told(pc[c], f)
          /\ thread[c] = "write" => seen[c].fields[f] \in Told(pc[c], f)
    /\ thread[c] = "verifying" => \A f \in Field : info[c][f] \in told[pc[c]][f]

IInv == TypeOK /\ WrittenIsTold /\ \A c \in Conn : Settled(c)

\* A value is told, or a queued signal carries it.
LEMMA ToldOr ==
    ASSUME NEW p, NEW f, NEW v
    PROVE  /\ v \in Told(p, f) <=>
                \/ v \in told[p][f]
                \/ \E i \in DOMAIN events : /\ events[i].what = "clientInfoChanged"
                                            /\ events[i].pc = p
                                            /\ events[i].new[f] = v
           /\ v \in Told(p, f)' <=>
                \/ v \in told'[p][f]
                \/ \E i \in DOMAIN events' : /\ events'[i].what = "clientInfoChanged"
                                             /\ events'[i].pc = p
                                             /\ events'[i].new[f] = v
BY DEF Told

\* A signal that is queued loses none before it.
LEMMA ToldAppended ==
    ASSUME TypeOK, NEW e \in Event, events' = Append(events, e), told' = told
    PROVE  /\ \A p \in Pc, f \in Field : Told(p, f) \subseteq Told(p, f)'
           /\ e.what = "clientInfoChanged" =>
                 \A f \in Field : e.new[f] \in Told(e.pc, f)'
<1>1. /\ \A i \in DOMAIN events : i \in DOMAIN events' /\ events'[i] = events[i]
      /\ Len(events) + 1 \in DOMAIN events' /\ events'[Len(events) + 1] = e
  BY DEF TypeOK
<1>2. ASSUME NEW p \in Pc, NEW f \in Field, NEW v, v \in Told(p, f) PROVE v \in Told(p, f)'
  BY <1>1, <1>2, ToldOr
<1>3. ASSUME e.what = "clientInfoChanged", NEW f \in Field PROVE e.new[f] \in Told(e.pc, f)'
  BY <1>1, <1>3, ToldOr
<1> QED  BY <1>2, <1>3

\* A signal that is handled leaves the queue for told.
LEMMA ToldHandled ==
    ASSUME TypeOK, events # <<>>, events' = Tail(events),
           \A p \in Pc, f \in Field : told[p][f] \subseteq told'[p][f],
           Head(events).what = "clientInfoChanged" =>
               \A f \in Field : Head(events).new[f] \in told'[Head(events).pc][f]
    PROVE  \A p \in Pc, f \in Field : Told(p, f) \subseteq Told(p, f)'
<1> SUFFICES ASSUME NEW p \in Pc, NEW f \in Field, NEW v, v \in Told(p, f)
             PROVE  v \in Told(p, f)'
  OBVIOUS
<1>1. CASE v \in told[p][f]
  BY <1>1, ToldOr
<1>2. ASSUME NEW i \in DOMAIN events, events[i].what = "clientInfoChanged", events[i].pc = p,
             events[i].new[f] = v
      PROVE  v \in Told(p, f)'
  <2>1. CASE i = 1
    <3>1. Head(events) = events[i]
      BY <2>1
    <3> QED  BY <1>2, <3>1, ToldOr
  <2>2. CASE i # 1
    <3>1. i - 1 \in DOMAIN events' /\ events'[i - 1] = events[i]
      BY <2>2 DEF TypeOK
    <3> QED  BY <1>2, <3>1, ToldOr
  <2> QED  BY <2>1, <2>2
<1> QED  BY <1>1, <1>2, ToldOr

\* No step takes back what the backend is told, or takes a row away.
LEMMA NothingUntold ==
    ASSUME TypeOK, Next
    PROVE  /\ \A p \in Pc, f \in Field : Told(p, f) \subseteq Told(p, f)'
           /\ \A p \in Pc, f \in Field : told[p][f] \subseteq told'[p][f]
           /\ untold \subseteq untold'
           /\ \A p \in Pc : Known(p) => Known(p)'
<1> DEFINE Goal ==
        /\ \A p \in Pc, f \in Field : Told(p, f) \subseteq Told(p, f)'
        /\ \A p \in Pc, f \in Field : told[p][f] \subseteq told'[p][f]
        /\ untold \subseteq untold'
        /\ \A p \in Pc : Known(p) => Known(p)'
<1>1. ASSUME UNCHANGED <<events, told, untold, row>> PROVE Goal
  BY <1>1 DEF Told, Known
<1>2. ASSUME NEW c \in Conn, NEW p \in Pc, NEW i \in Info, handlePCInfo(c, p, i) PROVE Goal
  BY <1>1, <1>2 DEF handlePCInfo
<1>3. ASSUME NEW c \in Conn, NEW ok \in BOOLEAN,
             lookupClient(c, ok) \/ detectPCChanges(c, ok) \/ detectClientChanges(c, ok)
                 \/ readForUpdate(c, ok)
      PROVE  Goal
  BY <1>1, <1>3 DEF lookupClient, detectPCChanges, detectClientChanges, readForUpdate
<1>4. ASSUME NEW c \in Conn, NEW ok \in BOOLEAN, prepareClientUpdateRequest(c, ok) PROVE Goal
  <2>1. UNCHANGED <<row, told>> /\ untold \subseteq untold'
    BY <1>4 DEF prepareClientUpdateRequest
  <2>2. CASE events' = events
    BY <2>1, <2>2 DEF Told, Known
  <2>3. CASE events' # events
    <3> DEFINE e == [what |-> "clientInfoChanged", pc |-> pc[c],
                     new |-> WithChanges(c, row[pc[c]].fields)]
    <3>1. events' = Append(events, e)
      BY <1>4, <2>3 DEF prepareClientUpdateRequest
    <3>2. pc[c] \in Pc /\ row[pc[c]].fields \in [Field -> Value]
      BY <1>4 DEF prepareClientUpdateRequest, TypeOK, Row
    <3>3. e \in Event
      BY <3>2, ChangesTyped DEF Event
    <3> HIDE DEF e
    <3> QED  BY <2>1, <3>1, <3>3, ToldAppended DEF Known
  <2> QED  BY <2>2, <2>3
<1>5. ASSUME NEW c \in Conn, emitPcChangesDetected(c) PROVE Goal
  <2> DEFINE e == [what |-> "pcChangesDetected", pc |-> pc[c], conn |-> c]
  <2>1. e \in Event
    BY <1>5 DEF emitPcChangesDetected, TypeOK, Event
  <2>2. events' = Append(events, e) /\ UNCHANGED <<row, told, untold>>
    BY <1>5 DEF emitPcChangesDetected
  <2> HIDE DEF e
  <2> QED  BY <2>1, <2>2, ToldAppended DEF Known
<1>6. ASSUME NEW c \in Conn, NEW ok \in BOOLEAN, processPCChanges(c, ok) PROVE Goal
  <2>1. pc[c] \in Pc /\ seen[c].fields \in [Field -> Value] /\ seen[c].first \in Nat
    BY <1>6 DEF processPCChanges, TypeOK, Row
  <2>2. \A p \in Pc : Known(p) => row'[p].first # 0
    BY <1>6, <2>1, ChangesTyped, RowWritten DEF processPCChanges, TypeOK, Known
  <2> QED  BY <1>6, <2>2 DEF processPCChanges, Told, Known
<1>7. ASSUME NEW c \in Conn, verifyOwner(c) PROVE Goal
  <2>1. \A p \in Pc, f \in Field : told[p][f] \subseteq told'[p][f]
    BY <1>7 DEF verifyOwner, TypeOK
  <2>2. UNCHANGED <<events, untold, row>>
    BY <1>7 DEF verifyOwner
  <2>3. \A p \in Pc, f \in Field : Told(p, f) \subseteq Told(p, f)'
    BY <2>1, <2>2 DEF Told
  <2> QED  BY <2>1, <2>2, <2>3 DEF Known
<1>8. ASSUME NEW c \in Conn, NEW success \in BOOLEAN, NEW ok \in BOOLEAN,
             onOwnerVerificationResult(c, success, ok)
      PROVE  Goal
  <2>1. now' \in Nat /\ pc[c] \in Pc /\ info[c] \in [Field -> Value]
    BY <1>8 DEF onOwnerVerificationResult, TypeOK
  <2>2. \A p \in Pc : Known(p) => row'[p].first # 0
    BY <1>8, <2>1, RowWritten DEF onOwnerVerificationResult, TypeOK, Known
  <2> QED  BY <1>8, <2>2 DEF onOwnerVerificationResult, Told, Known
<1>9. ASSUME onClientInfoChanged PROVE Goal
  <2>1. Head(events) \in Event
    BY <1>9 DEF onClientInfoChanged, TypeOK
  <2>2. Head(events).pc \in Pc
    BY <1>9, <2>1 DEF onClientInfoChanged, Event
  <2>3. /\ \A p \in Pc, f \in Field : told[p][f] \subseteq told'[p][f]
        /\ \A f \in Field : Head(events).new[f] \in told'[Head(events).pc][f]
    BY <1>9, <2>2 DEF onClientInfoChanged, TypeOK
  <2>4. events # <<>> /\ events' = Tail(events) /\ UNCHANGED <<row, untold>>
    BY <1>9 DEF onClientInfoChanged
  <2> QED  BY <2>3, <2>4, ToldHandled DEF Known
<1>10. ASSUME onPCChangesDetected PROVE Goal
  <2>1. /\ events # <<>> /\ events' = Tail(events) /\ UNCHANGED <<row, untold, told>>
        /\ Head(events).what # "clientInfoChanged"
    BY <1>10 DEF onPCChangesDetected
  <2> QED  BY <2>1, ToldHandled DEF Known
<1>11. ASSUME NEW p \in Pc, updateClientRecentScan(p) PROVE Goal
  <2>1. \A q \in Pc : row'[q].first = row[q].first
    BY <1>11 DEF updateClientRecentScan, TypeOK, Row
  <2> QED  BY <1>11, <2>1 DEF updateClientRecentScan, Told, Known
<1> QED
  BY <1>2, <1>3, <1>4, <1>5, <1>6, <1>7, <1>8, <1>9, <1>10, <1>11 DEF Next, ThreadStep

\* A registration whose thread does not move stays settled, also when a statement
\* or a signal of another one changes the rest.
LEMMA StaysSettled ==
    ASSUME TypeOK, Next, NEW c \in Conn, Settled(c), thread'[c] = thread[c],
           pc'[c] = pc[c], info'[c] = info[c], changedFields'[c] = changedFields[c],
           seen'[c] = seen[c], thread[c] # "idle"
    PROVE  Settled(c)'
<1>1. pc[c] \in Pc
  BY DEF TypeOK
<1> QED  BY <1>1, NothingUntold DEF Settled

\* One that is idle or done holds nothing.
LEMMA RestIsSettled ==
    ASSUME NEW c \in Conn, thread'[c] \in {"idle", "lookup", "ownerRequired", "done"}
    PROVE  Settled(c)'
BY DEF Settled

\* Every step keeps every registration settled: the others do not move,
\* and the one that moves has told what it takes along.
LEMMA NextSettled ==
    ASSUME IInv, Next, NEW d \in Conn
    PROVE  Settled(d)'
<1> USE DEF IInv
<1>1. ASSUME thread'[d] = thread[d], pc'[d] = pc[d], info'[d] = info[d],
             changedFields'[d] = changedFields[d], seen'[d] = seen[d]
      PROVE  Settled(d)'
  <2>1. CASE thread[d] = "idle"
    BY <1>1, <2>1, RestIsSettled
  <2>2. CASE thread[d] # "idle"
    BY <1>1, <2>2, StaysSettled
  <2> QED  BY <2>1, <2>2
<1> USE DEF Goto
<1>2. ASSUME NEW c \in Conn, NEW p \in Pc, NEW i \in Info, handlePCInfo(c, p, i)
      PROVE  Settled(d)'
  <2>1. CASE c = d
    BY <1>2, <2>1, RestIsSettled DEF handlePCInfo, TypeOK
  <2>2. CASE c # d
    BY <1>1, <1>2, <2>2 DEF handlePCInfo, TypeOK
  <2> QED  BY <2>1, <2>2
<1>3. ASSUME NEW c \in Conn, NEW ok \in BOOLEAN, lookupClient(c, ok) PROVE Settled(d)'
  <2>1. CASE c = d /\ ok /\ Known(pc[c])
    <3>1. thread'[d] = "detect" /\ UNCHANGED <<row, pc>>
      BY <1>3, <2>1 DEF lookupClient, TypeOK
    <3> QED  BY <2>1, <3>1 DEF Settled, Known
  <2>2. CASE c = d /\ ~(ok /\ Known(pc[c]))
    BY <1>3, <2>2, RestIsSettled DEF lookupClient, TypeOK
  <2>3. CASE c # d
    BY <1>1, <1>3, <2>3 DEF lookupClient, TypeOK
  <2> QED  BY <2>1, <2>2, <2>3
<1>4. ASSUME NEW c \in Conn, NEW ok \in BOOLEAN, detectPCChanges(c, ok) PROVE Settled(d)'
  <2>1. CASE c = d
    <3>1. thread'[d] \in {"compare", "done"} /\ thread[d] = "detect" /\ UNCHANGED <<row, pc>>
      BY <1>4, <2>1 DEF detectPCChanges, TypeOK
    <3> QED  BY <2>1, <3>1 DEF Settled, Known
  <2>2. CASE c # d
    BY <1>1, <1>4, <2>2 DEF detectPCChanges, TypeOK
  <2> QED  BY <2>1, <2>2
<1>5. ASSUME NEW c \in Conn, NEW ok \in BOOLEAN, detectClientChanges(c, ok) PROVE Settled(d)'
  <2>1. CASE c = d
    <3>1. thread'[d] \in {"prepare", "done"} /\ thread[d] = "compare" /\ UNCHANGED <<row, pc>>
      BY <1>5, <2>1 DEF detectClientChanges, TypeOK
    <3> QED  BY <2>1, <3>1 DEF Settled, Known
  <2>2. CASE c # d
    BY <1>1, <1>5, <2>2 DEF detectClientChanges, TypeOK
  <2> QED  BY <2>1, <2>2
<1>6. ASSUME NEW c \in Conn, NEW ok \in BOOLEAN, prepareClientUpdateRequest(c, ok)
      PROVE  Settled(d)'
  <2>1. CASE c = d
    <3>1. /\ thread'[d] = "emit" /\ thread[d] = "prepare" /\ pc[d] \in Pc
          /\ UNCHANGED <<row, pc, info, changedFields>>
      BY <1>6, <2>1 DEF prepareClientUpdateRequest, TypeOK
    <3>2. Known(pc[d])'
      BY <3>1 DEF Settled, Known
    <3>3. CASE ok
      <4> DEFINE e == [what |-> "clientInfoChanged", pc |-> pc[d],
                       new |-> WithChanges(d, row[pc[d]].fields)]
      <4>1. events' = Append(events, e) /\ told' = told
        BY <1>6, <2>1, <3>3 DEF prepareClientUpdateRequest
      <4>2. row[pc[d]].fields \in [Field -> Value]
        BY <3>1 DEF TypeOK, Row
      <4>3. e \in Event
        BY <3>1, <4>2, ChangesTyped DEF Event
      <4>4. \A f \in Field : WithChanges(d, row[pc[d]].fields)[f] \in Told(pc[d], f)'
        <5>1. PICK g \in Event : g = e
          BY <4>3
        <5>2. /\ g.what = "clientInfoChanged" /\ g.pc = pc[d] /\ g.pc = pc'[d]
              /\ g.new = WithChanges(d, row[pc[d]].fields)
          BY <3>1, <5>1
        <5>3. \A f \in Field : g.new[f] \in Told(g.pc, f)'
          BY <4>1, <5>1, <5>2, ToldAppended
        <5> QED  BY <5>2, <5>3 DEF Told
      <4>5. \A f \in changedFields[d] \cap Field :
               info[d][f] # Empty => WithChanges(d, row[pc[d]].fields)[f] = info[d][f]
        BY DEF WithChanges
      <4> QED  BY <3>1, <3>2, <4>4, <4>5 DEF Settled
    <3>4. CASE ~ok
      <4>1. pc[d] \in untold'
        BY <1>6, <2>1, <3>4 DEF prepareClientUpdateRequest
      <4> QED  BY <3>1, <3>2, <4>1 DEF Settled
    <3> QED  BY <3>3, <3>4
  <2>2. CASE c # d
    BY <1>1, <1>6, <2>2 DEF prepareClientUpdateRequest, TypeOK
  <2> QED  BY <2>1, <2>2
<1>7. ASSUME NEW c \in Conn, emitPcChangesDetected(c) PROVE Settled(d)'
  <2>1. CASE c = d
    <3>1. /\ thread'[d] = "process" /\ thread[d] = "emit" /\ pc[d] \in Pc
          /\ UNCHANGED <<row, pc, info, changedFields, untold>>
      BY <1>7, <2>1 DEF emitPcChangesDetected, TypeOK
    <3> QED  BY <3>1, NothingUntold DEF Settled, Known
  <2>2. CASE c # d
    BY <1>1, <1>7, <2>2 DEF emitPcChangesDetected, TypeOK
  <2> QED  BY <2>1, <2>2
<1>8. ASSUME NEW c \in Conn, NEW ok \in BOOLEAN, readForUpdate(c, ok) PROVE Settled(d)'
  <2>1. CASE c = d /\ ok
    <3>1. /\ thread'[d] = "write" /\ thread[d] = "process" /\ pc[d] \in Pc
          /\ seen'[d] = row[pc[d]]
          /\ UNCHANGED <<row, pc, info, changedFields, events, told, untold>>
      BY <1>8, <2>1 DEF readForUpdate, TypeOK
    <3>2. Known(pc[d])
      BY <3>1 DEF Settled
    <3>3. pc[d] \notin untold => \A f \in Field : row[pc[d]].fields[f] \in Told(pc[d], f)
      BY <3>1, <3>2 DEF WrittenIsTold
    <3> QED  BY <3>1, <3>2, <3>3 DEF Settled, Told, Known
  <2>2. CASE c = d /\ ~ok
    BY <1>8, <2>2, RestIsSettled DEF readForUpdate, TypeOK
  <2>3. CASE c # d
    BY <1>1, <1>8, <2>3 DEF readForUpdate, TypeOK
  <2> QED  BY <2>1, <2>2, <2>3
<1>9. ASSUME NEW c \in Conn, NEW ok \in BOOLEAN, processPCChanges(c, ok) PROVE Settled(d)'
  <2>1. CASE c = d
    BY <1>9, <2>1, RestIsSettled DEF processPCChanges, TypeOK
  <2>2. CASE c # d
    BY <1>1, <1>9, <2>2 DEF processPCChanges, TypeOK
  <2> QED  BY <2>1, <2>2
<1>10. ASSUME NEW c \in Conn, verifyOwner(c) PROVE Settled(d)'
  <2>1. CASE c = d
    <3>1. /\ thread'[d] = "verifying" /\ pc[d] \in Pc /\ UNCHANGED <<pc, info>>
          /\ \A f \in Field : info[d][f] \in told'[pc[d]][f]
      BY <1>10, <2>1 DEF verifyOwner, TypeOK
    <3> QED  BY <3>1 DEF Settled
  <2>2. CASE c # d
    BY <1>1, <1>10, <2>2 DEF verifyOwner, TypeOK
  <2> QED  BY <2>1, <2>2
<1>11. ASSUME NEW c \in Conn, NEW success \in BOOLEAN, NEW ok \in BOOLEAN,
              onOwnerVerificationResult(c, success, ok)
       PROVE  Settled(d)'
  <2>1. CASE c = d
    BY <1>11, <2>1, RestIsSettled DEF onOwnerVerificationResult, TypeOK
  <2>2. CASE c # d
    BY <1>1, <1>11, <2>2 DEF onOwnerVerificationResult, TypeOK
  <2> QED  BY <2>1, <2>2
<1>12. ASSUME onClientInfoChanged \/ onPCChangesDetected
              \/ \E p \in Pc : updateClientRecentScan(p)
       PROVE  Settled(d)'
  BY <1>1, <1>12 DEF onClientInfoChanged, onPCChangesDetected, updateClientRecentScan
<1> QED
  BY <1>2, <1>3, <1>4, <1>5, <1>6, <1>7, <1>8, <1>9, <1>10, <1>11, <1>12 DEF Next, ThreadStep

\* A row that is written holds nothing untold.
LEMMA NextWrittenIsTold ==
    ASSUME IInv, Next
    PROVE  WrittenIsTold'
<1> USE DEF IInv
<1>1. ASSUME \A p \in Pc : row'[p].fields = row[p].fields /\ row'[p].first = row[p].first
      PROVE  WrittenIsTold'
  BY <1>1, NothingUntold DEF WrittenIsTold, Known
<1>2. ASSUME NEW c \in Conn, NEW ok \in BOOLEAN, processPCChanges(c, ok) PROVE WrittenIsTold'
  <2>1. /\ pc[c] \in Pc /\ seen[c].fields \in [Field -> Value] /\ seen[c].first \in Nat
        /\ thread[c] = "write" /\ UNCHANGED <<events, told, untold>>
    BY <1>2 DEF processPCChanges, TypeOK, Row
  <2>2. CASE row' = row
    BY <1>1, <2>2
  <2>3. CASE registerOrUpdateClient(pc[c], WithChanges(c, seen[c].fields), seen[c].first,
                                    seen[c].scan)
    <3>1. /\ row'[pc[c]].fields = WithChanges(c, seen[c].fields)
          /\ \A q \in Pc \ {pc[c]} : row'[q] = row[q]
      <4>1. row \in [Pc -> Row] /\ WithChanges(c, seen[c].fields) \in [Field -> Value]
        BY <2>1, ChangesTyped DEF TypeOK
      <4> QED  BY <2>1, <2>3, <4>1, RowWritten
    <3>2. pc[c] \notin untold =>
             \A f \in Field : WithChanges(c, seen[c].fields)[f] \in Told(pc[c], f)
      BY <2>1 DEF Settled, WithChanges
    <3> QED  BY <2>1, <3>1, <3>2 DEF WrittenIsTold, Told, Known
  <2> QED  BY <1>2, <2>2, <2>3 DEF processPCChanges
<1>3. ASSUME NEW c \in Conn, NEW success \in BOOLEAN, NEW ok \in BOOLEAN,
             onOwnerVerificationResult(c, success, ok)
      PROVE  WrittenIsTold'
  <2>1. /\ pc[c] \in Pc /\ info[c] \in [Field -> Value] /\ now' \in Nat
        /\ thread[c] = "verifying" /\ UNCHANGED <<events, told, untold>>
    BY <1>3 DEF onOwnerVerificationResult, TypeOK
  <2>2. CASE row' = row
    BY <1>1, <2>2
  <2>3. CASE registerOrUpdateClient(pc[c], info[c], now', 0)
    <3>1. row'[pc[c]].fields = info[c] /\ \A q \in Pc \ {pc[c]} : row'[q] = row[q]
      <4>1. row \in [Pc -> Row]
        BY DEF TypeOK
      <4> QED  BY <2>1, <2>3, <4>1, RowWritten
    <3>2. \A f \in Field : info[c][f] \in Told(pc[c], f)
      BY <2>1 DEF Settled, Told
    <3> QED  BY <2>1, <3>1, <3>2 DEF WrittenIsTold, Told, Known
  <2> QED  BY <1>3, <2>2, <2>3 DEF onOwnerVerificationResult
<1>4. ASSUME NEW p \in Pc, updateClientRecentScan(p) PROVE WrittenIsTold'
  <2>1. \A q \in Pc : row'[q].fields = row[q].fields /\ row'[q].first = row[q].first
    BY <1>4 DEF updateClientRecentScan, TypeOK, Row
  <2> QED  BY <1>1, <2>1
<1>5. ASSUME row' = row PROVE WrittenIsTold'
  BY <1>1, <1>5
<1>6. ASSUME NEW c \in Conn, NEW p \in Pc, NEW i \in Info, handlePCInfo(c, p, i)
      PROVE  WrittenIsTold'
  BY <1>5, <1>6 DEF handlePCInfo
<1>7. ASSUME NEW c \in Conn, NEW ok \in BOOLEAN,
             lookupClient(c, ok) \/ detectPCChanges(c, ok) \/ detectClientChanges(c, ok)
                 \/ prepareClientUpdateRequest(c, ok) \/ readForUpdate(c, ok)
      PROVE  WrittenIsTold'
  BY <1>5, <1>7
     DEF lookupClient, detectPCChanges, detectClientChanges, prepareClientUpdateRequest,
         readForUpdate
<1>8. ASSUME onClientInfoChanged \/ onPCChangesDetected
             \/ \E c \in Conn : emitPcChangesDetected(c) \/ verifyOwner(c)
      PROVE  WrittenIsTold'
  BY <1>5, <1>8
     DEF onClientInfoChanged, onPCChangesDetected, emitPcChangesDetected, verifyOwner
<1> QED  BY <1>2, <1>3, <1>4, <1>6, <1>7, <1>8 DEF Next, ThreadStep

\* The invariant holds at the beginning and is kept.
LEMMA InitIInv == Init => IInv
<1> SUFFICES ASSUME Init PROVE IInv  OBVIOUS
<1>1. WrittenIsTold
  BY DEF Init, WrittenIsTold, Known, Told
<1>2. \A c \in Conn : Settled(c)
  BY DEF Init, Settled
<1> QED  BY <1>1, <1>2, InitTypeOK DEF IInv

LEMMA NextIInv == IInv /\ [Next]_vars => IInv'
<1> SUFFICES ASSUME IInv, [Next]_vars PROVE IInv'  OBVIOUS
<1>1. TypeOK'
  BY NextTypeOK DEF IInv
<1>2. CASE Next
  BY <1>1, <1>2, NextSettled, NextWrittenIsTold DEF IInv
<1>3. CASE UNCHANGED vars
  BY <1>1, <1>3 DEF vars, history, IInv, WrittenIsTold, Settled, Told, Known
<1> QED  BY <1>2, <1>3

\* The invariant of the change detection.
THEOREM Spec_IInv == Spec => []IInv
BY InitIInv, NextIInv, PTL DEF Spec

\* The database holds no value of a PC that the backend was not sent and will
\* not be sent, except for PCs whose row could not be read during a detection.
THEOREM Spec_WrittenIsTold == Spec => []WrittenIsTold
<1>1. IInv => WrittenIsTold
  BY DEF IInv
<1> QED  BY <1>1, Spec_IInv, PTL

-----------------------------------------------------------------------------
(***************************************************************************)
(* What the statements leave alone                                         *)
(***************************************************************************)

\* What a step does to the two columns that registrations do not own.
LEMMA NextColumns ==
    ASSUME TypeOK, [Next]_vars, NEW p \in Pc
    PROVE  /\ Known(p) => row'[p].first = row[p].first
           /\ row[p].scan = lastScan[p] => row'[p].scan = lastScan'[p]
<1> DEFINE Goal == /\ Known(p) => row'[p].first = row[p].first
                   /\ row[p].scan = lastScan[p] => row'[p].scan = lastScan'[p]
<1>1. ASSUME row' = row, lastScan' = lastScan PROVE Goal
  BY <1>1
<1>2. ASSUME NEW c \in Conn, NEW ok \in BOOLEAN, processPCChanges(c, ok) PROVE Goal
  <2>1. pc[c] \in Pc /\ seen[c].fields \in [Field -> Value] /\ seen[c].first \in Nat
    BY <1>2 DEF processPCChanges, TypeOK, Row
  <2>2. CASE registerOrUpdateClient(pc[c], WithChanges(c, seen[c].fields), seen[c].first,
                                    seen[c].scan)
    <3>1. WithChanges(c, seen[c].fields) \in [Field -> Value] /\ row \in [Pc -> Row]
      BY <2>1, ChangesTyped DEF TypeOK
    <3>2. /\ row'[pc[c]].scan = row[pc[c]].scan
          /\ row'[pc[c]].first = IF Known(pc[c]) THEN row[pc[c]].first ELSE seen[c].first
          /\ \A q \in Pc \ {pc[c]} : row'[q] = row[q]
      BY <2>1, <2>2, <3>1, RowWritten
    <3>3. row'[p].scan = row[p].scan /\ (Known(p) => row'[p].first = row[p].first)
      BY <3>2
    <3> QED  BY <1>2, <3>3 DEF processPCChanges, history
  <2>3. CASE row' = row
    BY <1>1, <1>2, <2>3 DEF processPCChanges, history
  <2> QED  BY <1>2, <2>2, <2>3 DEF processPCChanges
<1>3. ASSUME NEW c \in Conn, NEW success \in BOOLEAN, NEW ok \in BOOLEAN,
             onOwnerVerificationResult(c, success, ok)
      PROVE  Goal
  <2>1. pc[c] \in Pc /\ info[c] \in [Field -> Value] /\ now' \in Nat
    BY <1>3 DEF onOwnerVerificationResult, TypeOK
  <2>2. CASE registerOrUpdateClient(pc[c], info[c], now', 0)
    <3>1. /\ row'[pc[c]].scan = row[pc[c]].scan
          /\ row'[pc[c]].first = IF Known(pc[c]) THEN row[pc[c]].first ELSE now'
          /\ \A q \in Pc \ {pc[c]} : row'[q] = row[q]
      <4>1. row \in [Pc -> Row]
        BY DEF TypeOK
      <4> QED  BY <2>1, <2>2, <4>1, RowWritten
    <3>2. row'[p].scan = row[p].scan /\ (Known(p) => row'[p].first = row[p].first)
      BY <3>1
    <3> QED  BY <1>3, <3>2 DEF onOwnerVerificationResult, history
  <2>3. CASE row' = row
    BY <1>1, <1>3, <2>3 DEF onOwnerVerificationResult, history
  <2> QED  BY <1>3, <2>2, <2>3 DEF onOwnerVerificationResult
<1>4. ASSUME NEW q \in Pc, updateClientRecentScan(q) PROVE Goal
  BY <1>4 DEF updateClientRecentScan, TypeOK, Row
<1>5. ASSUME NEW c \in Conn, NEW q \in Pc, NEW i \in Info, handlePCInfo(c, q, i) PROVE Goal
  BY <1>1, <1>5 DEF handlePCInfo
<1>6. ASSUME NEW c \in Conn, NEW ok \in BOOLEAN,
             lookupClient(c, ok) \/ detectPCChanges(c, ok) \/ detectClientChanges(c, ok)
                 \/ prepareClientUpdateRequest(c, ok) \/ readForUpdate(c, ok)
      PROVE  Goal
  BY <1>1, <1>6
     DEF lookupClient, detectPCChanges, detectClientChanges, prepareClientUpdateRequest,
         readForUpdate, history
<1>7. ASSUME onClientInfoChanged \/ onPCChangesDetected
             \/ \E c \in Conn : emitPcChangesDetected(c) \/ verifyOwner(c)
      PROVE  Goal
  BY <1>1, <1>7
     DEF onClientInfoChanged, onPCChangesDetected, emitPcChangesDetected, verifyOwner, history
<1>8. CASE UNCHANGED vars
  BY <1>1, <1>8 DEF vars, history
<1> QED  BY <1>2, <1>3, <1>4, <1>5, <1>6, <1>7, <1>8 DEF Next, ThreadStep

\* No registration takes back the time of the last scan.
THEOREM Spec_ScansKept == Spec => []ScansKept
<1>1. Init => ScansKept
  BY DEF Init, ScansKept
<1>2. TypeOK /\ ScansKept /\ [Next]_vars => ScansKept'
  BY NextColumns DEF ScansKept
<1> QED  BY <1>1, <1>2, Spec_TypeOK, PTL DEF Spec

\* No registration dates the first connection of a PC again.
THEOREM Spec_FirstConnectKept == Spec => FirstConnectKept
<1>1. TypeOK /\ [Next]_vars
          => [\A p \in Pc : Known(p) => row'[p].first = row[p].first]_vars
  BY NextColumns
<1> QED  BY <1>1, Spec_TypeOK, PTL DEF Spec, FirstConnectKept

-----------------------------------------------------------------------------
(***************************************************************************)
(* A registration that meets no other one takes hold: from its comparison  *)
(* to its write nobody else touches the fields of its row.                 *)
(***************************************************************************)

\* Two registrations of a PC at once have met.
MeetInv ==
    \A c, d \in Conn : c # d /\ Active(c) /\ Active(d) /\ pc[c] = pc[d] => c \in met

\* What a registration compared and read still is in the row.
Undisturbed(c) ==
    c \notin met \cup failed =>
        /\ thread[c] \in {"prepare", "emit", "process", "write"} =>
              changedFields[c] = Differences(c)
        /\ thread[c] = "write" => seen[c].fields = row[pc[c]].fields

HoldInv == TypeOK /\ MeetInv /\ \A c \in Conn : Undisturbed(c)

\* What every step keeps.
LEMMA HistoryGrows ==
    ASSUME TypeOK, Next
    PROVE  met \subseteq met' /\ failed \subseteq failed'
<1> USE DEF dbVars, history, executeQuery
<1>1. ASSUME NEW c \in Conn, NEW p \in Pc, NEW i \in Info, handlePCInfo(c, p, i)
      PROVE  met \subseteq met' /\ failed \subseteq failed'
  BY <1>1 DEF handlePCInfo
<1>2. ASSUME NEW c \in Conn, NEW ok \in BOOLEAN,
             lookupClient(c, ok) \/ detectPCChanges(c, ok) \/ detectClientChanges(c, ok)
      PROVE  met \subseteq met' /\ failed \subseteq failed'
  BY <1>2 DEF lookupClient, detectPCChanges, detectClientChanges
<1>3. ASSUME NEW c \in Conn, NEW ok \in BOOLEAN,
             prepareClientUpdateRequest(c, ok) \/ readForUpdate(c, ok) \/ processPCChanges(c, ok)
      PROVE  met \subseteq met' /\ failed \subseteq failed'
  BY <1>3 DEF prepareClientUpdateRequest, readForUpdate, processPCChanges
<1>4. ASSUME NEW c \in Conn, emitPcChangesDetected(c) \/ verifyOwner(c)
      PROVE  met \subseteq met' /\ failed \subseteq failed'
  BY <1>4 DEF emitPcChangesDetected, verifyOwner
<1>5. ASSUME NEW c \in Conn, NEW success \in BOOLEAN, NEW ok \in BOOLEAN,
             onOwnerVerificationResult(c, success, ok)
      PROVE  met \subseteq met' /\ failed \subseteq failed'
  BY <1>5 DEF onOwnerVerificationResult
<1>6. ASSUME onClientInfoChanged \/ onPCChangesDetected
             \/ \E p \in Pc : updateClientRecentScan(p)
      PROVE  met \subseteq met' /\ failed \subseteq failed'
  BY <1>6 DEF onClientInfoChanged, onPCChangesDetected, updateClientRecentScan
<1> QED  BY <1>1, <1>2, <1>3, <1>4, <1>5, <1>6 DEF Next, ThreadStep

\* Registrations meet when the later one begins.
LEMMA NextMeet == TypeOK /\ MeetInv /\ Next => MeetInv'
<1> SUFFICES ASSUME TypeOK, MeetInv, Next PROVE MeetInv'  OBVIOUS
<1>1. ASSUME NEW d \in Conn, NEW place, place # "idle", Active(d), Goto(d, place),
             UNCHANGED <<pc, met>>
      PROVE  MeetInv'
  BY <1>1 DEF Goto, Active, MeetInv, TypeOK
<1>2. ASSUME UNCHANGED <<thread, pc, met>> PROVE MeetInv'
  BY <1>2 DEF Active, MeetInv
<1>3. ASSUME NEW c \in Conn, NEW p \in Pc, NEW i \in Info, handlePCInfo(c, p, i)
      PROVE  MeetInv'
  <2>1. /\ thread' = [thread EXCEPT ![c] = "lookup"]
        /\ pc' = [pc EXCEPT ![c] = p]
        /\ thread[c] = "idle"
        /\ \A d \in Conn : Active(d) /\ pc[d] = p => d \in met' /\ c \in met'
    BY <1>3 DEF handlePCInfo, Goto
  <2>2. met \subseteq met'
    BY HistoryGrows
  <2> QED  BY <2>1, <2>2 DEF MeetInv, Active, TypeOK
<1>4. ASSUME NEW c \in Conn, NEW ok \in BOOLEAN,
             lookupClient(c, ok) \/ detectPCChanges(c, ok) \/ detectClientChanges(c, ok)
      PROVE  MeetInv'
  BY <1>1, <1>4 DEF lookupClient, detectPCChanges, detectClientChanges, history, Active
<1>5. ASSUME NEW c \in Conn, NEW ok \in BOOLEAN,
             prepareClientUpdateRequest(c, ok) \/ readForUpdate(c, ok) \/ processPCChanges(c, ok)
      PROVE  MeetInv'
  BY <1>1, <1>5
     DEF prepareClientUpdateRequest, readForUpdate, processPCChanges, history, Active
<1>6. ASSUME NEW c \in Conn, emitPcChangesDetected(c) \/ verifyOwner(c) PROVE MeetInv'
  BY <1>1, <1>6 DEF emitPcChangesDetected, verifyOwner, history, Active
<1>7. ASSUME NEW c \in Conn, NEW success \in BOOLEAN, NEW ok \in BOOLEAN,
             onOwnerVerificationResult(c, success, ok)
      PROVE  MeetInv'
  BY <1>1, <1>7 DEF onOwnerVerificationResult, history, Active
<1>8. ASSUME onClientInfoChanged \/ onPCChangesDetected
             \/ \E p \in Pc : updateClientRecentScan(p)
      PROVE  MeetInv'
  BY <1>2, <1>8 DEF onClientInfoChanged, onPCChangesDetected, updateClientRecentScan, history
<1> QED  BY <1>3, <1>4, <1>5, <1>6, <1>7, <1>8 DEF Next, ThreadStep

\* The fields of a registration's row change only if the registration writes
\* them itself, as long as it has met no other.
LEMMA RowLeftAlone ==
    ASSUME TypeOK, MeetInv, Next, NEW c \in Conn, c \notin met, Active(c)
    PROVE  \/ row'[pc[c]].fields = row[pc[c]].fields
           \/ \E ok \in BOOLEAN : processPCChanges(c, ok)
           \/ thread[c] = "verifying"
<1> DEFINE Goal == row'[pc[c]].fields = row[pc[c]].fields
<1>1. pc[c] \in Pc /\ row \in [Pc -> Row]
  BY DEF TypeOK, Active
<1>2. ASSUME NEW d \in Conn \ {c}, Active(d), NEW fields, NEW first, NEW scan,
             registerOrUpdateClient(pc[d], fields, first, scan)
      PROVE  Goal
  <2>1. pc[d] # pc[c]
    BY <1>2 DEF MeetInv
  <2> QED  BY <1>1, <1>2, <2>1 DEF registerOrUpdateClient
<1>3. ASSUME NEW d \in Conn \ {c}, NEW ok \in BOOLEAN, processPCChanges(d, ok) PROVE Goal
  BY <1>2, <1>3 DEF processPCChanges, Active
<1>4. ASSUME NEW d \in Conn \ {c}, NEW success \in BOOLEAN, NEW ok \in BOOLEAN,
             onOwnerVerificationResult(d, success, ok)
      PROVE  Goal
  BY <1>2, <1>4 DEF onOwnerVerificationResult, Active
<1>5. ASSUME NEW p \in Pc, updateClientRecentScan(p) PROVE Goal
  BY <1>1, <1>5 DEF updateClientRecentScan, Row
<1>6. ASSUME NEW d \in Conn, NEW p \in Pc, NEW i \in Info, handlePCInfo(d, p, i) PROVE Goal
  BY <1>6 DEF handlePCInfo
<1>7. ASSUME NEW d \in Conn, NEW ok \in BOOLEAN,
             lookupClient(d, ok) \/ detectPCChanges(d, ok) \/ detectClientChanges(d, ok)
                 \/ prepareClientUpdateRequest(d, ok) \/ readForUpdate(d, ok)
      PROVE  Goal
  BY <1>7
     DEF lookupClient, detectPCChanges, detectClientChanges, prepareClientUpdateRequest,
         readForUpdate
<1>8. ASSUME onClientInfoChanged \/ onPCChangesDetected
             \/ \E d \in Conn : emitPcChangesDetected(d) \/ verifyOwner(d)
      PROVE  Goal
  BY <1>8 DEF onClientInfoChanged, onPCChangesDetected, emitPcChangesDetected, verifyOwner
<1>9. ASSUME NEW success \in BOOLEAN, NEW ok \in BOOLEAN, onOwnerVerificationResult(c, success, ok)
      PROVE  thread[c] = "verifying"
  BY <1>9 DEF onOwnerVerificationResult
<1> QED  BY <1>3, <1>4, <1>5, <1>6, <1>7, <1>8, <1>9 DEF Next, ThreadStep

\* A registration's own step, or one that leaves it alone.
LEMMA OwnStep ==
    ASSUME TypeOK, Next, NEW c \in Conn
    PROVE  \/ /\ thread'[c] = thread[c] /\ pc'[c] = pc[c] /\ info'[c] = info[c]
              /\ changedFields'[c] = changedFields[c] /\ seen'[c] = seen[c]
           \/ \E p \in Pc, i \in Info : handlePCInfo(c, p, i)
           \/ \E ok \in BOOLEAN :
                 \/ lookupClient(c, ok)
                 \/ detectPCChanges(c, ok)
                 \/ detectClientChanges(c, ok)
                 \/ prepareClientUpdateRequest(c, ok)
                 \/ readForUpdate(c, ok)
                 \/ processPCChanges(c, ok)
           \/ emitPcChangesDetected(c)
           \/ verifyOwner(c)
           \/ \E success, ok \in BOOLEAN : onOwnerVerificationResult(c, success, ok)
<1> DEFINE Alone == /\ thread'[c] = thread[c] /\ pc'[c] = pc[c] /\ info'[c] = info[c]
                    /\ changedFields'[c] = changedFields[c] /\ seen'[c] = seen[c]
<1> USE DEF Goto, TypeOK
<1>1. ASSUME NEW d \in Conn \ {c}, NEW p \in Pc, NEW i \in Info, handlePCInfo(d, p, i)
      PROVE  Alone
  BY <1>1 DEF handlePCInfo
<1>2. ASSUME NEW d \in Conn \ {c}, NEW ok \in BOOLEAN,
             lookupClient(d, ok) \/ detectPCChanges(d, ok) \/ detectClientChanges(d, ok)
      PROVE  Alone
  BY <1>2 DEF lookupClient, detectPCChanges, detectClientChanges
<1>3. ASSUME NEW d \in Conn \ {c}, NEW ok \in BOOLEAN,
             prepareClientUpdateRequest(d, ok) \/ readForUpdate(d, ok) \/ processPCChanges(d, ok)
      PROVE  Alone
  BY <1>3 DEF prepareClientUpdateRequest, readForUpdate, processPCChanges
<1>4. ASSUME NEW d \in Conn \ {c}, emitPcChangesDetected(d) \/ verifyOwner(d) PROVE Alone
  BY <1>4 DEF emitPcChangesDetected, verifyOwner
<1>5. ASSUME NEW d \in Conn \ {c}, NEW success \in BOOLEAN, NEW ok \in BOOLEAN,
             onOwnerVerificationResult(d, success, ok)
      PROVE  Alone
  BY <1>5 DEF onOwnerVerificationResult
<1>6. ASSUME onClientInfoChanged \/ onPCChangesDetected
             \/ \E p \in Pc : updateClientRecentScan(p)
      PROVE  Alone
  BY <1>6 DEF onClientInfoChanged, onPCChangesDetected, updateClientRecentScan
<1> HIDE DEF Goto, TypeOK, Alone
<1>7. ASSUME NEW d \in Conn \ {c}, ThreadStep(d) PROVE Alone
  BY <1>1, <1>2, <1>3, <1>4, <1>7 DEF ThreadStep
<1>8. \/ Alone
      \/ ThreadStep(c)
      \/ \E success, ok \in BOOLEAN : onOwnerVerificationResult(c, success, ok)
  BY <1>5, <1>6, <1>7 DEF Next
<1> QED  BY <1>8 DEF ThreadStep, Alone

\* A registration that meets no other finds at each step what it left.
LEMMA NextUndisturbed ==
    ASSUME HoldInv, Next, NEW c \in Conn
    PROVE  Undisturbed(c)'
<1> SUFFICES ASSUME c \notin met' \cup failed' PROVE Undisturbed(c)'
  BY DEF Undisturbed
<1>1. TypeOK /\ MeetInv /\ Undisturbed(c) /\ c \notin met \cup failed
  BY HistoryGrows DEF HoldInv
<1>2. ASSUME thread'[c] = thread[c], pc'[c] = pc[c], info'[c] = info[c],
             changedFields'[c] = changedFields[c], seen'[c] = seen[c]
      PROVE  Undisturbed(c)'
  <2>1. CASE thread[c] \in {"prepare", "emit", "process", "write"}
    <3>1. ~\E ok \in BOOLEAN : processPCChanges(c, ok)
      BY <1>1, <1>2 DEF processPCChanges, Goto, TypeOK
    <3>2. row'[pc[c]].fields = row[pc[c]].fields
      BY <1>1, <2>1, <3>1, RowLeftAlone DEF Active
    <3> QED  BY <1>1, <1>2, <2>1, <3>2 DEF Undisturbed, Differences
  <2>2. CASE thread[c] \notin {"prepare", "emit", "process", "write"}
    BY <1>2, <2>2 DEF Undisturbed
  <2> QED  BY <2>1, <2>2
<1>3. ASSUME thread'[c] \notin {"prepare", "emit", "process", "write"}
      PROVE  Undisturbed(c)'
  BY <1>3 DEF Undisturbed
<1>4. ASSUME NEW ok \in BOOLEAN, detectClientChanges(c, ok) PROVE Undisturbed(c)'
  <2>1. ok
    BY <1>1, <1>4 DEF detectClientChanges, executeQuery, TypeOK
  <2>2. /\ changedFields' = [changedFields EXCEPT ![c] = Differences(c)]
        /\ UNCHANGED <<row, pc, info>>
        /\ thread' = [thread EXCEPT ![c] = "done"] \/ thread' = [thread EXCEPT ![c] = "prepare"]
    BY <1>4, <2>1 DEF detectClientChanges, Goto
  <2> QED  BY <1>1, <2>2 DEF Undisturbed, Differences, TypeOK
<1>5. ASSUME NEW ok \in BOOLEAN, prepareClientUpdateRequest(c, ok) PROVE Undisturbed(c)'
  BY <1>1, <1>5 DEF prepareClientUpdateRequest, Undisturbed, Differences, Goto, TypeOK
<1>6. CASE emitPcChangesDetected(c)
  BY <1>1, <1>6 DEF emitPcChangesDetected, Undisturbed, Differences, Goto, TypeOK
<1>7. ASSUME NEW ok \in BOOLEAN, readForUpdate(c, ok) PROVE Undisturbed(c)'
  <2>1. /\ thread[c] = "process" /\ UNCHANGED <<row, pc, info, changedFields>>
        /\ \/ /\ thread' = [thread EXCEPT ![c] = "write"]
              /\ seen' = [seen EXCEPT ![c] = row[pc[c]]]
           \/ thread' = [thread EXCEPT ![c] = "done"]
    BY <1>7 DEF readForUpdate, Goto
  <2> QED  BY <1>1, <2>1 DEF Undisturbed, Differences, TypeOK
<1>8. ASSUME NEW ok \in BOOLEAN,
             lookupClient(c, ok) \/ detectPCChanges(c, ok) \/ processPCChanges(c, ok)
      PROVE  thread'[c] \notin {"prepare", "emit", "process", "write"}
  BY <1>1, <1>8 DEF lookupClient, detectPCChanges, processPCChanges, Goto, TypeOK
<1>9. ASSUME \/ \E p \in Pc, i \in Info : handlePCInfo(c, p, i)
             \/ verifyOwner(c)
             \/ \E success, ok \in BOOLEAN : onOwnerVerificationResult(c, success, ok)
      PROVE  thread'[c] \notin {"prepare", "emit", "process", "write"}
  BY <1>1, <1>9 DEF handlePCInfo, verifyOwner, onOwnerVerificationResult, Goto, TypeOK
<1> QED  BY <1>1, <1>2, <1>3, <1>4, <1>5, <1>6, <1>7, <1>8, <1>9, OwnStep

\* What the last step of a registration leaves in the row.
LEMMA LastStepTakesHold ==
    ASSUME HoldInv, Next, NEW c \in Conn, c \notin met' \cup failed',
           thread[c] \in {"compare", "write"}, thread'[c] = "done", NEW f \in Field
    PROVE  info[c][f] \in {row'[pc[c]].fields[f], Empty}
<1>1. TypeOK /\ Undisturbed(c) /\ c \notin met \cup failed
  BY HistoryGrows DEF HoldInv
<1>2. pc[c] \in Pc /\ row \in [Pc -> Row]
  BY <1>1 DEF TypeOK
<1>3. ASSUME NEW ok \in BOOLEAN, detectClientChanges(c, ok)
      PROVE  info[c][f] = row'[pc[c]].fields[f]
  <2>1. ok
    BY <1>1, <1>3 DEF detectClientChanges, executeQuery, TypeOK
  <2>2. Differences(c) = {} /\ row' = row
    BY <1>1, <1>3, <2>1 DEF detectClientChanges, Goto, TypeOK
  <2> QED  BY <2>2 DEF Differences
<1>4. ASSUME NEW ok \in BOOLEAN, processPCChanges(c, ok)
      PROVE  info[c][f] \in {row'[pc[c]].fields[f], Empty}
  <2>1. ok /\ thread[c] = "write"
    BY <1>1, <1>4 DEF processPCChanges, executeQuery, TypeOK
  <2>2. row'[pc[c]].fields = WithChanges(c, seen[c].fields)
    BY <1>2, <1>4, <2>1 DEF processPCChanges, registerOrUpdateClient
  <2>3. seen[c].fields = row[pc[c]].fields /\ changedFields[c] = Differences(c)
    BY <1>1, <2>1 DEF Undisturbed
  <2> QED  BY <2>2, <2>3 DEF WithChanges, Differences
<1>5. ~(\/ \E p \in Pc, i \in Info : handlePCInfo(c, p, i)
        \/ \E ok \in BOOLEAN :
              \/ lookupClient(c, ok) \/ detectPCChanges(c, ok)
              \/ prepareClientUpdateRequest(c, ok) \/ readForUpdate(c, ok)
        \/ emitPcChangesDetected(c)
        \/ verifyOwner(c)
        \/ \E success, ok \in BOOLEAN : onOwnerVerificationResult(c, success, ok))
  BY DEF handlePCInfo, lookupClient, detectPCChanges, prepareClientUpdateRequest, readForUpdate,
         emitPcChangesDetected, verifyOwner, onOwnerVerificationResult
<1> QED  BY <1>1, <1>3, <1>4, <1>5, OwnStep

LEMMA HoldStep == HoldInv /\ [Next]_vars => HoldInv'
<1>1. HoldInv /\ Next => HoldInv'
  BY NextTypeOK, NextMeet, NextUndisturbed DEF HoldInv
<1>2. HoldInv /\ UNCHANGED vars => HoldInv'
  BY NextTypeOK DEF HoldInv, MeetInv, Undisturbed, Active, Differences, vars, dbVars, history
<1> QED  BY <1>1, <1>2

\* A registration of a known PC that met no other one and no failing statement
\* leaves the row as the agent reported it, whatever else goes on in the server.
THEOREM Spec_RegistrationTakesHold == Spec => RegistrationTakesHold
<1> DEFINE Holds == \A c \in Conn \ (met' \cup failed') :
                       thread[c] \in {"compare", "write"} /\ thread'[c] = "done"
                          => \A f \in Field : info[c][f] \in {row'[pc[c]].fields[f], Empty}
<1>1. Init => HoldInv
  BY InitTypeOK DEF Init, HoldInv, MeetInv, Undisturbed, Active
<1>2. HoldInv /\ [Next]_vars => HoldInv'
  BY HoldStep
<1>3. HoldInv /\ [Next]_vars => [Holds]_vars
  BY LastStepTakesHold
<1> QED  BY <1>1, <1>2, <1>3, PTL DEF Spec, RegistrationTakesHold

-----------------------------------------------------------------------------
(***************************************************************************)
(* The HTTP API ends up with the last detection: the mutex is held up to   *)
(* the last signal, so that signals are queued in the order of detections. *)
(***************************************************************************)

\* A queued signal about a detection of p.
Detected(i, p) == events[i].what = "pcChangesDetected" /\ events[i].pc = p

InDetection(p) == \E c \in Conn : pc[c] = p /\ thread[c] \in {"prepare", "emit"}

\* Who is inside a detection is the last one.
InsideIsLast == \A c \in Conn : thread[c] \in {"prepare", "emit"} => lastDetection[pc[c]] = c

\* The last signal about p is that of its last detection.
LastInQueue(p) ==
    \A i \in DOMAIN events :
        /\ Detected(i, p)
        /\ \A j \in DOMAIN events : j > i => ~Detected(j, p)
        /\ ~InDetection(p)
        => events[i].conn = lastDetection[p]

ShowsLast(p) ==
    \/ \E i \in DOMAIN events : Detected(i, p)
    \/ InDetection(p)
    \/ pcChangeResults[p] = lastDetection[p]

ShowInv ==
    /\ TypeOK
    /\ InsideIsLast
    /\ \A p \in Pc : LastInQueue(p) /\ ShowsLast(p)

\* A step outside of detections changes nothing here.
LEMMA ShowLeftAlone ==
    ASSUME ShowInv, TypeOK', UNCHANGED <<events, lastDetection, pcChangeResults>>,
           \A c \in Conn : /\ thread'[c] \in {"prepare", "emit"} <=> thread[c] \in {"prepare", "emit"}
                           /\ thread[c] \in {"prepare", "emit"} => pc'[c] = pc[c]
    PROVE  ShowInv'
<1>1. \A p \in Pc : InDetection(p)' <=> InDetection(p)
  BY DEF InDetection
<1>2. InsideIsLast'
  BY DEF ShowInv, InsideIsLast
<1>3. \A p \in Pc : LastInQueue(p)' /\ ShowsLast(p)'
  BY <1>1 DEF ShowInv, LastInQueue, ShowsLast, Detected
<1> QED  BY <1>2, <1>3 DEF ShowInv

\* A comparison that finds a difference begins a new last detection.
LEMMA ShowDetection ==
    ASSUME ShowInv, TypeOK', NEW c \in Conn, NEW ok \in BOOLEAN, detectClientChanges(c, ok)
    PROVE  ShowInv'
<1>1. /\ thread[c] = "compare" /\ pc[c] \in Pc
      /\ \A d \in Conn : thread[d] \notin {"prepare", "emit"}
      /\ UNCHANGED <<pc, events, pcChangeResults>>
  BY DEF detectClientChanges, ShowInv, TypeOK
<1>2. CASE thread' = [thread EXCEPT ![c] = "done"] /\ UNCHANGED lastDetection
  <2>1. \A d \in Conn : thread'[d] \notin {"prepare", "emit"}
    BY <1>1, <1>2 DEF ShowInv, TypeOK
  <2> QED  BY <1>1, <1>2, <2>1, ShowLeftAlone
<1>3. CASE /\ thread' = [thread EXCEPT ![c] = "prepare"]
           /\ lastDetection' = [lastDetection EXCEPT ![pc[c]] = c]
  <2>1. \A d \in Conn : thread'[d] \in {"prepare", "emit"} <=> d = c
    BY <1>1, <1>3 DEF ShowInv, TypeOK
  <2>2. lastDetection'[pc[c]] = c /\ \A p \in Pc \ {pc[c]} : lastDetection'[p] = lastDetection[p]
    BY <1>1, <1>3 DEF ShowInv, TypeOK
  <2>3. InDetection(pc[c])' /\ \A p \in Pc \ {pc[c]} : ~InDetection(p)' /\ ~InDetection(p)
    BY <1>1, <2>1 DEF InDetection
  <2>4. InsideIsLast'
    BY <1>1, <2>1, <2>2 DEF InsideIsLast
  <2>5. \A p \in Pc : LastInQueue(p)' /\ ShowsLast(p)'
    BY <1>1, <2>2, <2>3 DEF ShowInv, LastInQueue, ShowsLast, Detected
  <2> QED  BY <2>4, <2>5 DEF ShowInv
<1> QED  BY <1>2, <1>3 DEF detectClientChanges, Goto

\* What appending a signal does to the queued detections.
LEMMA ShowAppend ==
    ASSUME ShowInv, NEW e, events' = Append(events, e)
    PROVE  /\ \A i \in DOMAIN events' \ DOMAIN events : \A j \in DOMAIN events : j < i
           /\ \E i \in DOMAIN events' \ DOMAIN events :
                 /\ DOMAIN events' = DOMAIN events \cup {i}
                 /\ events'[i] = e
           /\ \A i \in DOMAIN events : /\ i \in DOMAIN events'
                                       /\ events'[i] = events[i]
<1>1. /\ DOMAIN events = 1 .. Len(events) /\ Len(events) \in Nat
      /\ DOMAIN events' = 1 .. Len(events) + 1
      /\ \A i \in DOMAIN events : events'[i] = events[i]
      /\ events'[Len(events) + 1] = e
  BY DEF ShowInv, TypeOK
<1>2. Len(events) + 1 \in DOMAIN events' \ DOMAIN events
  BY <1>1
<1> QED  BY <1>1, <1>2

\* The request for the backend is queued between other signals.
LEMMA ShowPrepared ==
    ASSUME ShowInv, TypeOK', NEW c \in Conn, NEW ok \in BOOLEAN, prepareClientUpdateRequest(c, ok)
    PROVE  ShowInv'
<1>1. /\ thread[c] = "prepare" /\ thread' = [thread EXCEPT ![c] = "emit"]
      /\ UNCHANGED <<pc, lastDetection, pcChangeResults>>
  BY DEF prepareClientUpdateRequest, Goto, history
<1>2. \A d \in Conn : thread'[d] \in {"prepare", "emit"} <=> thread[d] \in {"prepare", "emit"}
  BY <1>1 DEF ShowInv, TypeOK
<1>3. CASE events' = events
  BY <1>1, <1>2, <1>3, ShowLeftAlone
<1>4. CASE \E e : e.what = "clientInfoChanged" /\ events' = Append(events, e)
  <2>1. PICK e : e.what = "clientInfoChanged" /\ events' = Append(events, e)
    BY <1>4
  <2>2. PICK n \in DOMAIN events' \ DOMAIN events :
            DOMAIN events' = DOMAIN events \cup {n} /\ events'[n] = e
    BY <2>1, ShowAppend
  <2>3. \A p \in Pc : InDetection(p)' <=> InDetection(p)
    BY <1>1, <1>2 DEF InDetection
  <2>4. \A p \in Pc : /\ \A i \in DOMAIN events : Detected(i, p)' <=> Detected(i, p)
                      /\ ~Detected(n, p)'
    BY <2>1, <2>2, ShowAppend DEF Detected
  <2>5. InsideIsLast'
    BY <1>1, <1>2 DEF ShowInv, InsideIsLast
  <2>6. ASSUME NEW p \in Pc PROVE LastInQueue(p)' /\ ShowsLast(p)'
    <3>1. ShowsLast(p)'
      BY <1>1, <2>2, <2>3, <2>4 DEF ShowInv, ShowsLast
    <3>2. \A i \in DOMAIN events : events'[i] = events[i]
      BY <2>1, ShowAppend
    <3>3. LastInQueue(p)'
      BY <1>1, <2>2, <2>3, <2>4, <3>2 DEF ShowInv, LastInQueue
    <3> QED  BY <3>1, <3>3
  <2> QED  BY <2>5, <2>6 DEF ShowInv
<1> QED  BY <1>3, <1>4 DEF prepareClientUpdateRequest

\* The signal of a detection, queued with the mutex held, is that of the last one.
LEMMA ShowEmitted ==
    ASSUME ShowInv, TypeOK', NEW c \in Conn, emitPcChangesDetected(c)
    PROVE  ShowInv'
<1> DEFINE e == [what |-> "pcChangesDetected", pc |-> pc[c], conn |-> c]
<1>1. /\ thread[c] = "emit" /\ thread' = [thread EXCEPT ![c] = "process"]
      /\ pc[c] \in Pc
      /\ events' = Append(events, e)
      /\ UNCHANGED <<pc, lastDetection, pcChangeResults>>
  BY DEF emitPcChangesDetected, Goto, history, ShowInv, TypeOK
<1>2. \A d \in Conn : thread'[d] \notin {"prepare", "emit"}
  BY <1>1 DEF ShowInv, TypeOK
<1>3. \A p \in Pc : ~InDetection(p)' /\ (InDetection(p) => p = pc[c])
  <2>1. \A d \in Conn \ {c} : thread[d] \notin {"prepare", "emit"}
    BY <1>1 DEF ShowInv, TypeOK
  <2> QED  BY <1>2, <2>1 DEF InDetection
<1>4. PICK n \in DOMAIN events' \ DOMAIN events :
          DOMAIN events' = DOMAIN events \cup {n} /\ events'[n] = e
  BY <1>1, ShowAppend
<1>5. \A i \in DOMAIN events : events'[i] = events[i] /\ i < n
  BY <1>1, <1>4, ShowAppend
<1>6. \A p \in Pc : /\ \A i \in DOMAIN events : Detected(i, p)' <=> Detected(i, p)
                    /\ Detected(n, p)' <=> p = pc[c]
  BY <1>4, <1>5 DEF Detected
<1>7. lastDetection[pc[c]] = c
  BY <1>1 DEF ShowInv, InsideIsLast
<1>8. ASSUME NEW p \in Pc, p = pc[c] PROVE LastInQueue(p)' /\ ShowsLast(p)'
  <2>1. ShowsLast(p)'
    BY <1>4, <1>6, <1>8 DEF ShowsLast
  <2>2. events'[n].conn = lastDetection'[p]
    BY <1>1, <1>4, <1>7, <1>8
  <2>3. \A i \in DOMAIN events : n \in DOMAIN events' /\ n > i /\ Detected(n, p)'
    BY <1>5, <1>6, <1>8, SMT DEF TypeOK, ShowInv
  <2>4. LastInQueue(p)'
    BY <1>4, <2>2, <2>3 DEF LastInQueue
  <2> QED  BY <2>1, <2>4
<1>9. ASSUME NEW p \in Pc \ {pc[c]} PROVE LastInQueue(p)' /\ ShowsLast(p)'
  <2>1. ShowsLast(p)'
    BY <1>1, <1>3, <1>4, <1>6 DEF ShowInv, ShowsLast
  <2>2. LastInQueue(p)'
    BY <1>1, <1>3, <1>4, <1>5, <1>6 DEF ShowInv, LastInQueue
  <2> QED  BY <2>1, <2>2
<1>10. InsideIsLast'
  BY <1>2 DEF InsideIsLast
<1> QED  BY <1>8, <1>9, <1>10 DEF ShowInv

\* What taking the first signal does to the queued detections.
LEMMA ShowTail ==
    ASSUME ShowInv, events # <<>>, events' = Tail(events)
    PROVE  /\ 1 \in DOMAIN events /\ events[1] = Head(events)
           /\ \A i \in DOMAIN events' : i + 1 \in DOMAIN events /\ events'[i] = events[i + 1]
           /\ \A i \in DOMAIN events \ {1} : i - 1 \in DOMAIN events' /\ i > 1
<1>1. /\ DOMAIN events = 1 .. Len(events) /\ Len(events) \in Nat \ {0}
      /\ DOMAIN events' = 1 .. Len(events) - 1
      /\ \A i \in DOMAIN events' : events'[i] = events[i + 1]
      /\ events[1] = Head(events)
  BY DEF ShowInv, TypeOK
<1> QED  BY <1>1

\* After it, the last signal about a PC is still that of its last detection.
LEMMA ShowTailLast ==
    ASSUME ShowInv, events # <<>>, events' = Tail(events), NEW p \in Pc,
           UNCHANGED <<thread, pc, lastDetection>>
    PROVE  LastInQueue(p)'
<1>1. \A i \in DOMAIN events' : /\ i + 1 \in DOMAIN events /\ events'[i] = events[i + 1]
                                /\ i \in Nat
  BY ShowTail DEF ShowInv, TypeOK
<1>2. SUFFICES ASSUME NEW i \in DOMAIN events', Detected(i, p)',
                      \A j \in DOMAIN events' : j > i => ~Detected(j, p)',
                      ~InDetection(p)
               PROVE  events'[i].conn = lastDetection[p]
  BY DEF LastInQueue, InDetection
<1>3. Detected(i + 1, p)
  BY <1>1, <1>2 DEF Detected
<1>4. ASSUME NEW k \in DOMAIN events, k > i + 1, Detected(k, p) PROVE FALSE
  <2>1. k # 1 /\ k \in Nat /\ i \in Nat
    BY <1>1, <1>4 DEF ShowInv, TypeOK
  <2>2. PICK j \in DOMAIN events' : j = k - 1
    BY <2>1, ShowTail
  <2>3. events'[j] = events[k] /\ j > i
    BY <1>1, <1>4, <2>1, <2>2
  <2>4. Detected(j, p)'
    BY <1>4, <2>3 DEF Detected
  <2> QED  BY <1>2, <2>3, <2>4
<1>5. events[i + 1].conn = lastDetection[p]
  BY <1>1, <1>2, <1>3, <1>4 DEF ShowInv, LastInQueue
<1> QED  BY <1>1, <1>5

LEMMA ShowTold == ShowInv /\ TypeOK' /\ onClientInfoChanged => ShowInv'
<1> SUFFICES ASSUME ShowInv, TypeOK', onClientInfoChanged PROVE ShowInv'
  OBVIOUS
<1>1. /\ events # <<>> /\ events' = Tail(events)
      /\ Head(events).what = "clientInfoChanged"
      /\ UNCHANGED <<thread, pc, lastDetection, pcChangeResults>>
  BY DEF onClientInfoChanged, history
<1>2. ASSUME NEW p \in Pc PROVE ShowsLast(p)'
  <2>1. ASSUME NEW i \in DOMAIN events, Detected(i, p) PROVE ShowsLast(p)'
    <3>1. i # 1
      BY <1>1, <2>1, ShowTail DEF Detected
    <3>2. PICK j \in DOMAIN events' : j = i - 1
      BY <1>1, <3>1, ShowTail
    <3>3. events'[j] = events[i]
      BY <1>1, <3>2, ShowTail DEF ShowInv, TypeOK
    <3> QED  BY <2>1, <3>3 DEF ShowsLast, Detected
  <2> QED  BY <1>1, <2>1 DEF ShowInv, ShowsLast, InDetection
<1>3. InsideIsLast'
  BY <1>1 DEF ShowInv, InsideIsLast
<1> QED  BY <1>1, <1>2, <1>3, ShowTailLast DEF ShowInv

\* What the API shows of a PC after its last queued detection is the last one.
LEMMA ShowShown == ShowInv /\ TypeOK' /\ onPCChangesDetected => ShowInv'
<1> SUFFICES ASSUME ShowInv, TypeOK', onPCChangesDetected PROVE ShowInv'
  OBVIOUS
<1>1. /\ events # <<>> /\ events' = Tail(events)
      /\ Head(events).what = "pcChangesDetected"
      /\ pcChangeResults' = [pcChangeResults EXCEPT ![Head(events).pc] = Head(events).conn]
      /\ UNCHANGED <<thread, pc, lastDetection>>
  BY DEF onPCChangesDetected, history
<1>2. ASSUME NEW p \in Pc PROVE ShowsLast(p)'
  <2>1. ASSUME NEW i \in DOMAIN events \ {1}, Detected(i, p) PROVE ShowsLast(p)'
    <3>1. PICK j \in DOMAIN events' : j = i - 1
      BY <1>1, <2>1, ShowTail
    <3>2. events'[j] = events[i]
      BY <1>1, <3>1, ShowTail DEF ShowInv, TypeOK
    <3> QED  BY <2>1, <3>2 DEF ShowsLast, Detected
  <2>2. CASE InDetection(p)
    BY <1>1, <2>2 DEF ShowsLast, InDetection
  <2>3. CASE /\ Detected(1, p) /\ ~InDetection(p)
             /\ \A i \in DOMAIN events \ {1} : ~Detected(i, p)
    <3>1. 1 \in DOMAIN events /\ Head(events).pc = p
      BY <1>1, <2>3, ShowTail DEF Detected
    <3>2. \A i \in DOMAIN events : i > 1 => ~Detected(i, p)
      BY <2>3
    <3>3. Head(events).conn = lastDetection[p]
      BY <1>1, <2>3, <3>1, <3>2, ShowTail DEF ShowInv, LastInQueue
    <3>4. pcChangeResults'[p] = lastDetection'[p]
      BY <1>1, <3>1, <3>3 DEF ShowInv, TypeOK
    <3> QED  BY <3>4 DEF ShowsLast
  <2>4. CASE \A i \in DOMAIN events : ~Detected(i, p)
    <3>1. Head(events).pc # p
      BY <1>1, <2>4, ShowTail DEF Detected
    <3> QED  BY <1>1, <2>2, <2>4, <3>1 DEF ShowInv, TypeOK, ShowsLast
  <2> QED  BY <2>1, <2>2, <2>3, <2>4
<1>3. InsideIsLast'
  BY <1>1 DEF ShowInv, InsideIsLast
<1> QED  BY <1>1, <1>2, <1>3, ShowTailLast DEF ShowInv

\* The remaining steps of a registration are outside of detections.
LEMMA ShowElsewhere ==
    ASSUME ShowInv, TypeOK', NEW c \in Conn, NEW ok \in BOOLEAN,
           \/ \E p \in Pc, i \in Info : handlePCInfo(c, p, i)
           \/ lookupClient(c, ok)
           \/ detectPCChanges(c, ok)
           \/ readForUpdate(c, ok)
           \/ processPCChanges(c, ok)
           \/ verifyOwner(c)
           \/ \E success \in BOOLEAN : onOwnerVerificationResult(c, success, ok)
    PROVE  ShowInv'
<1> DEFINE place == {"lookup", "detect", "ownerRequired", "compare", "done", "write", "verifying"}
<1>1. /\ UNCHANGED <<events, lastDetection, pcChangeResults>>
      /\ thread[c] \notin {"prepare", "emit"}
      /\ \E q \in place : thread' = [thread EXCEPT ![c] = q]
      /\ pc' = pc \/ \E p \in Pc : pc' = [pc EXCEPT ![c] = p]
  BY DEF handlePCInfo, lookupClient, detectPCChanges, readForUpdate, processPCChanges, verifyOwner,
         onOwnerVerificationResult, Goto, history
<1>2. \A d \in Conn : /\ thread'[d] \in {"prepare", "emit"} <=> thread[d] \in {"prepare", "emit"}
                      /\ thread[d] \in {"prepare", "emit"} => pc'[d] = pc[d]
  BY <1>1 DEF ShowInv, TypeOK
<1> QED  BY <1>1, <1>2, ShowLeftAlone

LEMMA ShowStep == ShowInv /\ [Next]_vars => ShowInv'
<1> SUFFICES ASSUME ShowInv, [Next]_vars PROVE ShowInv'
  OBVIOUS
<1>1. TypeOK'
  BY NextTypeOK DEF ShowInv
<1>2. ASSUME NEW c \in Conn, ThreadStep(c) PROVE ShowInv'
  BY <1>1, <1>2, ShowElsewhere, ShowDetection, ShowPrepared, ShowEmitted DEF ThreadStep
<1>3. ASSUME NEW c \in Conn, NEW success \in BOOLEAN, NEW ok \in BOOLEAN,
             onOwnerVerificationResult(c, success, ok)
      PROVE  ShowInv'
  BY <1>1, <1>3, ShowElsewhere
<1>4. CASE onClientInfoChanged
  BY <1>1, <1>4, ShowTold
<1>5. CASE onPCChangesDetected
  BY <1>1, <1>5, ShowShown
<1>6. ASSUME NEW p \in Pc, updateClientRecentScan(p) PROVE ShowInv'
  BY <1>1, <1>6, ShowLeftAlone DEF updateClientRecentScan
<1>7. CASE UNCHANGED vars
  BY <1>1, <1>7, ShowLeftAlone DEF vars, history
<1> QED  BY <1>2, <1>3, <1>4, <1>5, <1>6, <1>7 DEF Next

\* The HTTP API shows the last detection of a PC, or will when the signals
\* that are queued or about to be have been taken.
THEOREM Spec_ApiShowsLastDetection == Spec => []ApiShowsLastDetection
<1>1. Init => ShowInv
  BY InitTypeOK DEF Init, ShowInv, InsideIsLast, LastInQueue, ShowsLast
<1>2. ShowInv /\ [Next]_vars => ShowInv'
  BY ShowStep
<1>3. ShowInv => ApiShowsLastDetection
  BY DEF ShowInv, ShowsLast, Detected, InDetection, ApiShowsLastDetection
<1> QED  BY <1>1, <1>2, <1>3, PTL DEF Spec

=============================================================================
