---------------------------- MODULE ChangeDetection ----------------------------
(***************************************************************************)
(* The row of a PC in client_info, and what the server does with it when   *)
(* an agent registers: NetworkManager's change detection on the client     *)
(* threads, owner verification on the main thread, and the statements of   *)
(* DatabaseManager, each of which may fail.  Several connections may       *)
(* register one PC at a time.                                              *)
(***************************************************************************)
EXTENDS Integers, SequencesExt

CONSTANTS
    Conn,           \* registrations, each on a connection of its own
    Pc,
    KnownPc,        \* PCs with a row at the beginning
    Field,          \* pc_name, ip, os
    Value,
    Empty,          \* a field the agent could not find out
    InitialInfo,    \* the row of a known PC
    Info,           \* what agents report
    NoConn, NoPc,
    MaxFailures,    \* bound on the statements that fail
    MaxScans        \* bound on the modules stored for a PC

ASSUME ChangeAssumption ==
    /\ KnownPc \subseteq Pc
    /\ Info \subseteq [Field -> Value]
    /\ InitialInfo \in [Field -> Value]
    /\ NoConn \notin Conn /\ NoPc \notin Pc
    /\ MaxFailures \in Nat /\ MaxScans \in Nat

VARIABLES
    row,                    \* client_info: fields, first_connect (0: no row), recent_scan
    thread,                 \* where the client thread of a connection is
    pc, info,               \* what it registers
    changedFields,          \* what it found changed
    seen,                   \* the row it read before it writes
    detecting,              \* the holder of changeDetectionMutex_, as a set
    pendingRegistrations,
    events,                 \* the main thread's queue
    told,                   \* every value of a field the backend was sent
    pcChangeResults,        \* HttpApiHandler's: whose detection it shows
    now,                    \* the time of a verification's answer
    failures,
    failed,                 \* registrations a statement of which failed
    untold,                 \* PCs with a detection that could not be prepared for the backend
    met,                    \* registrations that met another one of their PC
    lastDetection,          \* the last registration that found a PC changed
    lastScan                \* the last recent_scan stored for a PC

dbVars == <<failures, failed>>
history == <<met, lastDetection, lastScan>>
vars == <<row, thread, pc, info, changedFields, seen, detecting, pendingRegistrations, events,
          told, pcChangeResults, now, failures, failed, untold, met, lastDetection, lastScan>>

Row == [fields : [Field -> Value], first : Nat, scan : 0 .. MaxScans]

Event == [what : {"clientInfoChanged"}, pc : Pc, new : [Field -> Value]]
            \cup [what : {"pcChangesDetected"}, pc : Pc, conn : Conn]

TypeOK ==
    /\ row \in [Pc -> Row]
    /\ thread \in [Conn -> {"idle", "lookup", "detect", "compare", "prepare", "emit", "process",
                            "write", "ownerRequired", "verifying", "done"}]
    /\ pc \in [Conn -> Pc \cup {NoPc}]
    /\ info \in [Conn -> [Field -> Value]]
    /\ \A c \in Conn : thread[c] # "idle" => pc[c] \in Pc
    /\ changedFields \in [Conn -> SUBSET Field]
    /\ seen \in [Conn -> Row]
    /\ detecting \in SUBSET Conn
    /\ \A c \in Conn : c \in detecting <=> thread[c] \in {"compare", "prepare", "emit"}
    /\ \A c, d \in detecting : c = d
    /\ pendingRegistrations \in SUBSET Pc
    /\ events \in Seq(Event)
    /\ told \in [Pc -> [Field -> SUBSET Value]]
    /\ pcChangeResults \in [Pc -> Conn \cup {NoConn}]
    /\ now \in Nat \ {0}
    /\ failures \in Nat
    /\ failed \in SUBSET Conn
    /\ untold \in SUBSET Pc
    /\ met \in SUBSET Conn
    /\ lastDetection \in [Pc -> Conn \cup {NoConn}]
    /\ lastScan \in [Pc -> 0 .. MaxScans]

Init ==
    /\ row = [p \in Pc |-> [fields |-> InitialInfo, first |-> IF p \in KnownPc THEN 1 ELSE 0,
                            scan |-> 0]]
    /\ thread = [c \in Conn |-> "idle"]
    /\ pc = [c \in Conn |-> NoPc]
    /\ info = [c \in Conn |-> InitialInfo]
    /\ changedFields = [c \in Conn |-> {}]
    /\ seen = [c \in Conn |-> [fields |-> InitialInfo, first |-> 0, scan |-> 0]]
    /\ detecting = {}
    /\ pendingRegistrations = {}
    /\ events = <<>>
    /\ told = [p \in Pc |-> [f \in Field |-> IF p \in KnownPc THEN {InitialInfo[f]} ELSE {}]]
    /\ pcChangeResults = [p \in Pc |-> NoConn]
    /\ now = 1
    /\ failures = 0
    /\ failed = {}
    /\ untold = {}
    /\ met = {}
    /\ lastDetection = [p \in Pc |-> NoConn]
    /\ lastScan = [p \in Pc |-> 0]

-----------------------------------------------------------------------------
(***************************************************************************)
(* Statements of the database                                              *)
(***************************************************************************)

Known(p) == row[p].first # 0

\* executeQuery on behalf of a registration: the connection may be down or the
\* statement refused.
executeQuery(c, ok) ==
    IF ok THEN UNCHANGED dbVars
    ELSE /\ failures < MaxFailures
         /\ failures' = failures + 1
         /\ failed' = failed \cup {c}

\* Mutant: the update writes first_connect too.
registerOrUpdateClientFirst(p, fields, first, scan) ==
    row' = [row EXCEPT ![p] = [fields |-> fields, first |-> first, scan |-> @.scan]]

\* Mutant: the update writes recent_scan as it was read.
registerOrUpdateClientScan(p, fields, first, scan) ==
    row' = [row EXCEPT ![p] = [fields |-> fields, first |-> IF Known(p) THEN @.first ELSE first,
                               scan |-> scan]]

\* UPSERT_CLIENT_INFO: an update leaves first_connect and recent_scan alone,
\* whatever the caller passes.
registerOrUpdateClient(p, fields, first, scan) ==
    row' = [row EXCEPT ![p] = [fields |-> fields, first |-> IF Known(p) THEN @.first ELSE first,
                               scan |-> @.scan]]

\* storeForensicData stamps the row; it has one, or the module was refused.
updateClientRecentScan(p) ==
    /\ Known(p)
    /\ row[p].scan < MaxScans
    /\ row' = [row EXCEPT ![p].scan = @ + 1]
    /\ lastScan' = [lastScan EXCEPT ![p] = row[p].scan + 1]
    /\ UNCHANGED <<thread, pc, info, changedFields, seen, detecting, pendingRegistrations, events,
                   told, pcChangeResults, now, dbVars, untold, met, lastDetection>>

-----------------------------------------------------------------------------
(***************************************************************************)
(* A registration on its client thread                                     *)
(***************************************************************************)

Active(c) == thread[c] \notin {"idle", "done"}
Goto(c, place) == thread' = [thread EXCEPT ![c] = place]

\* A PC_INFO without an owner id arrives.
handlePCInfo(c, p, i) ==
    LET others == {d \in Conn : Active(d) /\ pc[d] = p}
    IN  /\ thread[c] = "idle"
        /\ Goto(c, "lookup")
        /\ pc' = [pc EXCEPT ![c] = p]
        /\ info' = [info EXCEPT ![c] = i]
        /\ met' = IF others = {} THEN met ELSE met \cup others \cup {c}
        /\ UNCHANGED <<row, changedFields, seen, detecting, pendingRegistrations, events, told,
                       pcChangeResults, now, dbVars, untold, lastDetection, lastScan>>

\* A PC whose row cannot be read passes for a new one.
lookupClient(c, ok) ==
    /\ thread[c] = "lookup"
    /\ executeQuery(c, ok)
    /\ IF ok /\ Known(pc[c])
       THEN Goto(c, "detect") /\ UNCHANGED pendingRegistrations
       ELSE /\ Goto(c, "ownerRequired")
            /\ pendingRegistrations' = pendingRegistrations \cup {pc[c]}
    /\ UNCHANGED <<row, pc, info, changedFields, seen, detecting, events, told, pcChangeResults,
                   now, untold, history>>

\* detectPCChanges locks, and gives up on a row it cannot read.
detectPCChanges(c, ok) ==
    /\ thread[c] = "detect"
    /\ detecting = {}
    /\ executeQuery(c, ok)
    /\ IF ok THEN Goto(c, "compare") /\ detecting' = {c}
       ELSE Goto(c, "done") /\ UNCHANGED detecting
    /\ UNCHANGED <<row, pc, info, changedFields, seen, pendingRegistrations, events, told,
                   pcChangeResults, now, untold, history>>

\* Mutant: the comparison stops at the first difference.
DifferencesFirst(c) ==
    LET d == {f \in Field : row[pc[c]].fields[f] # info[c][f]}
    IN  {f \in d : f = CHOOSE g \in d : TRUE}

Differences(c) == {f \in Field : row[pc[c]].fields[f] # info[c][f]}

\* Mutant: the mutex is released after the comparison.
HoldsMutexBriefly(c) == {}

\* A detection keeps the mutex up to its last signal.
HoldsMutex(c) == {c}

\* Without a difference only last_connect is written.
detectClientChanges(c, ok) ==
    /\ thread[c] = "compare"
    /\ executeQuery(c, ok)
    /\ LET d == IF ok THEN Differences(c) ELSE {}
       IN  /\ changedFields' = [changedFields EXCEPT ![c] = d]
           /\ IF d = {}
              THEN Goto(c, "done") /\ detecting' = {} /\ UNCHANGED lastDetection
              ELSE /\ Goto(c, "prepare")
                   /\ lastDetection' = [lastDetection EXCEPT ![pc[c]] = c]
                   /\ detecting' = HoldsMutex(c)
    /\ UNCHANGED <<row, pc, info, seen, pendingRegistrations, events, told, pcChangeResults, now,
                   untold, met, lastScan>>

\* A changed field takes its new value, unless that is empty.
WithChanges(c, fields) ==
    [f \in Field |-> IF f \in changedFields[c] /\ info[c][f] # Empty THEN info[c][f]
                     ELSE fields[f]]

\* Mutant: what is prepared is the old row.
prepareClientUpdateRequestOld(c, ok) ==
    /\ thread[c] = "prepare"
    /\ executeQuery(c, ok)
    /\ events' = Append(events, [what |-> "clientInfoChanged", pc |-> pc[c],
                                 new |-> row[pc[c]].fields])
    /\ Goto(c, "emit")
    /\ UNCHANGED <<row, pc, info, changedFields, seen, detecting, pendingRegistrations, told,
                   pcChangeResults, now, untold, history>>

\* The backend's request is made from the row read again, and queued.  If that
\* fails the request is empty and the backend client refuses it.
prepareClientUpdateRequest(c, ok) ==
    /\ thread[c] = "prepare"
    /\ executeQuery(c, ok)
    /\ IF ok
       THEN /\ events' = Append(events, [what |-> "clientInfoChanged", pc |-> pc[c],
                                         new |-> WithChanges(c, row[pc[c]].fields)])
            /\ UNCHANGED untold
       ELSE untold' = untold \cup {pc[c]} /\ UNCHANGED events
    /\ Goto(c, "emit")
    /\ UNCHANGED <<row, pc, info, changedFields, seen, detecting, pendingRegistrations, told,
                   pcChangeResults, now, history>>

\* The request is prepared once more, for processPCChanges, and the signal
\* queued.  A thread has no event loop: what it sends the backend itself never
\* starts (BackendApiClient).
emitPcChangesDetected(c) ==
    /\ thread[c] = "emit"
    /\ events' = Append(events, [what |-> "pcChangesDetected", pc |-> pc[c], conn |-> c])
    /\ detecting' = detecting \ {c}
    /\ Goto(c, "process")
    /\ UNCHANGED <<row, pc, info, changedFields, seen, pendingRegistrations, told,
                   pcChangeResults, now, dbVars, untold, history>>

\* processPCChanges reads the row, without the mutex,
readForUpdate(c, ok) ==
    /\ thread[c] = "process"
    /\ executeQuery(c, ok)
    /\ IF ok THEN Goto(c, "write") /\ seen' = [seen EXCEPT ![c] = row[pc[c]]]
       ELSE Goto(c, "done") /\ UNCHANGED seen
    /\ UNCHANGED <<row, pc, info, changedFields, detecting, pendingRegistrations, events, told,
                   pcChangeResults, now, untold, history>>

\* and writes all of it.  The agent is told "PC updated successfully" either way.
processPCChanges(c, ok) ==
    /\ thread[c] = "write"
    /\ executeQuery(c, ok)
    /\ IF ok
       THEN registerOrUpdateClient(pc[c], WithChanges(c, seen[c].fields), seen[c].first,
                                   seen[c].scan)
       ELSE UNCHANGED row
    /\ Goto(c, "done")
    /\ UNCHANGED <<pc, info, changedFields, seen, detecting, pendingRegistrations, events, told,
                   pcChangeResults, now, untold, history>>

\* The agent sends its owner id, and the main thread the backend the request.
verifyOwner(c) ==
    /\ thread[c] = "ownerRequired"
    /\ Goto(c, "verifying")
    /\ told' = [told EXCEPT ![pc[c]] = [f \in Field |-> @[f] \cup {info[c][f]}]]
    /\ UNCHANGED <<row, pc, info, changedFields, seen, detecting, pendingRegistrations, events,
                   pcChangeResults, now, dbVars, untold, history>>

-----------------------------------------------------------------------------
(***************************************************************************)
(* The main thread                                                         *)
(***************************************************************************)

onOwnerVerificationResult(c, success, ok) ==
    /\ thread[c] = "verifying"
    /\ now' = now + 1
    /\ pendingRegistrations' = pendingRegistrations \ {pc[c]}
    /\ IF success /\ pc[c] \in pendingRegistrations
       THEN /\ executeQuery(c, ok)
            /\ IF ok
               THEN registerOrUpdateClient(pc[c], info[c], now', 0)
               ELSE UNCHANGED row
       ELSE UNCHANGED <<row, dbVars>>
    /\ Goto(c, "done")
    /\ UNCHANGED <<pc, info, changedFields, seen, detecting, events, told, pcChangeResults,
                   untold, history>>

onClientInfoChanged ==
    /\ events # <<>>
    /\ Head(events).what = "clientInfoChanged"
    /\ LET e == Head(events)
       IN  told' = [told EXCEPT ![e.pc] = [f \in Field |-> @[f] \cup {e.new[f]}]]
    /\ events' = Tail(events)
    /\ UNCHANGED <<row, thread, pc, info, changedFields, seen, detecting, pendingRegistrations,
                   pcChangeResults, now, dbVars, untold, history>>

onPCChangesDetected ==
    /\ events # <<>>
    /\ Head(events).what = "pcChangesDetected"
    /\ LET e == Head(events)
       IN  pcChangeResults' = [pcChangeResults EXCEPT ![e.pc] = e.conn]
    /\ events' = Tail(events)
    /\ UNCHANGED <<row, thread, pc, info, changedFields, seen, detecting, pendingRegistrations,
                   told, now, dbVars, untold, history>>

-----------------------------------------------------------------------------
ThreadStep(c) ==
    \/ \E p \in Pc, i \in Info : handlePCInfo(c, p, i)
    \/ \E ok \in BOOLEAN :
          \/ lookupClient(c, ok)
          \/ detectPCChanges(c, ok)
          \/ detectClientChanges(c, ok)
          \/ prepareClientUpdateRequest(c, ok)
          \/ readForUpdate(c, ok)
          \/ processPCChanges(c, ok)
    \/ emitPcChangesDetected(c)
    \/ verifyOwner(c)

Next ==
    \/ \E c \in Conn : ThreadStep(c)
    \/ \E c \in Conn, success, ok \in BOOLEAN : onOwnerVerificationResult(c, success, ok)
    \/ onClientInfoChanged
    \/ onPCChangesDetected
    \/ \E p \in Pc : updateClientRecentScan(p)

Spec == Init /\ [][Next]_vars

-----------------------------------------------------------------------------
(***************************************************************************)
(* Properties                                                              *)
(***************************************************************************)

\* The first connection of a PC is dated once.  A known PC whose row could not
\* be read is verified like a new one, and two connections of a new PC may both
\* be approved: neither dates it again.
FirstConnectKept ==
    [][\A p \in Pc : Known(p) => row'[p].first = row[p].first]_vars

\* A registration reads a row and writes it back later; the scan that a module
\* stored in between stays in it.
ScansKept == \A p \in Pc : row[p].scan = lastScan[p]

\* The values the backend was sent, or will be when the queue is empty.
Told(p, f) ==
    told[p][f] \cup {events[i].new[f] : i \in {j \in DOMAIN events :
                            events[j].what = "clientInfoChanged" /\ events[j].pc = p}}

\* The database never holds a value of a PC that the backend does not hear of,
\* although the one is written by client threads, from rows that others change
\* meanwhile, and the other told by the main thread.  The only way to miss one
\* is a detection during which the row could not be read again.
WrittenIsTold ==
    \A p \in Pc \ untold : Known(p) => \A f \in Field : row[p].fields[f] \in Told(p, f)

\* A registration of a known PC that met no other one of its PC, and no failing
\* statement, leaves the row as the agent reports it, except for what the agent
\* could not find out.
RegistrationTakesHold ==
    [][\A c \in Conn \ (met' \cup failed') :
         thread[c] \in {"compare", "write"} /\ thread'[c] = "done"
            => \A f \in Field : info[c][f] \in {row'[pc[c]].fields[f], Empty}]_vars

\* The HTTP API shows the last detection of a PC, not the one whose signal
\* happened to be queued last.
ApiShowsLastDetection ==
    \A p \in Pc :
        \/ \E i \in DOMAIN events : events[i].what = "pcChangesDetected" /\ events[i].pc = p
        \/ \E c \in Conn : pc[c] = p /\ thread[c] \in {"prepare", "emit"}
        \/ pcChangeResults[p] = lastDetection[p]

=============================================================================
