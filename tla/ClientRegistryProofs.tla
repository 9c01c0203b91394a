------------------------ MODULE ClientRegistryProofs ------------------------
(***************************************************************************)
(* What TLAPS proves of ClientRegistry for every set of PCs, connections,  *)
(* handles, tasks and modules: type correctness, one entry per PC on the   *)
(* list of connected clients, that only verified PCs are admitted, that no *)
(* accepted request is forgotten and that none is failed twice.            *)
(***************************************************************************)
EXTENDS ClientRegistry, SequenceTheorems, FiniteSetTheorems,
        WellFoundedInduction, TLAPS

(***************************************************************************)
(* Lemmas about the list                                                   *)
(***************************************************************************)

\* A nonempty set of indices has a first and a last element.  (The lookups of
\* the code take one or the other; the library's induction cannot be
\* instantiated here, so the order of subsets of an interval stands in.)
LEMMA FirstAndLast ==
    ASSUME NEW n \in Nat, NEW I \in SUBSET (1 .. n), I # {}
    PROVE  /\ Min(I) \in I /\ \A j \in I : Min(I) <= j
           /\ Max(I) \in I /\ \A j \in I : Max(I) >= j
<1> DEFINE R == StrictSubsetOrdering(1 .. n)
           Down(i) == 1 .. (i - 1)
           Up(i) == (i + 1) .. n
<1>1. IsWellFoundedOn(R, FiniteSubsetsOf(1 .. n))
  BY FS_StrictSubsetOrderingWellFounded
<1>2. \A i \in I : Down(i) \in FiniteSubsetsOf(1 .. n) /\ Up(i) \in FiniteSubsetsOf(1 .. n)
  BY FS_Interval DEF FiniteSubsetsOf
<1>3. Min(I) \in I /\ \A j \in I : Min(I) <= j
  <2>1. PICK i \in I : \A j \in I : <<Down(j), Down(i)>> \notin R
    <3> DEFINE T == {Down(i) : i \in I}
    <3>1. T \subseteq FiniteSubsetsOf(1 .. n) /\ T # {}
      BY <1>2
    <3> HIDE DEF R
    <3>2. \E x \in T : \A y \in T : <<y, x>> \notin R
      BY <1>1, <3>1, WFMin
    <3> QED  BY <3>2
  <2>2. \A j \in I : i <= j
    <3>1. SUFFICES ASSUME NEW j \in I, j < i PROVE FALSE
      OBVIOUS
    <3>2. Down(j) \subseteq Down(i) /\ j \in Down(i) /\ j \notin Down(j)
      BY <3>1
    <3>3. Down(i) \in SUBSET (1 .. n) /\ Down(j) \in SUBSET (1 .. n)
      OBVIOUS
    <3> HIDE DEF Down
    <3> QED  BY <2>1, <3>2, <3>3 DEF StrictSubsetOrdering
  <2> QED  BY <2>2 DEF Min
<1>4. Max(I) \in I /\ \A j \in I : Max(I) >= j
  <2>1. PICK i \in I : \A j \in I : <<Up(j), Up(i)>> \notin R
    <3> DEFINE T == {Up(i) : i \in I}
    <3>1. T \subseteq FiniteSubsetsOf(1 .. n) /\ T # {}
      BY <1>2
    <3> HIDE DEF R
    <3>2. \E x \in T : \A y \in T : <<y, x>> \notin R
      BY <1>1, <3>1, WFMin
    <3> QED  BY <3>2
  <2>2. \A j \in I : i >= j
    <3>1. SUFFICES ASSUME NEW j \in I, j > i PROVE FALSE
      OBVIOUS
    <3>2. Up(j) \subseteq Up(i) /\ j \in Up(i) /\ j \notin Up(j)
      BY <3>1
    <3>3. Up(i) \in SUBSET (1 .. n) /\ Up(j) \in SUBSET (1 .. n)
      OBVIOUS
    <3> HIDE DEF Up
    <3> QED  BY <2>1, <3>2, <3>3 DEF StrictSubsetOrdering
  <2> QED  BY <2>2 DEF Max
<1> QED  BY <1>3, <1>4

\* Taking out position i keeps the others and their order.
LEMMA RemoveAtKeepsTheRest ==
    ASSUME NEW S, NEW s \in Seq(S), NEW i \in 1 .. Len(s)
    PROVE  /\ RemoveAt(s, i) \in Seq(S)
           /\ Len(RemoveAt(s, i)) = Len(s) - 1
           /\ \A j \in 1 .. (Len(s) - 1) :
                 RemoveAt(s, i)[j] = IF j < i THEN s[j] ELSE s[j + 1]
<1> DEFINE a == SubSeq(s, 1, i - 1)
           b == SubSeq(s, i + 1, Len(s))
<1>1. Len(s) \in Nat /\ \A j \in 1 .. Len(s) : s[j] \in S
  BY LenProperties, ElementOfSeq
<1>2. /\ a \in Seq(S)
      /\ Len(a) = i - 1
      /\ \A j \in 1 .. (i - 1) : a[j] = s[j]
  <2>1. \A j \in 1 .. (i - 1) : s[j] \in S
    BY <1>1
  <2>2. 1 \in Int /\ i - 1 \in Int
    BY <1>1
  <2> QED  BY <2>1, <2>2, <1>1, SubSeqProperties
<1>3. /\ b \in Seq(S)
      /\ Len(b) = Len(s) - i
      /\ \A j \in 1 .. (Len(s) - i) : b[j] = s[i + j]
  <2>1. \A j \in (i + 1) .. Len(s) : s[j] \in S
    BY <1>1
  <2>2. i + 1 \in Int /\ Len(s) \in Int
    BY <1>1
  <2>3. /\ b \in Seq(S)
        /\ Len(b) = IF i + 1 <= Len(s) THEN Len(s) - (i + 1) + 1 ELSE 0
        /\ \A j \in 1 .. (Len(s) - (i + 1) + 1) : b[j] = s[(i + 1) + j - 1]
    BY <2>1, <2>2, SubSeqProperties
  <2> QED  BY <2>3, <1>1
<1> HIDE DEF a, b
<1>4. /\ a \o b \in Seq(S)
      /\ Len(a \o b) = Len(s) - 1
      /\ \A j \in 1 .. (Len(s) - 1) :
            (a \o b)[j] = IF j <= i - 1 THEN a[j] ELSE b[j - (i - 1)]
  <2>1. /\ a \o b \in Seq(S)
        /\ Len(a \o b) = Len(a) + Len(b)
        /\ \A j \in 1 .. (Len(a) + Len(b)) :
              (a \o b)[j] = IF j <= Len(a) THEN a[j] ELSE b[j - Len(a)]
    BY <1>2, <1>3, ConcatProperties
  <2>2. Len(a) + Len(b) = Len(s) - 1
    BY <1>1, <1>2, <1>3
  <2> QED  BY <2>1, <2>2, <1>2
<1>5. ASSUME NEW j \in 1 .. (Len(s) - 1)
      PROVE  (a \o b)[j] = IF j < i THEN s[j] ELSE s[j + 1]
  <2>1. CASE j < i
    BY <2>1, <1>1, <1>2, <1>4
  <2>2. CASE ~(j < i)
    <3>1. j - (i - 1) \in 1 .. (Len(s) - i) /\ i + (j - (i - 1)) = j + 1
      BY <2>2, <1>1
    <3>2. (a \o b)[j] = b[j - (i - 1)]
      BY <2>2, <1>1, <1>4
    <3> QED  BY <2>2, <3>1, <3>2, <1>3
  <2> QED  BY <2>1, <2>2
<1>6. RemoveAt(s, i) = a \o b
  BY DEF RemoveAt, a, b
<1> QED  BY <1>4, <1>5, <1>6

\* What a lookup by handle returns is a PC or nothing.
LEMMA PcOnSocketType ==
    ASSUME connectedClients \in Seq(Entry), NEW s
    PROVE  PcOnSocket(s) \in Pc \cup {NoPc}
<1> DEFINE I == {i \in 1 .. Len(connectedClients) : connectedClients[i].socket = s}
<1>1. Len(connectedClients) \in Nat /\ I \in SUBSET (1 .. Len(connectedClients))
  BY LenProperties
<1>2. CASE I = {}
  BY <1>2 DEF PcOnSocket, SelectInSeq
<1>3. CASE I # {}
  <2>1. Min(I) \in I
    BY <1>1, <1>3, FirstAndLast
  <2>2. Min(I) # 0
    BY <1>1, <2>1
  <2>3. connectedClients[Min(I)] \in Entry
    BY <2>1, ElementOfSeq
  <2>4. PcOnSocket(s) = connectedClients[Min(I)].pcId
    BY <1>3, <2>2 DEF PcOnSocket, SelectInSeq
  <2> QED  BY <2>3, <2>4 DEF Entry
<1> QED  BY <1>2, <1>3

\* Registering p leaves its new entry and the other entries of the list, and
\* p no second time.
LEMMA UpdateKeepsOneEntry ==
    ASSUME connectedClients \in Seq(Entry), OneEntryPerPc,
           NEW s \in Socket, NEW p \in Pc,
           updateConnectedClientsList(s, p)
    PROVE  /\ connectedClients' \in Seq(Entry)
           /\ OneEntryPerPc'
           /\ \A j \in DOMAIN connectedClients' :
                 \/ connectedClients'[j].pcId = p
                 \/ \E i \in DOMAIN connectedClients :
                       connectedClients[i].pcId = connectedClients'[j].pcId
<1> DEFINE cc == connectedClients
           n == Len(cc)
           I == {i \in 1 .. n : cc[i].pcId = p}
           e == [pcId |-> p, socket |-> s]
           rest == IF I = {} THEN cc ELSE RemoveAt(cc, Min(I))
<1>1. n \in Nat /\ DOMAIN cc = 1 .. n /\ I \in SUBSET (1 .. n) /\ e \in Entry
  BY LenProperties DEF Entry
<1>2. /\ rest \in Seq(Entry)
      /\ \A j \in DOMAIN rest : rest[j].pcId # p
      /\ \A j \in DOMAIN rest : \E i \in DOMAIN cc : cc[i] = rest[j]
      /\ \A j, k \in DOMAIN rest : rest[j].pcId = rest[k].pcId => j = k
  <2>1. CASE I = {}
    <3>1. rest = cc
      BY <2>1
    <3> QED  BY <2>1, <3>1, <1>1 DEF OneEntryPerPc
  <2>2. CASE I # {}
    <3> DEFINE m == Min(I)
    <3>1. m \in I
      BY <1>1, <2>2, FirstAndLast
    <3>2. rest = RemoveAt(cc, m)
      BY <2>2
    <3> HIDE DEF m, rest
    <3>3. /\ rest \in Seq(Entry)
          /\ Len(rest) = n - 1
          /\ \A j \in 1 .. (n - 1) : rest[j] = IF j < m THEN cc[j] ELSE cc[j + 1]
      BY <3>1, <3>2, <1>1, RemoveAtKeepsTheRest
    <3>4. DOMAIN rest = 1 .. (n - 1)
      BY <3>3, LenProperties
    <3>5. \A j \in 1 .. (n - 1) : \E i \in 1 .. n :
             i # m /\ i = (IF j < m THEN j ELSE j + 1) /\ rest[j] = cc[i]
      BY <3>1, <3>3, <1>1
    <3>6. \A i \in 1 .. n : i # m => cc[i].pcId # p
      BY <3>1, <1>1 DEF OneEntryPerPc
    <3>7. ASSUME NEW j \in 1 .. (n - 1), NEW k \in 1 .. (n - 1),
                 rest[j].pcId = rest[k].pcId
          PROVE  j = k
      <4>1. PICK a \in 1 .. n : a = (IF j < m THEN j ELSE j + 1) /\ rest[j] = cc[a]
        BY <3>5
      <4>2. PICK b \in 1 .. n : b = (IF k < m THEN k ELSE k + 1) /\ rest[k] = cc[b]
        BY <3>5
      <4>3. a = b
        BY <3>7, <4>1, <4>2, <1>1 DEF OneEntryPerPc
      <4> QED  BY <3>1, <4>1, <4>2, <4>3, <1>1
    <3> QED  BY <3>3, <3>4, <3>5, <3>6, <3>7, <1>1
  <2> QED  BY <2>1, <2>2
<1> HIDE DEF rest
<1>3. connectedClients' = Append(rest, e)
  <2>1. ASSUME I # {} PROVE Min(I) # 0
    <3>1. Min(I) \in I
      BY <2>1, <1>1, FirstAndLast
    <3> QED  BY <3>1, <1>1
  <2> QED  BY <2>1 DEF updateConnectedClientsList, SelectInSeq, rest
<1>4. /\ connectedClients' \in Seq(Entry)
      /\ Len(rest) \in Nat
      /\ DOMAIN rest = 1 .. Len(rest)
      /\ DOMAIN connectedClients' = 1 .. (Len(rest) + 1)
      /\ \A j \in 1 .. Len(rest) : connectedClients'[j] = rest[j]
      /\ connectedClients'[Len(rest) + 1] = e
  BY <1>1, <1>2, <1>3, AppendProperties, LenProperties
<1>5. OneEntryPerPc'
  BY <1>2, <1>4 DEF OneEntryPerPc
<1>6. \A j \in DOMAIN connectedClients' :
         \/ connectedClients'[j].pcId = p
         \/ \E i \in DOMAIN cc : cc[i].pcId = connectedClients'[j].pcId
  BY <1>2, <1>4
<1> QED  BY <1>4, <1>5, <1>6

\* Taking a handle's entry off the list leaves entries that were there.
LEMMA RemoveKeepsOneEntry ==
    ASSUME connectedClients \in Seq(Entry), OneEntryPerPc,
           NEW s \in Socket, RemoveEntryOfSocket(s)
    PROVE  /\ connectedClients' \in Seq(Entry)
           /\ OneEntryPerPc'
           /\ \A j \in DOMAIN connectedClients' :
                 \E i \in DOMAIN connectedClients :
                    connectedClients[i].pcId = connectedClients'[j].pcId
<1> DEFINE cc == connectedClients
           n == Len(cc)
           I == {i \in 1 .. n : cc[i].socket = s}
<1>1. n \in Nat /\ DOMAIN cc = 1 .. n /\ I \in SUBSET (1 .. n)
  BY LenProperties
<1>2. CASE I = {}
  <2>1. connectedClients' = cc
    BY <1>2 DEF RemoveEntryOfSocket, SelectLastInSeq
  <2> QED  BY <2>1 DEF OneEntryPerPc
<1>3. CASE I # {}
  <2> DEFINE m == Max(I)
  <2>1. m \in I
    BY <1>1, <1>3, FirstAndLast
  <2>2. m # 0
    BY <1>1, <2>1
  <2>3. connectedClients' = RemoveAt(cc, m)
    BY <1>3, <2>2 DEF RemoveEntryOfSocket, SelectLastInSeq
  <2> HIDE DEF m
  <2>4. /\ connectedClients' \in Seq(Entry)
        /\ Len(connectedClients') = n - 1
        /\ \A j \in 1 .. (n - 1) :
              connectedClients'[j] = IF j < m THEN cc[j] ELSE cc[j + 1]
    BY <2>1, <2>3, <1>1, RemoveAtKeepsTheRest
  <2>5. DOMAIN connectedClients' = 1 .. (n - 1)
    BY <2>4, LenProperties
  <2>6. \A j \in 1 .. (n - 1) : \E i \in 1 .. n :
           i = (IF j < m THEN j ELSE j + 1) /\ connectedClients'[j] = cc[i]
    BY <2>1, <2>4, <1>1
  <2>7. ASSUME NEW j \in 1 .. (n - 1), NEW k \in 1 .. (n - 1),
               connectedClients'[j].pcId = connectedClients'[k].pcId
        PROVE  j = k
    <3>1. PICK a \in 1 .. n :
             a = (IF j < m THEN j ELSE j + 1) /\ connectedClients'[j] = cc[a]
      BY <2>6
    <3>2. PICK b \in 1 .. n :
             b = (IF k < m THEN k ELSE k + 1) /\ connectedClients'[k] = cc[b]
      BY <2>6
    <3>3. a = b
      BY <2>7, <3>1, <3>2, <1>1 DEF OneEntryPerPc
    <3> QED  BY <2>1, <3>1, <3>2, <3>3, <1>1
  <2>8. OneEntryPerPc'
    BY <2>5, <2>7 DEF OneEntryPerPc
  <2>9. \A j \in DOMAIN connectedClients' :
           \E i \in DOMAIN cc : cc[i].pcId = connectedClients'[j].pcId
    BY <2>5, <2>6, <1>1
  <2> QED  BY <2>4, <2>8, <2>9
<1> QED  BY <1>2, <1>3

-----------------------------------------------------------------------------
(***************************************************************************)
(* Type correctness                                                        *)
(***************************************************************************)

\* A response changes the state of at most one agent.
LEMMA ResponseType ==
    ASSUME TypeOK, NEW s \in Socket,
           NEW st \in {"ready", "owner", "error"},
           sendPCInfoResponse(s, st)
    PROVE  agentState' \in [Pc -> {"off", "connected", "registering", "owner",
                                   "verifying", "ready", "error"}]
BY DEF TypeOK, sendPCInfoResponse, Live

\* Registering a PC keeps the types of the list and of the handle mapping.
LEMMA UpdateType ==
    ASSUME TypeOK, OneEntryPerPc, NEW s \in Socket, NEW p \in Pc,
           updateConnectedClientsList(s, p)
    PROVE  /\ connectedClients' \in Seq(Entry)
           /\ socketToClientId' \in [Socket -> Pc \cup {NoPc}]
<1>1. connectedClients' \in Seq(Entry)
  BY UpdateKeepsOneEntry DEF TypeOK
<1>2. socketToClientId' \in [Socket -> Pc \cup {NoPc}]
  BY DEF TypeOK, updateConnectedClientsList
<1> QED  BY <1>1, <1>2

\* So does forgetting a handle, with the tasks and the connections.
LEMMA CleanupType ==
    ASSUME TypeOK, OneEntryPerPc, NEW s \in Socket, cleanupClient(s)
    PROVE  /\ connectedClients' \in Seq(Entry)
           /\ socketToClientId' \in [Socket -> Pc \cup {NoPc}]
           /\ open' \in [Socket -> Conn \cup {NoConn}]
           /\ inbox' \in [Conn -> Seq(PcInfo \cup Data)]
           /\ failQueued' \in [Request -> Nat]
           /\ clientTaskIds' \in [Pc -> Request \cup {NoRequest}]
<1>1. connectedClients' \in Seq(Entry)
  BY RemoveKeepsOneEntry DEF TypeOK, cleanupClient
<1>2. /\ socketToClientId' \in [Socket -> Pc \cup {NoPc}]
      /\ open' \in [Socket -> Conn \cup {NoConn}]
  BY DEF TypeOK, cleanupClient
<1>3. inbox' \in [Conn -> Seq(PcInfo \cup Data)]
  BY EmptySeq DEF TypeOK, cleanupClient
<1>4. failQueued' \in [Request -> Nat]
  <2>1. /\ failQueued \in [Request -> Nat]
        /\ \/ failQueued' = failQueued
           \/ failQueued' = [failQueued EXCEPT ![CurrentRequest(socketToClientId[s])] = @ + 1]
    BY DEF TypeOK, cleanupClient, FailCurrentTask, PostFailure
  <2> QED  BY <2>1
<1>5. clientTaskIds' \in [Pc -> Request \cup {NoRequest}]
  BY DEF TypeOK, cleanupClient, FailCurrentTask
<1> QED  BY <1>1, <1>2, <1>3, <1>4, <1>5

\* A thread that is woken goes to close its handle.
LEMMA WokenType ==
    ASSUME TypeOK, NEW s
    PROVE  /\ Woken(s) \in [Conn -> {"free", "recv", "known", "unknown", "reload",
                                     "closing", "done"}]
           /\ \A c \in Conn : Woken(s)[c] # "closing" => Woken(s)[c] = thread[c]
           /\ \A c \in Conn : thread[c] = "free" => Woken(s)[c] = "free"
BY DEF TypeOK, Woken

\* A thread reads one message of the connection its handle stands for.
LEMMA ReceiveType ==
    ASSUME TypeOK, NEW c \in Conn, NEW msg, Receive(c, msg)
    PROVE  /\ sock[c] \in Socket
           /\ inbox' \in [Conn -> Seq(PcInfo \cup Data)]
<1>1. sock[c] \in Socket
  BY DEF TypeOK, Receive
<1> DEFINE k == open[sock[c]]
<1>2. k \in Conn /\ inbox[k] \in Seq(PcInfo \cup Data) /\ inbox[k] # <<>>
  BY <1>1 DEF TypeOK, Receive
<1>3. Tail(inbox[k]) \in Seq(PcInfo \cup Data)
  BY <1>2, HeadTailProperties
<1>4. inbox' = [inbox EXCEPT ![k] = Tail(@)]
  BY DEF Receive
<1> QED  BY <1>1, <1>3, <1>4 DEF TypeOK

\* An agent sends on the connection it holds.
LEMMA AgentSendType ==
    ASSUME TypeOK, NEW p \in Pc, NEW msg \in PcInfo \cup Data, AgentSend(p, msg)
    PROVE  inbox' \in [Conn -> Seq(PcInfo \cup Data)]
<1> DEFINE k == agentConn[p]
<1>1. k \in Conn /\ inbox[k] \in Seq(PcInfo \cup Data)
  BY DEF TypeOK, AgentSend
<1>2. Append(inbox[k], msg) \in Seq(PcInfo \cup Data)
  BY <1>1, AppendProperties
<1>3. inbox' = [inbox EXCEPT ![k] = Append(@, msg)]
  BY DEF AgentSend
<1> QED  BY <1>2, <1>3 DEF TypeOK
-----------------------------------------------------------------------------
(***************************************************************************)
(* The invariant.  A thread between finding a PC in the database and       *)
(* connecting it relies on the row still being there.                      *)
(***************************************************************************)
KnownIsRegistered == \A c \in Conn : thread[c] = "known" => pcInfo[c] \in dbClients

RegistryInv == TypeOK /\ OneEntryPerPc /\ OnlyVerifiedAdmitted /\ KnownIsRegistered

\* The server starts in a state that satisfies it.
LEMMA InitInv == Init => RegistryInv
<1> SUFFICES ASSUME Init PROVE RegistryInv
  OBVIOUS
<1>1. connectedClients \in Seq(Entry) /\ DOMAIN connectedClients = {}
  BY EmptySeq, LenProperties DEF Init
<1>2. inbox \in [Conn -> Seq(PcInfo \cup Data)]
  BY EmptySeq DEF Init
<1>3. TypeOK
  BY <1>1, <1>2, KnownPcAssumption DEF Init, TypeOK
<1>4. OneEntryPerPc /\ OnlyVerifiedAdmitted /\ KnownIsRegistered
  BY <1>1, NoneAssumption DEF Init, OneEntryPerPc, OnlyVerifiedAdmitted, KnownIsRegistered
<1> QED  BY <1>3, <1>4 DEF RegistryInv

\* Every step keeps the types.
LEMMA TypeStep == RegistryInv /\ [Next]_vars => TypeOK'
<1> SUFFICES ASSUME RegistryInv, [Next]_vars PROVE TypeOK'
  OBVIOUS
<1> TypeOK /\ OneEntryPerPc
  BY DEF RegistryInv
<1> USE DEF agentVars, threadVars, registryVars, dbVars, taskHistory
<1>1. CASE UNCHANGED vars
  BY <1>1 DEF vars, TypeOK
<1>2. ASSUME NEW p \in Pc, AgentStartRegistration(p) PROVE TypeOK'
  <2>1. inbox' \in [Conn -> Seq(PcInfo \cup Data)]
    BY <1>2, AgentSendType DEF AgentStartRegistration, PcInfo
  <2> QED  BY <1>2, <2>1 DEF AgentStartRegistration, TypeOK
<1>3. ASSUME NEW p \in Pc, AgentSubmitOwnerID(p) PROVE TypeOK'
  <2>1. inbox' \in [Conn -> Seq(PcInfo \cup Data)]
    BY <1>3, AgentSendType DEF AgentSubmitOwnerID, PcInfo
  <2> QED  BY <1>3, <2>1 DEF AgentSubmitOwnerID, TypeOK
<1>4. ASSUME NEW p \in Pc, NEW t \in Task, NEW m \in Module, AgentSendForensicData(p, t, m)
      PROVE  TypeOK'
  <2>1. inbox' \in [Conn -> Seq(PcInfo \cup Data)]
    BY <1>4, AgentSendType DEF AgentSendForensicData, Data
  <2> QED  BY <1>4, <2>1 DEF AgentSendForensicData, TypeOK
<1>5. ASSUME NEW p \in Pc, AgentDisconnects(p) PROVE TypeOK'
  BY <1>5 DEF AgentDisconnects, TypeOK
<1>6. ASSUME NEW c \in Conn, NEW s \in Socket, NEW p \in Pc, acceptClients(c, s, p)
      PROVE  TypeOK'
  <2>1. PcOnSocket(s) \in Pc \cup {NoPc}
    BY PcOnSocketType DEF TypeOK
  <2> QED  BY <1>6, <2>1, NoneAssumption DEF acceptClients, TypeOK
<1>7. ASSUME NEW c \in Conn, handlePCInfoLookup(c) PROVE TypeOK'
  <2>1. PICK msg \in PcInfo :
           /\ Receive(c, msg)
           /\ pcInfo' = [pcInfo EXCEPT ![c] = msg.pcId]
           /\ \/ thread' = [thread EXCEPT ![c] = "known"]
              \/ thread' = [thread EXCEPT ![c] = "unknown"]
    BY <1>7 DEF handlePCInfoLookup
  <2>2. sock[c] \in Socket /\ inbox' \in [Conn -> Seq(PcInfo \cup Data)]
    BY <2>1, ReceiveType
  <2>3. msg.pcId \in Pc
    BY DEF PcInfo
  <2>4. /\ pcInfo' \in [Conn -> Pc \cup {NoPc}]
        /\ thread' \in [Conn -> {"free", "recv", "known", "unknown", "reload",
                                 "closing", "done"}]
    BY <2>1, <2>3 DEF TypeOK
  <2>5. \A d \in Conn : thread'[d] \in {"known", "unknown"} => pcInfo'[d] # NoPc
    BY <2>1, <2>3, NoneAssumption DEF TypeOK
  <2>6. sock' = sock /\ \A d \in Conn : sock[d] = NoSocket => thread'[d] = "free"
    BY <1>7, <2>1, <2>2, NoneAssumption DEF handlePCInfoLookup, TypeOK
  <2>7. UNCHANGED <<open, peer, agentVars, sock, client, registryVars,
                    pendingRegistrations, clientTaskIds, verifying, failQueued,
                    dbVars, verified, taskHistory>>
    BY <1>7 DEF handlePCInfoLookup
  <2> QED  BY <2>2, <2>4, <2>5, <2>6, <2>7 DEF TypeOK
<1>8. ASSUME NEW c \in Conn, handlePCInfoKnown(c) PROVE TypeOK'
  <2>1. sock[c] \in Socket /\ pcInfo[c] \in Pc
    BY <1>8 DEF handlePCInfoKnown, TypeOK
  <2>2. agentState' \in [Pc -> {"off", "connected", "registering", "owner",
                                "verifying", "ready", "error"}]
    BY <1>8, <2>1, ResponseType DEF handlePCInfoKnown
  <2>3. /\ connectedClients' \in Seq(Entry)
        /\ socketToClientId' \in [Socket -> Pc \cup {NoPc}]
    BY <1>8, <2>1, UpdateType DEF handlePCInfoKnown
  <2> QED  BY <1>8, <2>1, <2>2, <2>3 DEF handlePCInfoKnown, TypeOK
<1>9. ASSUME NEW c \in Conn, handlePCInfoUnknown(c) PROVE TypeOK'
  <2>1. sock[c] \in Socket /\ pcInfo[c] \in Pc
    BY <1>9 DEF handlePCInfoUnknown, TypeOK
  <2>2. agentState' \in [Pc -> {"off", "connected", "registering", "owner",
                                "verifying", "ready", "error"}]
    BY <1>9, <2>1, ResponseType DEF handlePCInfoUnknown
  <2> QED  BY <1>9, <2>1, <2>2 DEF handlePCInfoUnknown, TypeOK
<1>10. ASSUME NEW c \in Conn, handleClientReload(c) PROVE TypeOK'
  <2>1. PcOnSocket(sock[c]) \in Pc \cup {NoPc}
    BY PcOnSocketType DEF TypeOK
  <2> QED  BY <1>10, <2>1 DEF handleClientReload, TypeOK
<1>11. ASSUME NEW c \in Conn, handleOwnerId(c) PROVE TypeOK'
  <2>1. PICK msg \in PcInfo :
           /\ Receive(c, msg)
           /\ verifying' = [verifying EXCEPT ![msg.pcId] = @ + 1]
    BY <1>11 DEF handleOwnerId
  <2>2. inbox' \in [Conn -> Seq(PcInfo \cup Data)]
    BY <2>1, ReceiveType
  <2>3. msg.pcId \in Pc
    BY DEF PcInfo
  <2>4. verifying' \in [Pc -> Nat]
    BY <2>1, <2>3 DEF TypeOK
  <2>5. UNCHANGED <<open, peer, agentVars, threadVars, registryVars,
                    pendingRegistrations, clientTaskIds, failQueued, dbVars,
                    verified, taskHistory>>
    BY <1>11 DEF handleOwnerId
  <2> QED  BY <2>2, <2>4, <2>5 DEF TypeOK
<1>12. ASSUME NEW c \in Conn, processForensicData(c) PROVE TypeOK'
  <2> DEFINE who == IF client[c] # NoPc THEN client[c] ELSE PcOnSocket(sock[c])
             row(msg) == [pcId |-> who, taskId |-> msg.taskId,
                          moduleType |-> msg.moduleType]
  <2>1. PICK msg \in Data :
           /\ Receive(c, msg)
           /\ client' = [client EXCEPT ![c] = who]
           /\ \/ who # NoPc /\ forensicRows' = forensicRows \cup {row(msg)}
              \/ UNCHANGED forensicRows
    BY <1>12 DEF processForensicData
  <2>2. inbox' \in [Conn -> Seq(PcInfo \cup Data)]
    BY <2>1, ReceiveType
  <2>3. who \in Pc \cup {NoPc}
    BY PcOnSocketType DEF TypeOK
  <2>4. forensicRows' \in SUBSET Row
    BY <2>1, <2>3 DEF TypeOK, Data, Row
  <2>5. client' \in [Conn -> Pc \cup {NoPc}]
    BY <2>1, <2>3 DEF TypeOK
  <2> QED  BY <1>12, <2>2, <2>4, <2>5 DEF processForensicData, TypeOK
<1>13. ASSUME NEW c \in Conn, handleClientDisconnect(c) PROVE TypeOK'
  BY <1>13 DEF handleClientDisconnect, TypeOK
<1>14. ASSUME NEW c \in Conn, handleClientExit(c) PROVE TypeOK'
  <2>1. sock[c] \in Socket
    BY <1>14 DEF handleClientExit, TypeOK
  <2>2. /\ connectedClients' \in Seq(Entry)
        /\ socketToClientId' \in [Socket -> Pc \cup {NoPc}]
        /\ open' \in [Socket -> Conn \cup {NoConn}]
        /\ inbox' \in [Conn -> Seq(PcInfo \cup Data)]
        /\ failQueued' \in [Request -> Nat]
        /\ clientTaskIds' \in [Pc -> Request \cup {NoRequest}]
    BY <1>14, <2>1, CleanupType DEF handleClientExit
  <2>3. /\ thread' = [Woken(sock[c]) EXCEPT ![c] = "done"]
        /\ UNCHANGED <<peer, agentVars, sock, client, pcInfo, pendingRegistrations,
                       verifying, dbVars, verified, taskHistory>>
    BY <1>14 DEF handleClientExit
  <2>4. /\ thread' \in [Conn -> {"free", "recv", "known", "unknown", "reload",
                                 "closing", "done"}]
        /\ \A d \in Conn : thread'[d] \in {"known", "unknown"} => thread'[d] = thread[d]
        /\ \A d \in Conn : thread[d] = "free" /\ d # c => thread'[d] = "free"
    BY <2>3, WokenType
  <2>5. sock[c] # NoSocket
    BY <2>1, NoneAssumption
  <2> QED  BY <2>2, <2>3, <2>4, <2>5 DEF TypeOK
<1>15. ASSUME NEW p \in Pc, NEW approved \in BOOLEAN, onOwnerVerificationResult(p, approved)
       PROVE  TypeOK'
  <2> DEFINE s == pendingRegistrations[p]
  <2>1. /\ verifying' \in [Pc -> Nat]
        /\ verified' \in SUBSET Pc
        /\ pendingRegistrations' \in [Pc -> Socket \cup {NoSocket}]
    BY <1>15 DEF onOwnerVerificationResult, TypeOK
  <2>2. UNCHANGED <<peer, agentConn, agentTasks, sock, client, pcInfo, forensicRows,
                    taskHistory>>
    BY <1>15 DEF onOwnerVerificationResult
  <2>3. s \in Socket \cup {NoSocket}
    BY DEF TypeOK
  <2>4. CASE UNCHANGED <<open, inbox, agentState, thread, registryVars,
                         clientTaskIds, failQueued, dbClients>>
    BY <2>1, <2>2, <2>4 DEF TypeOK
  <2>5. CASE /\ s # NoSocket
             /\ dbClients' = dbClients \cup {p}
             /\ updateConnectedClientsList(s, p)
             /\ sendPCInfoResponse(s, "ready")
             /\ UNCHANGED <<open, inbox, thread, clientTaskIds, failQueued>>
    <3>1. agentState' \in [Pc -> {"off", "connected", "registering", "owner",
                                  "verifying", "ready", "error"}]
      BY <2>3, <2>5, ResponseType
    <3>2. /\ connectedClients' \in Seq(Entry)
          /\ socketToClientId' \in [Socket -> Pc \cup {NoPc}]
      BY <2>3, <2>5, UpdateType
    <3> QED  BY <2>1, <2>2, <2>5, <3>1, <3>2 DEF TypeOK
  <2>6. CASE /\ s # NoSocket
             /\ sendPCInfoResponse(s, "error")
             /\ cleanupClient(s)
             /\ thread' = Woken(s)
             /\ UNCHANGED dbClients
    <3>1. agentState' \in [Pc -> {"off", "connected", "registering", "owner",
                                  "verifying", "ready", "error"}]
      BY <2>3, <2>6, ResponseType
    <3>2. /\ connectedClients' \in Seq(Entry)
          /\ socketToClientId' \in [Socket -> Pc \cup {NoPc}]
          /\ open' \in [Socket -> Conn \cup {NoConn}]
          /\ inbox' \in [Conn -> Seq(PcInfo \cup Data)]
          /\ failQueued' \in [Request -> Nat]
          /\ clientTaskIds' \in [Pc -> Request \cup {NoRequest}]
      BY <2>3, <2>6, CleanupType
    <3>3. thread' = Woken(s) /\ UNCHANGED dbClients
      BY <2>6
    <3> QED  BY <2>1, <2>2, <3>1, <3>2, <3>3, WokenType DEF TypeOK
  <2> QED  BY <1>15, <2>4, <2>5, <2>6 DEF onOwnerVerificationResult
<1>16. ASSUME NEW p \in Pc, NEW r \in Request, NEW sent \in BOOLEAN, sendTaskToClient(p, r, sent)
       PROVE  TypeOK'
  <2>1. /\ clientTaskIds' \in [Pc -> Request \cup {NoRequest}]
        /\ agentTasks' \in [Pc -> SUBSET Task]
    <3>1. PICK i \in DOMAIN connectedClients :
             LET k == open[connectedClients[i].socket]
             IN  /\ clientTaskIds' = [clientTaskIds EXCEPT ![p] = IF sent THEN r ELSE NoRequest]
                 /\ agentTasks' = IF Live(k)
                                  THEN [agentTasks EXCEPT ![peer[k]] = @ \cup {TaskOf[r]}]
                                  ELSE agentTasks
      BY <1>16 DEF sendTaskToClient
    <3>2. clientTaskIds' \in [Pc -> Request \cup {NoRequest}]
      BY <3>1 DEF TypeOK
    <3>3. agentTasks' \in [Pc -> SUBSET Task]
      <4>1. TaskOf[r] \in Task /\ agentTasks \in [Pc -> SUBSET Task]
        BY TaskOfAssumption DEF TypeOK
      <4> QED  BY <3>1, <4>1
    <3> QED  BY <3>2, <3>3
  <2>2. sentTo' \in [Request -> Pc \cup {NoPc}] /\ superseded' \in SUBSET Request
    BY <1>16 DEF sendTaskToClient, TypeOK
  <2> QED  BY <1>16, <2>1, <2>2 DEF sendTaskToClient, TypeOK
<1>17. ASSUME NEW r \in Request, notifyTaskFailureForMissingModules(r) PROVE TypeOK'
  BY <1>17 DEF notifyTaskFailureForMissingModules, TypeOK
<1> QED  BY <1>1, <1>2, <1>3, <1>4, <1>5, <1>6, <1>7, <1>8, <1>9, <1>10, <1>11, <1>12,
            <1>13, <1>14, <1>15, <1>16, <1>17 DEF Next, AgentStep, ThreadStep, MainStep
-----------------------------------------------------------------------------
(***************************************************************************)
(* One entry per PC, and only of verified PCs                              *)
(***************************************************************************)

\* The list changes only when a PC of the database is connected or when a
\* handle is forgotten.
LEMMA ListChanges ==
    ASSUME RegistryInv, [Next]_vars
    PROVE  /\ dbClients \subseteq dbClients'
           /\ \/ UNCHANGED connectedClients
              \/ \E s \in Socket, p \in Pc :
                    p \in dbClients' /\ updateConnectedClientsList(s, p)
              \/ \E s \in Socket : RemoveEntryOfSocket(s)
<1> TypeOK /\ KnownIsRegistered
  BY DEF RegistryInv
<1> DEFINE Goal == /\ dbClients \subseteq dbClients'
                   /\ \/ UNCHANGED connectedClients
                      \/ \E s \in Socket, p \in Pc :
                            p \in dbClients' /\ updateConnectedClientsList(s, p)
                      \/ \E s \in Socket : RemoveEntryOfSocket(s)
<1> USE DEF registryVars, dbVars
<1>1. CASE UNCHANGED vars
  BY <1>1 DEF vars
<1>2. ASSUME NEW p \in Pc, AgentStep(p) PROVE Goal
  BY <1>2 DEF AgentStep, AgentStartRegistration, AgentSubmitOwnerID, AgentDisconnects,
              AgentSendForensicData
<1>3. ASSUME NEW c \in Conn, NEW s \in Socket, NEW p \in Pc, acceptClients(c, s, p)
      PROVE  Goal
  BY <1>3 DEF acceptClients
<1>4. ASSUME NEW c \in Conn, handlePCInfoKnown(c) PROVE Goal
  <2>1. sock[c] \in Socket /\ pcInfo[c] \in Pc /\ pcInfo[c] \in dbClients
    BY <1>4 DEF handlePCInfoKnown, TypeOK, KnownIsRegistered
  <2>2. UNCHANGED dbClients /\ updateConnectedClientsList(sock[c], pcInfo[c])
    BY <1>4 DEF handlePCInfoKnown
  <2> QED  BY <2>1, <2>2
<1>5. ASSUME NEW c \in Conn, handleClientExit(c) PROVE Goal
  <2>1. sock[c] \in Socket
    BY <1>5 DEF handleClientExit, TypeOK
  <2> QED  BY <1>5, <2>1 DEF handleClientExit, cleanupClient
<1>6. ASSUME NEW c \in Conn,
             \/ handlePCInfoLookup(c)
             \/ handlePCInfoUnknown(c)
             \/ handleClientReload(c)
             \/ handleOwnerId(c)
             \/ processForensicData(c)
             \/ handleClientDisconnect(c)
      PROVE  Goal
  BY <1>6 DEF handlePCInfoLookup, handlePCInfoUnknown, handleClientReload, handleOwnerId,
              processForensicData, handleClientDisconnect
<1>7. ASSUME NEW p \in Pc, NEW approved \in BOOLEAN, onOwnerVerificationResult(p, approved)
      PROVE  Goal
  <2> DEFINE s == pendingRegistrations[p]
  <2>1. s \in Socket \cup {NoSocket}
    BY DEF TypeOK
  <2>2. \/ UNCHANGED <<connectedClients, dbClients>>
        \/ /\ s # NoSocket
           /\ dbClients' = dbClients \cup {p}
           /\ updateConnectedClientsList(s, p)
        \/ s # NoSocket /\ UNCHANGED dbClients /\ RemoveEntryOfSocket(s)
    BY <1>7 DEF onOwnerVerificationResult, cleanupClient
  <2> QED  BY <2>1, <2>2
<1>8. ASSUME NEW p \in Pc, NEW r \in Request, NEW sent \in BOOLEAN, sendTaskToClient(p, r, sent)
      PROVE  Goal
  BY <1>8 DEF sendTaskToClient
<1>9. ASSUME NEW r \in Request, notifyTaskFailureForMissingModules(r) PROVE Goal
  BY <1>9 DEF notifyTaskFailureForMissingModules
<1> QED  BY <1>1, <1>2, <1>3, <1>4, <1>5, <1>6, <1>7, <1>8, <1>9
         DEF Next, ThreadStep, MainStep

\* No step puts a second entry of a PC onto the list.
LEMMA OneEntryStep == RegistryInv /\ [Next]_vars => OneEntryPerPc'
<1> SUFFICES ASSUME RegistryInv, [Next]_vars PROVE OneEntryPerPc'
  OBVIOUS
<1>1. connectedClients \in Seq(Entry) /\ OneEntryPerPc
  BY DEF RegistryInv, TypeOK
<1>2. CASE UNCHANGED connectedClients
  BY <1>1, <1>2 DEF OneEntryPerPc
<1>3. ASSUME NEW s \in Socket, NEW p \in Pc, updateConnectedClientsList(s, p)
      PROVE  OneEntryPerPc'
  BY <1>1, <1>3, UpdateKeepsOneEntry
<1>4. ASSUME NEW s \in Socket, RemoveEntryOfSocket(s) PROVE OneEntryPerPc'
  BY <1>1, <1>4, RemoveKeepsOneEntry
<1> QED  BY <1>2, <1>3, <1>4, ListChanges

\* A PC in the database was verified: rows come with an approval.
LEMMA DatabaseStep ==
    RegistryInv /\ [Next]_vars => dbClients' \subseteq verified' /\ verified \subseteq verified'
<1> SUFFICES ASSUME RegistryInv, [Next]_vars
             PROVE  dbClients' \subseteq verified' /\ verified \subseteq verified'
  OBVIOUS
<1>1. dbClients \subseteq verified
  BY DEF RegistryInv, OnlyVerifiedAdmitted
<1>2. ASSUME NEW p \in Pc, NEW approved \in BOOLEAN, onOwnerVerificationResult(p, approved)
      PROVE  dbClients' \subseteq verified' /\ verified \subseteq verified'
  BY <1>1, <1>2 DEF onOwnerVerificationResult
<1>3. ASSUME NEW p \in Pc, AgentStep(p) PROVE UNCHANGED <<dbClients, verified>>
  BY <1>3 DEF AgentStep, AgentStartRegistration, AgentSubmitOwnerID, AgentDisconnects,
              AgentSendForensicData, dbVars
<1>4. ASSUME NEW c \in Conn, ThreadStep(c) PROVE UNCHANGED <<dbClients, verified>>
  BY <1>4 DEF ThreadStep, handlePCInfoLookup, handlePCInfoKnown, handlePCInfoUnknown,
              handleClientReload, handleOwnerId, processForensicData,
              handleClientDisconnect, handleClientExit, dbVars
<1>5. ASSUME \/ UNCHANGED vars
             \/ \E c \in Conn, s \in Socket, p \in Pc : acceptClients(c, s, p)
             \/ \E p \in Pc, r \in Request, sent \in BOOLEAN : sendTaskToClient(p, r, sent)
             \/ \E r \in Request : notifyTaskFailureForMissingModules(r)
      PROVE  UNCHANGED <<dbClients, verified>>
  BY <1>5 DEF vars, acceptClients, sendTaskToClient, notifyTaskFailureForMissingModules,
              dbVars
<1> QED  BY <1>1, <1>2, <1>3, <1>4, <1>5 DEF Next, MainStep

\* Only a PC that is on the list is sent a task.
LEMMA SentStep ==
    RegistryInv /\ [Next]_vars => \A r \in Request : sentTo'[r] # NoPc => sentTo'[r] \in dbClients
<1> SUFFICES ASSUME RegistryInv, [Next]_vars
             PROVE  \A r \in Request : sentTo'[r] # NoPc => sentTo'[r] \in dbClients
  OBVIOUS
<1> TypeOK /\ OnlyVerifiedAdmitted
  BY DEF RegistryInv
<1>1. ASSUME NEW p \in Pc, NEW u \in Request, NEW sent \in BOOLEAN, sendTaskToClient(p, u, sent)
      PROVE  \A r \in Request : sentTo'[r] # NoPc => sentTo'[r] \in dbClients
  <2>1. p \in dbClients
    BY <1>1 DEF sendTaskToClient, OnlyVerifiedAdmitted
  <2>2. sentTo' = IF sent THEN [sentTo EXCEPT ![u] = p] ELSE sentTo
    BY <1>1 DEF sendTaskToClient
  <2> QED  BY <2>1, <2>2 DEF TypeOK, OnlyVerifiedAdmitted
<1> USE DEF taskHistory
<1>2. ASSUME NEW p \in Pc, AgentStep(p) PROVE UNCHANGED sentTo
  BY <1>2 DEF AgentStep, AgentStartRegistration, AgentSubmitOwnerID, AgentDisconnects,
              AgentSendForensicData
<1>3. ASSUME NEW c \in Conn, ThreadStep(c) PROVE UNCHANGED sentTo
  BY <1>3 DEF ThreadStep, handlePCInfoLookup, handlePCInfoKnown, handlePCInfoUnknown,
              handleClientReload, handleOwnerId, processForensicData,
              handleClientDisconnect, handleClientExit
<1>4. ASSUME \/ UNCHANGED vars
             \/ \E c \in Conn, s \in Socket, p \in Pc : acceptClients(c, s, p)
             \/ \E p \in Pc, approved \in BOOLEAN : onOwnerVerificationResult(p, approved)
             \/ \E r \in Request : notifyTaskFailureForMissingModules(r)
      PROVE  UNCHANGED sentTo
  BY <1>4 DEF vars, acceptClients, onOwnerVerificationResult,
              notifyTaskFailureForMissingModules
<1> QED  BY <1>1, <1>2, <1>3, <1>4 DEF Next, MainStep, OnlyVerifiedAdmitted

\* A thread that found its PC in the database still finds it there.
LEMMA KnownStep == RegistryInv /\ [Next]_vars => KnownIsRegistered'
<1> SUFFICES ASSUME RegistryInv, [Next]_vars PROVE KnownIsRegistered'
  OBVIOUS
<1> TypeOK /\ KnownIsRegistered
  BY DEF RegistryInv
<1>1. dbClients \subseteq dbClients'
  BY ListChanges
<1>2. ASSUME NEW c \in Conn, handlePCInfoLookup(c) PROVE KnownIsRegistered'
  <2>1. PICK p \in Pc : /\ pcInfo' = [pcInfo EXCEPT ![c] = p]
                        /\ \/ p \in dbClients /\ thread' = [thread EXCEPT ![c] = "known"]
                           \/ thread' = [thread EXCEPT ![c] = "unknown"]
    BY <1>2 DEF handlePCInfoLookup, PcInfo
  <2> QED  BY <1>1, <2>1 DEF TypeOK, KnownIsRegistered
<1> USE DEF threadVars
<1>3. ASSUME \/ UNCHANGED vars
             \/ \E p \in Pc : AgentStep(p)
             \/ \E c \in Conn, s \in Socket, p \in Pc : acceptClients(c, s, p)
             \/ \E c \in Conn : \/ handlePCInfoKnown(c)
                                \/ handlePCInfoUnknown(c)
                                \/ handleClientReload(c)
                                \/ handleOwnerId(c)
                                \/ processForensicData(c)
                                \/ handleClientDisconnect(c)
                                \/ handleClientExit(c)
             \/ MainStep
      PROVE  /\ UNCHANGED pcInfo
             /\ \A c \in Conn : thread'[c] = "known" => thread[c] = "known"
  <2>1. CASE UNCHANGED vars \/ \E p \in Pc : AgentStep(p)
    BY <2>1 DEF vars, AgentStep, AgentStartRegistration, AgentSubmitOwnerID,
                AgentDisconnects, AgentSendForensicData
  <2>2. ASSUME NEW c \in Conn, NEW s \in Socket, NEW p \in Pc, acceptClients(c, s, p)
        PROVE  /\ UNCHANGED pcInfo
               /\ \A d \in Conn : thread'[d] = "known" => thread[d] = "known"
    BY <2>2 DEF acceptClients, TypeOK
  <2>3. ASSUME NEW c \in Conn,
               \/ handlePCInfoKnown(c)
               \/ handlePCInfoUnknown(c)
               \/ handleClientReload(c)
               \/ handleOwnerId(c)
               \/ processForensicData(c)
               \/ handleClientDisconnect(c)
        PROVE  /\ UNCHANGED pcInfo
               /\ \A d \in Conn : thread'[d] = "known" => thread[d] = "known"
    BY <2>3 DEF handlePCInfoKnown, handlePCInfoUnknown, handleClientReload, handleOwnerId,
                processForensicData, handleClientDisconnect, TypeOK
  <2>4. ASSUME NEW c \in Conn, handleClientExit(c)
        PROVE  /\ UNCHANGED pcInfo
               /\ \A d \in Conn : thread'[d] = "known" => thread[d] = "known"
    BY <2>4, WokenType DEF handleClientExit
  <2>5. ASSUME MainStep
        PROVE  /\ UNCHANGED pcInfo
               /\ \A d \in Conn : thread'[d] = "known" => thread[d] = "known"
    <3>1. UNCHANGED pcInfo
      BY <2>5 DEF MainStep, onOwnerVerificationResult, sendTaskToClient,
                  notifyTaskFailureForMissingModules
    <3>2. thread' = thread \/ \E s \in Socket \cup {NoSocket} : thread' = Woken(s)
      BY <2>5 DEF MainStep, onOwnerVerificationResult, sendTaskToClient,
                  notifyTaskFailureForMissingModules, TypeOK
    <3> QED  BY <3>1, <3>2, WokenType
  <2> QED  BY <1>3, <2>1, <2>2, <2>3, <2>4, <2>5
<1>4. ASSUME /\ UNCHANGED pcInfo
             /\ \A c \in Conn : thread'[c] = "known" => thread[c] = "known"
      PROVE  KnownIsRegistered'
  BY <1>1, <1>4 DEF KnownIsRegistered
<1> QED  BY <1>2, <1>3, <1>4 DEF Next, ThreadStep

\* The list names PCs of the database.
LEMMA AdmittedStep == RegistryInv /\ [Next]_vars => OnlyVerifiedAdmitted'
<1> SUFFICES ASSUME RegistryInv, [Next]_vars PROVE OnlyVerifiedAdmitted'
  OBVIOUS
<1>1. connectedClients \in Seq(Entry) /\ OneEntryPerPc /\ OnlyVerifiedAdmitted
  BY DEF RegistryInv, TypeOK
<1>2. dbClients \subseteq dbClients'
  BY ListChanges
<1>3. \A i \in DOMAIN connectedClients' : connectedClients'[i].pcId \in dbClients'
  <2>1. CASE UNCHANGED connectedClients
    BY <1>1, <1>2, <2>1 DEF OnlyVerifiedAdmitted
  <2>2. ASSUME NEW s \in Socket, NEW p \in Pc, p \in dbClients',
               updateConnectedClientsList(s, p)
        PROVE  \A i \in DOMAIN connectedClients' : connectedClients'[i].pcId \in dbClients'
    BY <1>1, <1>2, <2>2, UpdateKeepsOneEntry DEF OnlyVerifiedAdmitted
  <2>3. ASSUME NEW s \in Socket, RemoveEntryOfSocket(s)
        PROVE  \A i \in DOMAIN connectedClients' : connectedClients'[i].pcId \in dbClients'
    BY <1>1, <1>2, <2>3, RemoveKeepsOneEntry DEF OnlyVerifiedAdmitted
  <2> QED  BY <2>1, <2>2, <2>3, ListChanges
<1> QED  BY <1>2, <1>3, DatabaseStep, SentStep DEF OnlyVerifiedAdmitted

\* The invariant holds in every reachable state.
THEOREM RegistryInvariant == Spec => []RegistryInv
<1>1. RegistryInv /\ [Next]_vars => RegistryInv'
  BY TypeStep, OneEntryStep, AdmittedStep, KnownStep DEF RegistryInv
<1> QED  BY InitInv, <1>1, PTL DEF Spec

\* Every variable keeps its type, and a thread that handles messages always
\* has a handle and a PC to handle them for.
THEOREM TypeCorrect == Spec => []TypeOK
<1>1. RegistryInv => TypeOK
  BY DEF RegistryInv
<1> QED  BY RegistryInvariant, <1>1, PTL

\* However registrations, reconnections, cleanups and late answers of the
\* backend interleave, connectedClients_ names a PC at most once.
THEOREM OneEntry == Spec => []OneEntryPerPc
<1>1. RegistryInv => OneEntryPerPc
  BY DEF RegistryInv
<1> QED  BY RegistryInvariant, <1>1, PTL

\* No PC is listed, stored or given a task without an approval of its owner.
THEOREM OnlyVerified == Spec => []OnlyVerifiedAdmitted
<1>1. RegistryInv => OnlyVerifiedAdmitted
  BY DEF RegistryInv
<1> QED  BY RegistryInvariant, <1>1, PTL
-----------------------------------------------------------------------------
(***************************************************************************)
(* Tasks: none is forgotten and none fails twice                           *)
(***************************************************************************)

\* A PC's current request was accepted for it, and nobody has failed it yet; a
\* request that was never accepted has not failed either.
CurrentTasksRun ==
    \A r \in Request :
        /\ \A p \in Pc : clientTaskIds[p] = r => sentTo[r] = p
        /\ (sentTo[r] = NoPc \/ \E p \in Pc : clientTaskIds[p] = r)
              => failQueued[r] + failReported[r] = 0

TaskInv == CurrentTasksRun /\ FailedAtMostOnce /\ NoTaskForgotten

\* What is stored stays stored, so no module of a task goes missing again.
LEMMA StoredStaysStored ==
    ASSUME forensicRows \subseteq forensicRows', NEW r \in Request,
           getMissingModulesForTask(TaskOf[r]) = {}
    PROVE  getMissingModulesForTask(TaskOf[r])' = {}
BY DEF getMissingModulesForTask

\* A step that leaves the tasks alone keeps their invariant.
LEMMA TasksLeftAlone ==
    ASSUME TaskInv, forensicRows \subseteq forensicRows',
           UNCHANGED <<clientTaskIds, failQueued, sentTo, superseded, failReported>>
    PROVE  TaskInv'
<1>1. CurrentTasksRun' /\ FailedAtMostOnce'
  BY DEF TaskInv, CurrentTasksRun, FailedAtMostOnce
<1>2. NoTaskForgotten'
  BY StoredStaysStored DEF TaskInv, NoTaskForgotten
<1> QED  BY <1>1, <1>2 DEF TaskInv

\* Cleaning up after a handle takes the current task of its PC away and, if
\* modules are missing, posts one failure for it.
LEMMA CleanupKeepsTasks ==
    ASSUME TypeOK, TaskInv, NEW s \in Socket, cleanupClient(s),
           UNCHANGED <<forensicRows, sentTo, superseded, failReported>>
    PROVE  TaskInv'
<1> DEFINE id == socketToClientId[s]
           cur == CurrentRequest(id)
           fails == cur # NoRequest /\ failQueued' = [failQueued EXCEPT ![cur] = @ + 1]
<1>1. /\ id \in Pc \cup {NoPc}
      /\ cur \in Request \cup {NoRequest}
      /\ failQueued \in [Request -> Nat] /\ failReported \in [Request -> Nat]
      /\ clientTaskIds \in [Pc -> Request \cup {NoRequest}]
      /\ sentTo \in [Request -> Pc \cup {NoPc}]
  BY DEF TypeOK, CurrentRequest
<1>2. /\ failQueued' = IF fails THEN [failQueued EXCEPT ![cur] = @ + 1] ELSE failQueued
      /\ clientTaskIds' = IF id = NoPc THEN clientTaskIds
                          ELSE [clientTaskIds EXCEPT ![id] = NoRequest]
      /\ ~fails /\ cur # NoRequest => getMissingModulesForTask(TaskOf[cur]) = {}
  BY DEF cleanupClient, FailCurrentTask, PostFailure, CurrentRequest
<1>3. \A r \in Request : getMissingModulesForTask(TaskOf[r])' = getMissingModulesForTask(TaskOf[r])
  BY DEF getMissingModulesForTask
<1> HIDE DEF fails
<1>4. cur # NoRequest => id \in Pc /\ clientTaskIds[id] = cur /\ sentTo[cur] = id
                      /\ failQueued[cur] + failReported[cur] = 0
  BY <1>1 DEF TaskInv, CurrentTasksRun, CurrentRequest
<1>5. \A p \in Pc, r \in Request : clientTaskIds'[p] = r => clientTaskIds[p] = r /\ r # cur
  BY <1>1, <1>2, <1>4, NoneAssumption DEF TaskInv, CurrentTasksRun
<1>6. \A r \in Request : failQueued'[r] = IF fails /\ r = cur THEN failQueued[r] + 1
                                                         ELSE failQueued[r]
  BY <1>1, <1>2
<1>7. fails => cur \in Request /\ cur # NoRequest /\ sentTo[cur] # NoPc
  BY <1>1, <1>4, NoneAssumption DEF fails
<1>8. CurrentTasksRun'
  BY <1>1, <1>5, <1>6, <1>7 DEF TaskInv, CurrentTasksRun
<1>9. FailedAtMostOnce'
  BY <1>1, <1>4, <1>6, <1>7 DEF TaskInv, FailedAtMostOnce
<1>10. ASSUME NEW r \in Request, sentTo[r] # NoPc
       PROVE  \/ clientTaskIds'[sentTo[r]] = r
              \/ getMissingModulesForTask(TaskOf[r]) = {}
              \/ failQueued'[r] + failReported[r] > 0
              \/ r \in superseded
  <2>1. CASE clientTaskIds[sentTo[r]] = r
    <3>1. CASE sentTo[r] # id
      BY <2>1, <3>1, <1>1, <1>2
    <3>2. CASE sentTo[r] = id
      <4>1. r = cur /\ r # NoRequest
        BY <2>1, <3>2, <1>10, NoneAssumption DEF CurrentRequest
      <4>2. CASE fails
        BY <4>1, <4>2, <1>1, <1>6
      <4>3. CASE ~fails
        BY <4>1, <4>3, <1>2
      <4> QED  BY <4>2, <4>3
    <3> QED  BY <3>1, <3>2
  <2>2. CASE failQueued[r] + failReported[r] > 0
    BY <2>2, <1>1, <1>6
  <2> QED  BY <2>1, <2>2, <1>10 DEF TaskInv, NoTaskForgotten
<1>11. NoTaskForgotten'
  BY <1>3, <1>10 DEF NoTaskForgotten
<1> QED  BY <1>8, <1>9, <1>11 DEF TaskInv

\* Handing out a task makes it its PC's current one and marks the one it
\* replaces.
LEMMA SendKeepsTasks ==
    ASSUME TypeOK, TaskInv, NEW p \in Pc, NEW u \in Request, NEW sent \in BOOLEAN,
           sendTaskToClient(p, u, sent)
    PROVE  TaskInv'
<1>1. /\ failQueued \in [Request -> Nat] /\ failReported \in [Request -> Nat]
      /\ clientTaskIds \in [Pc -> Request \cup {NoRequest}]
      /\ sentTo \in [Request -> Pc \cup {NoPc}]
  BY DEF TypeOK
<1>2. /\ sentTo[u] = NoPc
      /\ clientTaskIds' = [clientTaskIds EXCEPT ![p] = IF sent THEN u ELSE NoRequest]
      /\ sentTo' = IF sent THEN [sentTo EXCEPT ![u] = p] ELSE sentTo
      /\ superseded' = IF clientTaskIds[p] = NoRequest THEN superseded
                       ELSE superseded \cup {clientTaskIds[p]}
      /\ UNCHANGED <<failQueued, failReported, forensicRows>>
  BY DEF sendTaskToClient, dbVars
<1>3. \A r \in Request : getMissingModulesForTask(TaskOf[r])' = getMissingModulesForTask(TaskOf[r])
  BY <1>2 DEF getMissingModulesForTask
<1>4. \A r \in Request : sentTo'[r] = IF sent /\ r = u THEN p ELSE sentTo[r]
  BY <1>1, <1>2
<1>5. \A q \in Pc : clientTaskIds'[q] = IF q = p THEN (IF sent THEN u ELSE NoRequest)
                                               ELSE clientTaskIds[q]
  BY <1>1, <1>2
<1>6. CurrentTasksRun'
  BY <1>1, <1>2, <1>4, <1>5, NoneAssumption DEF TaskInv, CurrentTasksRun
<1>7. FailedAtMostOnce'
  BY <1>2 DEF TaskInv, FailedAtMostOnce
<1>8. ASSUME NEW r \in Request, sentTo'[r] # NoPc
      PROVE  \/ clientTaskIds'[sentTo'[r]] = r
             \/ getMissingModulesForTask(TaskOf[r]) = {}
             \/ failQueued[r] + failReported[r] > 0
             \/ r \in superseded'
  <2>1. CASE sent /\ r = u
    BY <2>1, <1>4, <1>5
  <2>2. CASE ~(sent /\ r = u)
    <3>1. sentTo'[r] = sentTo[r] /\ sentTo[r] \in Pc
      BY <2>2, <1>1, <1>4, <1>8
    <3>2. CASE clientTaskIds[sentTo[r]] = r
      <4>1. CASE sentTo[r] = p
        <5>1. clientTaskIds[p] = r /\ r # NoRequest
          BY <3>2, <4>1, NoneAssumption
        <5>2. r \in superseded'
          BY <5>1, <1>2
        <5> QED  BY <5>2
      <4>2. CASE sentTo[r] # p
        BY <3>1, <3>2, <4>2, <1>5
      <4> QED  BY <4>1, <4>2
    <3>3. \/ clientTaskIds[sentTo[r]] = r
          \/ getMissingModulesForTask(TaskOf[r]) = {}
          \/ failQueued[r] + failReported[r] > 0
          \/ r \in superseded
      BY <3>1, <1>8 DEF TaskInv, NoTaskForgotten
    <3>4. superseded \subseteq superseded'
      BY <1>2
    <3> QED  BY <3>2, <3>3, <3>4
  <2> QED  BY <2>1, <2>2
<1>9. NoTaskForgotten'
  BY <1>2, <1>3, <1>8 DEF NoTaskForgotten
<1> QED  BY <1>6, <1>7, <1>9 DEF TaskInv

\* Every step keeps the invariant of the tasks.
LEMMA TaskStep == RegistryInv /\ TaskInv /\ [Next]_vars => TaskInv'
<1> SUFFICES ASSUME RegistryInv, TaskInv, [Next]_vars PROVE TaskInv'
  OBVIOUS
<1> TypeOK
  BY DEF RegistryInv
<1> DEFINE Frame == /\ forensicRows \subseteq forensicRows'
                    /\ UNCHANGED <<clientTaskIds, failQueued, sentTo, superseded,
                                   failReported>>
<1> USE DEF taskHistory, dbVars
<1>1. CASE UNCHANGED vars
  <2>1. Frame
    BY <1>1 DEF vars
  <2> QED  BY <2>1, TasksLeftAlone
<1>2. ASSUME NEW p \in Pc, AgentStep(p) PROVE TaskInv'
  <2>1. Frame
    BY <1>2 DEF AgentStep, AgentStartRegistration, AgentSubmitOwnerID, AgentDisconnects,
                AgentSendForensicData
  <2> QED  BY <2>1, TasksLeftAlone
<1>3. ASSUME NEW c \in Conn, NEW s \in Socket, NEW p \in Pc, acceptClients(c, s, p)
      PROVE  TaskInv'
  <2>1. Frame
    BY <1>3 DEF acceptClients
  <2> QED  BY <2>1, TasksLeftAlone
<1>4. ASSUME NEW c \in Conn,
             \/ handlePCInfoLookup(c)
             \/ handlePCInfoKnown(c)
             \/ handlePCInfoUnknown(c)
             \/ handleClientReload(c)
             \/ handleOwnerId(c)
             \/ processForensicData(c)
             \/ handleClientDisconnect(c)
      PROVE  TaskInv'
  <2>1. Frame
    BY <1>4 DEF handlePCInfoLookup, handlePCInfoKnown, handlePCInfoUnknown,
                handleClientReload, handleOwnerId, processForensicData,
                handleClientDisconnect
  <2> QED  BY <2>1, TasksLeftAlone
<1>5. ASSUME NEW c \in Conn, handleClientExit(c) PROVE TaskInv'
  <2>1. sock[c] \in Socket
    BY <1>5 DEF handleClientExit, TypeOK
  <2> QED  BY <1>5, <2>1, CleanupKeepsTasks DEF handleClientExit
<1>6. ASSUME NEW p \in Pc, NEW approved \in BOOLEAN, onOwnerVerificationResult(p, approved)
      PROVE  TaskInv'
  <2> DEFINE s == pendingRegistrations[p]
  <2>1. UNCHANGED <<forensicRows, sentTo, superseded, failReported>>
    BY <1>6 DEF onOwnerVerificationResult
  <2>2. CASE UNCHANGED <<clientTaskIds, failQueued>>
    BY <2>1, <2>2, TasksLeftAlone
  <2>3. CASE s # NoSocket /\ cleanupClient(s)
    <3>1. s \in Socket
      BY <2>3 DEF TypeOK
    <3> QED  BY <2>1, <2>3, <3>1, CleanupKeepsTasks
  <2> QED  BY <1>6, <2>2, <2>3 DEF onOwnerVerificationResult
<1>7. ASSUME NEW p \in Pc, NEW r \in Request, NEW sent \in BOOLEAN, sendTaskToClient(p, r, sent)
      PROVE  TaskInv'
  BY <1>7, SendKeepsTasks
<1>8. ASSUME NEW u \in Request, notifyTaskFailureForMissingModules(u) PROVE TaskInv'
  <2>1. \A r \in Request : failQueued'[r] + failReported'[r] = failQueued[r] + failReported[r]
    BY <1>8 DEF notifyTaskFailureForMissingModules, TypeOK
  <2>2. UNCHANGED <<clientTaskIds, sentTo, superseded, forensicRows>>
    BY <1>8 DEF notifyTaskFailureForMissingModules
  <2>3. CurrentTasksRun' /\ FailedAtMostOnce'
    BY <2>1, <2>2 DEF TaskInv, CurrentTasksRun, FailedAtMostOnce
  <2>4. NoTaskForgotten'
    BY <2>1, <2>2 DEF TaskInv, NoTaskForgotten, getMissingModulesForTask
  <2> QED  BY <2>3, <2>4 DEF TaskInv
<1> QED  BY <1>1, <1>2, <1>3, <1>4, <1>5, <1>6, <1>7, <1>8 DEF Next, ThreadStep, MainStep

\* The invariant of the tasks holds in every reachable state.
THEOREM TaskInvariant == Spec => []TaskInv
<1>1. Init => TaskInv
  BY NoneAssumption DEF Init, TaskInv, CurrentTasksRun, FailedAtMostOnce, NoTaskForgotten
<1>2. RegistryInv /\ TaskInv /\ [Next]_vars => TaskInv'
  BY TaskStep
<1> QED  BY <1>1, <1>2, RegistryInvariant, PTL DEF Spec

\* A request that was accepted for a PC is its current one, or its task is
\* complete, or it is reported as failed (or the report is posted) or was
\* overwritten.
THEOREM NoneForgotten == Spec => []NoTaskForgotten
<1>1. TaskInv => NoTaskForgotten
  BY DEF TaskInv
<1> QED  BY TaskInvariant, <1>1, PTL

\* Whichever of a PC's connections are cleaned up, and however often its task id
\* is used, a request is failed once.
THEOREM FailedOnce == Spec => []FailedAtMostOnce
<1>1. TaskInv => FailedAtMostOnce
  BY DEF TaskInv
<1> QED  BY TaskInvariant, <1>1, PTL

-----------------------------------------------------------------------------
(***************************************************************************)
(* The contract on requests                                                *)
(***************************************************************************)

\* A request that was replaced had been accepted, and is nobody's current one
\* again.
ReplacedStaysReplaced ==
    \A r \in superseded : sentTo[r] # NoPc /\ \A p \in Pc : clientTaskIds[p] # r

\* What has become of request r when nothing is forgotten: one that neither runs
\* nor failed nor was replaced is complete.
LooseFateOf(r) ==
    IF sentTo[r] = NoPc THEN "new"
    ELSE IF clientTaskIds[sentTo[r]] = r THEN "running"
    ELSE IF failReported[r] > 0 THEN "failed"
    ELSE IF failQueued[r] > 0 THEN "failing"
    ELSE IF r \in superseded THEN "replaced"
    ELSE "complete"

Fates == [r \in Request |-> FateOf(r)]

\* As no accepted request is forgotten, none is lost.
LEMMA NoneLost ==
    ASSUME TypeOK, TypeOK', TaskInv, TaskInv', NEW r \in Request
    PROVE  FateOf(r) = LooseFateOf(r) /\ FateOf(r)' = LooseFateOf(r)'
<1>1. FateOf(r) = LooseFateOf(r)
  <2>1. failQueued[r] \in Nat /\ failReported[r] \in Nat
    BY DEF TypeOK
  <2>2. \/ sentTo[r] = NoPc
        \/ clientTaskIds[sentTo[r]] = r
        \/ getMissingModulesForTask(TaskOf[r]) = {}
        \/ failQueued[r] + failReported[r] > 0
        \/ r \in superseded
    BY DEF TaskInv, NoTaskForgotten
  <2>3. failQueued[r] + failReported[r] > 0 => failQueued[r] > 0 \/ failReported[r] > 0
    BY <2>1
  <2> QED  BY <2>2, <2>3 DEF FateOf, LooseFateOf
<1>2. FateOf(r)' = LooseFateOf(r)'
  <2>1. failQueued'[r] \in Nat /\ failReported'[r] \in Nat
    BY DEF TypeOK
  <2>2. \/ sentTo'[r] = NoPc
        \/ clientTaskIds'[sentTo'[r]] = r
        \/ getMissingModulesForTask(TaskOf[r])' = {}
        \/ failQueued'[r] + failReported'[r] > 0
        \/ r \in superseded'
    BY DEF TaskInv, NoTaskForgotten
  <2>3. failQueued'[r] + failReported'[r] > 0 => failQueued'[r] > 0 \/ failReported'[r] > 0
    BY <2>1
  <2> QED  BY <2>2, <2>3 DEF FateOf, LooseFateOf
<1> QED  BY <1>1, <1>2

\* A step that changes what became of no request is none of the contract's.
LEMMA FatesKept ==
    ASSUME TypeOK, TypeOK', TaskInv, TaskInv',
           UNCHANGED <<clientTaskIds, failQueued, sentTo, superseded, failReported>>
    PROVE  UNCHANGED <<Fates, sentTo>>
<1>1. \A r \in Request : FateOf(r)' = FateOf(r)
  BY NoneLost DEF LooseFateOf
<1> QED  BY <1>1 DEF Fates

\* A cleanup ends at most one request, which was running.
LEMMA CleanupEndsTask ==
    ASSUME TypeOK, TypeOK', TaskInv, TaskInv', ReplacedStaysReplaced,
           NEW s \in Socket, cleanupClient(s),
           UNCHANGED <<forensicRows, sentTo, superseded, failReported>>
    PROVE  \/ UNCHANGED <<Fates, sentTo>>
           \/ \E r \in Request, outcome \in {"complete", "failing"} :
                 Fates[r] = "running" /\ Fates' = [Fates EXCEPT ![r] = outcome]
<1> DEFINE id == socketToClientId[s]
           cur == CurrentRequest(id)
           fails == cur # NoRequest /\ failQueued' = [failQueued EXCEPT ![cur] = @ + 1]
<1>1. /\ id \in Pc \cup {NoPc}
      /\ cur \in Request \cup {NoRequest}
      /\ failQueued \in [Request -> Nat] /\ failReported \in [Request -> Nat]
      /\ clientTaskIds \in [Pc -> Request \cup {NoRequest}]
      /\ sentTo \in [Request -> Pc \cup {NoPc}]
  BY DEF TypeOK, CurrentRequest
<1>2. /\ failQueued' = IF fails THEN [failQueued EXCEPT ![cur] = @ + 1] ELSE failQueued
      /\ clientTaskIds' = IF id = NoPc THEN clientTaskIds
                          ELSE [clientTaskIds EXCEPT ![id] = NoRequest]
  BY DEF cleanupClient, FailCurrentTask, PostFailure, CurrentRequest
<1> HIDE DEF fails
<1>3. cur # NoRequest => id \in Pc /\ clientTaskIds[id] = cur /\ sentTo[cur] = id
                      /\ failQueued[cur] + failReported[cur] = 0
  BY <1>1 DEF TaskInv, CurrentTasksRun, CurrentRequest
<1>4. \A r \in Request \ {cur} : sentTo[r] \in Pc =>
          (clientTaskIds'[sentTo[r]] = r <=> clientTaskIds[sentTo[r]] = r)
  BY <1>1, <1>2, NoneAssumption DEF CurrentRequest
<1>5. \A r \in Request \ {cur} : failQueued'[r] = failQueued[r]
  BY <1>1, <1>2
<1>6. \A r \in Request \ {cur} : LooseFateOf(r)' = LooseFateOf(r)
  BY <1>1, <1>4, <1>5 DEF LooseFateOf
<1>7. CASE cur = NoRequest
  <2>1. \A r \in Request : LooseFateOf(r)' = LooseFateOf(r)
    BY <1>6, <1>7, NoneAssumption
  <2> QED  BY <2>1, NoneLost DEF Fates
<1>8. CASE cur # NoRequest
  <2>1. cur \in Request /\ sentTo[cur] \in Pc /\ cur \notin superseded
    BY <1>1, <1>3, <1>8 DEF ReplacedStaysReplaced
  <2>2. LooseFateOf(cur) = "running"
    BY <1>1, <1>3, <1>8, <2>1, NoneAssumption DEF LooseFateOf
  <2>3. /\ clientTaskIds'[sentTo[cur]] # cur
        /\ failReported[cur] = 0
        /\ failQueued'[cur] = IF fails THEN 1 ELSE 0
    BY <1>1, <1>2, <1>3, <1>8, <2>1, NoneAssumption
  <2>4. PICK r \in Request, outcome \in {"complete", "failing"} :
            r = cur /\ outcome = IF fails THEN "failing" ELSE "complete"
    BY <2>1
  <2>5. /\ sentTo'[r] # NoPc
        /\ clientTaskIds'[sentTo'[r]] # r
        /\ ~(failReported'[r] > 0)
        /\ failQueued'[r] > 0 <=> fails
        /\ r \notin superseded'
    BY <2>1, <2>3, <2>4, NoneAssumption
  <2>6. LooseFateOf(r)' = outcome
    BY <2>4, <2>5 DEF LooseFateOf
  <2>7. Fates' = [Fates EXCEPT ![r] = outcome]
    BY <1>6, <2>4, <2>6, NoneLost DEF Fates
  <2>8. Fates[r] = "running"
    BY <2>2, <2>4, NoneLost DEF Fates
  <2> QED  BY <2>7, <2>8
<1> QED  BY <1>7, <1>8

\* Handing out a task replaces the running one of its PC and no other.
LEMMA SendReplacesTask ==
    ASSUME TypeOK, TypeOK', TaskInv, TaskInv', ReplacedStaysReplaced,
           NEW p \in Pc, NEW u \in Request, NEW sent \in BOOLEAN, sendTaskToClient(p, u, sent)
    PROVE  /\ Fates[u] = "new"
           /\ Fates' = [r \in Request |->
                  IF sent /\ r = u THEN "running"
                  ELSE IF Fates[r] = "running" /\ sentTo[r] = p THEN "replaced" ELSE Fates[r]]
           /\ sentTo' = IF sent THEN [sentTo EXCEPT ![u] = p] ELSE sentTo
<1>1. /\ failQueued \in [Request -> Nat] /\ failReported \in [Request -> Nat]
      /\ clientTaskIds \in [Pc -> Request \cup {NoRequest}]
      /\ sentTo \in [Request -> Pc \cup {NoPc}]
  BY DEF TypeOK
<1>2. /\ sentTo[u] = NoPc
      /\ clientTaskIds' = [clientTaskIds EXCEPT ![p] = IF sent THEN u ELSE NoRequest]
      /\ sentTo' = IF sent THEN [sentTo EXCEPT ![u] = p] ELSE sentTo
      /\ superseded' = IF clientTaskIds[p] = NoRequest THEN superseded
                       ELSE superseded \cup {clientTaskIds[p]}
      /\ UNCHANGED <<failQueued, failReported>>
  BY DEF sendTaskToClient
<1>3. Fates[u] = "new"
  BY <1>2 DEF Fates, FateOf
<1>4. sent => LooseFateOf(u)' = "running"
  <2>1. sent => sentTo'[u] = p /\ clientTaskIds'[p] = u
    BY <1>1, <1>2
  <2> QED  BY <2>1, NoneAssumption DEF LooseFateOf
<1>5. ASSUME NEW r \in Request, ~(sent /\ r = u)
      PROVE  LooseFateOf(r)' = IF LooseFateOf(r) = "running" /\ sentTo[r] = p THEN "replaced"
                          ELSE LooseFateOf(r)
  <2>1. sentTo'[r] = sentTo[r]
    BY <1>1, <1>2, <1>5
  <2>2. CASE sentTo[r] = NoPc
    BY <2>1, <2>2, NoneAssumption DEF LooseFateOf
  <2>3. CASE sentTo[r] # NoPc /\ clientTaskIds[sentTo[r]] = r /\ sentTo[r] = p
    <3>1. r # u /\ r \in superseded' /\ clientTaskIds'[p] # r
      BY <1>1, <1>2, <2>3, NoneAssumption
    <3>2. failQueued'[r] = 0 /\ failReported'[r] = 0
      BY <1>1, <1>2, <2>3 DEF TaskInv, CurrentTasksRun
    <3> QED  BY <2>1, <2>3, <3>1, <3>2 DEF LooseFateOf
  <2>4. CASE sentTo[r] # NoPc /\ clientTaskIds[sentTo[r]] = r /\ sentTo[r] # p
    <3>1. clientTaskIds'[sentTo[r]] = r
      BY <1>1, <1>2, <2>4
    <3> QED  BY <2>1, <2>4, <3>1 DEF LooseFateOf
  <2>5. CASE sentTo[r] # NoPc /\ clientTaskIds[sentTo[r]] # r
    <3>1. r # u /\ clientTaskIds'[sentTo[r]] # r
      BY <1>1, <1>2, <2>5, NoneAssumption
    <3>2. r \in superseded' <=> r \in superseded
      BY <1>1, <1>2, <2>5 DEF TaskInv, CurrentTasksRun
    <3>3. LooseFateOf(r) # "running"
      BY <2>5 DEF LooseFateOf
    <3> QED  BY <1>2, <2>1, <2>5, <3>1, <3>2, <3>3 DEF LooseFateOf
  <2> QED  BY <2>2, <2>3, <2>4, <2>5
<1>6. Fates' = [r \in Request |->
                  IF sent /\ r = u THEN "running"
                  ELSE IF Fates[r] = "running" /\ sentTo[r] = p THEN "replaced" ELSE Fates[r]]
  BY <1>3, <1>4, <1>5, NoneLost DEF Fates
<1> QED  BY <1>2, <1>3, <1>6

\* A replaced request stays replaced.
LEMMA ReplacedStep ==
    ASSUME TypeOK, TaskInv, ReplacedStaysReplaced, [Next]_vars
    PROVE  ReplacedStaysReplaced'
<1> USE DEF taskHistory
<1>1. /\ clientTaskIds \in [Pc -> Request \cup {NoRequest}]
      /\ sentTo \in [Request -> Pc \cup {NoPc}]
      /\ superseded \in SUBSET Request
  BY DEF TypeOK
<1>2. ASSUME UNCHANGED <<sentTo, superseded>>,
             \A p \in Pc : clientTaskIds'[p] \in {clientTaskIds[p], NoRequest}
      PROVE  ReplacedStaysReplaced'
  BY <1>1, <1>2, NoneAssumption DEF ReplacedStaysReplaced
<1>3. ASSUME NEW s \in Socket, cleanupClient(s), UNCHANGED <<sentTo, superseded>>
      PROVE  ReplacedStaysReplaced'
  <2>1. \A p \in Pc : clientTaskIds'[p] \in {clientTaskIds[p], NoRequest}
    BY <1>1, <1>3 DEF cleanupClient, FailCurrentTask
  <2> QED  BY <1>2, <1>3, <2>1
<1>4. CASE UNCHANGED <<clientTaskIds, sentTo, superseded>>
  BY <1>2, <1>4
<1>5. ASSUME NEW c \in Conn, handleClientExit(c) PROVE ReplacedStaysReplaced'
  <2>1. sock[c] \in Socket
    BY <1>5 DEF handleClientExit, TypeOK
  <2> QED  BY <1>3, <1>5, <2>1 DEF handleClientExit
<1>6. ASSUME NEW p \in Pc, NEW approved \in BOOLEAN, onOwnerVerificationResult(p, approved)
      PROVE  ReplacedStaysReplaced'
  <2>1. CASE UNCHANGED clientTaskIds
    BY <1>4, <1>6, <2>1 DEF onOwnerVerificationResult
  <2>2. CASE pendingRegistrations[p] # NoSocket /\ cleanupClient(pendingRegistrations[p])
    <3>1. pendingRegistrations[p] \in Socket
      BY <2>2 DEF TypeOK
    <3> QED  BY <1>3, <1>6, <2>2, <3>1 DEF onOwnerVerificationResult
  <2> QED  BY <1>6, <2>1, <2>2 DEF onOwnerVerificationResult
<1>7. ASSUME NEW p \in Pc, NEW u \in Request, NEW sent \in BOOLEAN, sendTaskToClient(p, u, sent)
      PROVE  ReplacedStaysReplaced'
  <2>1. /\ sentTo[u] = NoPc
        /\ clientTaskIds' = [clientTaskIds EXCEPT ![p] = IF sent THEN u ELSE NoRequest]
        /\ sentTo' = IF sent THEN [sentTo EXCEPT ![u] = p] ELSE sentTo
        /\ superseded' = IF clientTaskIds[p] = NoRequest THEN superseded
                         ELSE superseded \cup {clientTaskIds[p]}
    BY <1>7 DEF sendTaskToClient
  <2>2. \A r \in Request : sentTo[r] # NoPc => sentTo'[r] = sentTo[r]
    BY <1>1, <2>1
  <2>3. \A r \in Request \ {u}, q \in Pc : clientTaskIds[q] # r => clientTaskIds'[q] # r
    BY <1>1, <2>1, NoneAssumption
  <2>4. ASSUME NEW r \in superseded
        PROVE  sentTo'[r] # NoPc /\ \A q \in Pc : clientTaskIds'[q] # r
    BY <1>1, <2>1, <2>2, <2>3 DEF ReplacedStaysReplaced
  <2>5. ASSUME clientTaskIds[p] # NoRequest
        PROVE  /\ sentTo'[clientTaskIds[p]] # NoPc
               /\ \A q \in Pc : clientTaskIds'[q] # clientTaskIds[p]
    <3>1. clientTaskIds[p] \in Request /\ sentTo[clientTaskIds[p]] = p
      BY <1>1, <2>5 DEF TaskInv, CurrentTasksRun
    <3>2. \A q \in Pc \ {p} : clientTaskIds[q] # clientTaskIds[p]
      BY <1>1, <3>1 DEF TaskInv, CurrentTasksRun
    <3>3. clientTaskIds[p] # u /\ clientTaskIds'[p] # clientTaskIds[p]
      BY <1>1, <2>1, <3>1, NoneAssumption
    <3>4. \A q \in Pc \ {p} : clientTaskIds'[q] = clientTaskIds[q]
      BY <1>1, <2>1
    <3> QED  BY <2>2, <3>1, <3>2, <3>3, <3>4, NoneAssumption
  <2> QED  BY <2>1, <2>4, <2>5 DEF ReplacedStaysReplaced
<1>8. CASE UNCHANGED vars
  BY <1>4, <1>8 DEF vars
<1>9. ASSUME NEW p \in Pc, AgentStep(p) PROVE ReplacedStaysReplaced'
  BY <1>4, <1>9 DEF AgentStep, AgentStartRegistration, AgentSubmitOwnerID, AgentDisconnects,
                    AgentSendForensicData
<1>10. ASSUME NEW c \in Conn, NEW s \in Socket, NEW p \in Pc, acceptClients(c, s, p)
       PROVE  ReplacedStaysReplaced'
  BY <1>4, <1>10 DEF acceptClients
<1>11. ASSUME NEW c \in Conn,
              \/ handlePCInfoLookup(c)
              \/ handlePCInfoKnown(c)
              \/ handlePCInfoUnknown(c)
              \/ handleClientReload(c)
              \/ handleOwnerId(c)
              \/ processForensicData(c)
              \/ handleClientDisconnect(c)
       PROVE  ReplacedStaysReplaced'
  BY <1>4, <1>11
     DEF handlePCInfoLookup, handlePCInfoKnown, handlePCInfoUnknown, handleClientReload,
         handleOwnerId, processForensicData, handleClientDisconnect
<1>12. ASSUME NEW r \in Request, notifyTaskFailureForMissingModules(r)
       PROVE  ReplacedStaysReplaced'
  BY <1>4, <1>12 DEF notifyTaskFailureForMissingModules
<1> QED
  BY <1>5, <1>6, <1>7, <1>8, <1>9, <1>10, <1>11, <1>12 DEF Next, ThreadStep, MainStep

\* What became of the requests and whom they went to changes as the contract says.
LEMMA ContractStep ==
    ASSUME TypeOK, TypeOK', TaskInv, TaskInv', ReplacedStaysReplaced, [Next]_vars
    PROVE  [Contract!Next]_<<Fates, sentTo>>
<1> USE DEF taskHistory
<1> DEFINE Kept == UNCHANGED <<Fates, sentTo>>
           Ended == \E r \in Request, outcome \in {"complete", "failing"} :
                       /\ Fates[r] = "running"
                       /\ Fates' = [Fates EXCEPT ![r] = outcome]
                       /\ UNCHANGED sentTo
<1>1. CASE UNCHANGED <<clientTaskIds, failQueued, sentTo, superseded, failReported>>
  BY <1>1, FatesKept
<1>2. CASE Ended
  BY <1>2 DEF Contract!Next, Contract!End, Fates
<1>3. ASSUME NEW c \in Conn, handleClientExit(c)
      PROVE  Kept \/ Ended
  <2>1. sock[c] \in Socket
    BY <1>3 DEF handleClientExit, TypeOK
  <2>2. cleanupClient(sock[c]) /\ UNCHANGED <<forensicRows, sentTo, superseded, failReported>>
    BY <1>3 DEF handleClientExit, dbVars
  <2> QED  BY <2>1, <2>2, CleanupEndsTask
<1>4. ASSUME NEW p \in Pc, NEW approved \in BOOLEAN, onOwnerVerificationResult(p, approved)
      PROVE  Kept \/ Ended
  <2> DEFINE s == pendingRegistrations[p]
  <2>1. UNCHANGED <<forensicRows, sentTo, superseded, failReported>>
    BY <1>4 DEF onOwnerVerificationResult
  <2>2. CASE UNCHANGED <<clientTaskIds, failQueued>>
    BY <2>1, <2>2, FatesKept
  <2>3. CASE s # NoSocket /\ cleanupClient(s)
    <3>1. s \in Socket
      BY <2>3 DEF TypeOK
    <3> QED  BY <2>1, <2>3, <3>1, CleanupEndsTask
  <2> QED  BY <1>4, <2>2, <2>3 DEF onOwnerVerificationResult
<1>5. ASSUME NEW p \in Pc, NEW u \in Request, NEW sent \in BOOLEAN, sendTaskToClient(p, u, sent)
      PROVE  Contract!Next
  <2>1. /\ Fates[u] = "new"
        /\ Fates' = [r \in Request |->
               IF sent /\ r = u THEN "running"
               ELSE IF Fates[r] = "running" /\ sentTo[r] = p THEN "replaced" ELSE Fates[r]]
        /\ sentTo' = IF sent THEN [sentTo EXCEPT ![u] = p] ELSE sentTo
    BY <1>5, SendReplacesTask
  <2>2. CASE sent
    <3>1. Contract!Accept(p, u)
      BY <2>1, <2>2 DEF Contract!Accept, Contract!Replaced, Fates
    <3> QED  BY <3>1 DEF Contract!Next
  <2>3. CASE ~sent
    <3>1. Contract!Displace(p)
      BY <2>1, <2>3 DEF Contract!Displace, Contract!Replaced, Fates
    <3> QED  BY <3>1 DEF Contract!Next
  <2> QED  BY <2>2, <2>3
<1>6. ASSUME NEW u \in Request, notifyTaskFailureForMissingModules(u) PROVE Contract!Next
  <2>1. /\ failQueued[u] > 0
        /\ failQueued' = [failQueued EXCEPT ![u] = @ - 1]
        /\ failReported' = [failReported EXCEPT ![u] = @ + 1]
        /\ UNCHANGED <<clientTaskIds, sentTo, superseded>>
    BY <1>6 DEF notifyTaskFailureForMissingModules
  <2>2. failQueued \in [Request -> Nat] /\ failReported \in [Request -> Nat]
    BY DEF TypeOK
  <2>3. /\ sentTo[u] # NoPc
        /\ clientTaskIds[sentTo[u]] # u
        /\ failQueued[u] = 1 /\ failReported[u] = 0
    <3>1. failQueued[u] + failReported[u] <= 1
      BY DEF TaskInv, FailedAtMostOnce
    <3>2. ~(sentTo[u] = NoPc \/ \E p \in Pc : clientTaskIds[p] = u)
      BY <2>1, <2>2 DEF TaskInv, CurrentTasksRun
    <3>3. sentTo[u] \in Pc
      BY <3>2 DEF TypeOK
    <3> QED  BY <2>1, <2>2, <3>1, <3>2, <3>3
  <2>4. LooseFateOf(u) = "failing" /\ LooseFateOf(u)' = "failed"
    BY <2>1, <2>2, <2>3 DEF LooseFateOf
  <2>5. \A r \in Request \ {u} : LooseFateOf(r)' = LooseFateOf(r)
    BY <2>1, <2>2 DEF LooseFateOf
  <2>6. Contract!Report(u)
    BY <2>1, <2>4, <2>5, NoneLost DEF Contract!Report, Fates
  <2> QED  BY <2>6 DEF Contract!Next
<1>7. CASE UNCHANGED vars
  BY <1>1, <1>7 DEF vars
<1>8. ASSUME NEW p \in Pc, AgentStep(p) PROVE Kept
  BY <1>8, FatesKept
     DEF AgentStep, AgentStartRegistration, AgentSubmitOwnerID, AgentDisconnects,
         AgentSendForensicData
<1>9. ASSUME NEW c \in Conn, NEW s \in Socket, NEW p \in Pc, acceptClients(c, s, p)
      PROVE  Kept
  BY <1>9, FatesKept DEF acceptClients
<1>10. ASSUME NEW c \in Conn,
              \/ handlePCInfoLookup(c)
              \/ handlePCInfoKnown(c)
              \/ handlePCInfoUnknown(c)
              \/ handleClientReload(c)
              \/ handleOwnerId(c)
              \/ processForensicData(c)
              \/ handleClientDisconnect(c)
       PROVE  Kept
  BY <1>10, FatesKept
     DEF handlePCInfoLookup, handlePCInfoKnown, handlePCInfoUnknown, handleClientReload,
         handleOwnerId, processForensicData, handleClientDisconnect
<1> QED
  BY <1>2, <1>3, <1>4, <1>5, <1>6, <1>7, <1>8, <1>9, <1>10 DEF Next, ThreadStep, MainStep

\* The registry keeps the contract on requests: a PC runs one task at a time, and
\* a request that stops running was completed, was replaced by a later one to its
\* PC, or is reported as failed, once, whatever task ids the requests name.
THEOREM Spec_KeepsTaskContract == Spec => KeepsTaskContract
<1>1. Init => Contract!Init
  BY DEF Init, Contract!Init, FateOf
<1>2. Init => ReplacedStaysReplaced
  BY DEF Init, ReplacedStaysReplaced
<1>3. TypeOK /\ TaskInv /\ ReplacedStaysReplaced /\ [Next]_vars => ReplacedStaysReplaced'
  BY ReplacedStep
<1>4. TypeOK /\ TypeOK' /\ TaskInv /\ TaskInv' /\ ReplacedStaysReplaced /\ [Next]_vars
          => [Contract!Next]_<<[r \in Request |-> FateOf(r)], sentTo>>
  BY ContractStep DEF Fates
<1> QED
  BY <1>1, <1>2, <1>3, <1>4, TypeCorrect, TaskInvariant, PTL
     DEF Spec, KeepsTaskContract, Contract!Spec

\* A step of the contract takes back no verdict.
LEMMA ContractFinal ==
    ASSUME [Contract!Next]_<<Fates, sentTo>>, NEW r \in Request
    PROVE  /\ FateOf(r) \in {"complete", "replaced", "failed"} => FateOf(r)' = FateOf(r)
           /\ FateOf(r) = "failing" => FateOf(r)' \in {"failing", "failed"}
<1> DEFINE Final == Fates[r] \in {"complete", "replaced", "failed"} => Fates'[r] = Fates[r]
           Fails == Fates[r] = "failing" => Fates'[r] \in {"failing", "failed"}
<1>1. Fates = [u \in Request |-> FateOf(u)] /\ Fates[r] = FateOf(r) /\ Fates'[r] = FateOf(r)'
  BY DEF Fates
<1>2. ASSUME NEW p \in Pc, NEW u \in Request, Contract!Accept(p, u) PROVE Final /\ Fails
  <2>1. /\ Fates[u] = "new"
        /\ Fates' = [Contract!Replaced(p) EXCEPT ![u] = "running"]
    BY <1>2 DEF Contract!Accept, Fates
  <2>2. CASE r = u
    BY <2>1, <2>2
  <2>3. CASE r # u
    <3>1. Fates'[r] = Contract!Replaced(p)[r]
      BY <2>1, <2>3
    <3>2. Contract!Replaced(p)[r] = IF Fates[r] = "running" /\ sentTo[r] = p THEN "replaced"
                                    ELSE Fates[r]
      BY DEF Contract!Replaced, Fates
    <3> QED  BY <3>1, <3>2
  <2> QED  BY <2>2, <2>3
<1>3. ASSUME NEW p \in Pc, Contract!Displace(p) PROVE Final /\ Fails
  BY <1>3 DEF Contract!Displace, Contract!Replaced, Fates
<1>4. ASSUME NEW u \in Request, NEW outcome \in {"complete", "failing"}, Contract!End(u, outcome)
      PROVE  Final /\ Fails
  BY <1>4 DEF Contract!End, Fates
<1>5. ASSUME NEW u \in Request, Contract!Report(u) PROVE Final /\ Fails
  BY <1>5 DEF Contract!Report, Fates
<1>6. ASSUME UNCHANGED <<Fates, sentTo>> PROVE Final /\ Fails
  BY <1>6
<1>7. Final /\ Fails
  BY <1>2, <1>3, <1>4, <1>5, <1>6 DEF Contract!Next
<1> QED  BY <1>1, <1>7

\* A verdict on a request is final: one that was completed or replaced is never
\* failed afterwards, one that was reported as failed stays so, and a failure
\* that was posted is not taken back but reported, also when a late cleanup, a
\* late answer or another request with its task id comes in between.
VerdictsFinal ==
    [][\A r \in Request :
          /\ FateOf(r) \in {"complete", "replaced", "failed"} => FateOf(r)' = FateOf(r)
          /\ FateOf(r) = "failing" => FateOf(r)' \in {"failing", "failed"}]_vars

\* Verdicts are final; this follows from the contract that the registry keeps.
THEOREM Spec_VerdictsFinal == Spec => VerdictsFinal
<1>1. Init => ReplacedStaysReplaced
  BY DEF Init, ReplacedStaysReplaced
<1>2. TypeOK /\ TaskInv /\ ReplacedStaysReplaced /\ [Next]_vars => ReplacedStaysReplaced'
  BY ReplacedStep
<1>3. TypeOK /\ TypeOK' /\ TaskInv /\ TaskInv' /\ ReplacedStaysReplaced /\ [Next]_vars
          => \A r \in Request :
                /\ FateOf(r) \in {"complete", "replaced", "failed"} => FateOf(r)' = FateOf(r)
                /\ FateOf(r) = "failing" => FateOf(r)' \in {"failing", "failed"}
  <2>1. TypeOK /\ TypeOK' /\ TaskInv /\ TaskInv' /\ ReplacedStaysReplaced /\ [Next]_vars
            => [Contract!Next]_<<Fates, sentTo>>
    BY ContractStep
  <2> QED  BY <2>1, ContractFinal
<1> QED
  BY <1>1, <1>2, <1>3, TypeCorrect, TaskInvariant, PTL DEF Spec, VerdictsFinal

=============================================================================
