------------------------ MODULE BackendApiClientProofs ------------------------
(***************************************************************************)
(* Proofs about BackendApiClient, for every set of requests: a request     *)
(* ends at most once and never loses its timer.                            *)
(***************************************************************************)
EXTENDS BackendApiClient, TLAPS

\* A result has been emitted only for a reply that has finished.
ResultsAreFinal == \A r \in Req : results[r] # 0 => reply[r] = "finished"

\* Only requests of the main thread have a timer that runs.
TimersAreMain == \A r \in activeTimers : issuer[r] = "main"

\* What a client thread is about to add to pendingRequests_ is its own and has
\* not ended: nothing but the destructor, which waits for the thread, ends it.
CreatedIsRunning ==
    \A r \in Req : clientStep[r] = "created" => issuer[r] = "client" /\ reply[r] = "running"

\* The health request is never in pendingRequests_.
HealthIsNotPending == \A r \in pendingRequests : issuer[r] # "health"

IInv ==
    /\ TypeOK
    /\ AnswerOnce
    /\ TimedWhilePending
    /\ ResultsAreFinal
    /\ TimersAreMain
    /\ CreatedIsRunning
    /\ HealthIsNotPending

-----------------------------------------------------------------------------
\* The invariant holds before the first request.
LEMMA InitIInv == Init => IInv
BY DEF Init, IInv, TypeOK, AnswerOnce, TimedWhilePending, ResultsAreFinal,
       TimersAreMain, CreatedIsRunning, HealthIsNotPending

\* Every step of the client keeps the invariant.
LEMMA NextIInv == IInv /\ [Next]_vars => IInv'
<1> SUFFICES ASSUME IInv, [Next]_vars PROVE IInv'
  OBVIOUS
<1> USE DEF IInv, TypeOK, AnswerOnce, TimedWhilePending, ResultsAreFinal, TimersAreMain,
            CreatedIsRunning, HealthIsNotPending
<1>1. ASSUME NEW r \in Req, sendHttpRequest(r) PROVE IInv'
  BY <1>1 DEF sendHttpRequest, CreateReply
<1>2. ASSUME NEW r \in Req, testConnection(r) PROVE IInv'
  BY <1>2 DEF testConnection, CreateReply
<1>3. ASSUME NEW r \in Req, testConnectionFinished(r) PROVE IInv'
  BY <1>3 DEF testConnectionFinished
<1>4. ASSUME NEW r \in Req, NEW success \in BOOLEAN, replyFinished(r, success) PROVE IInv'
  BY <1>4 DEF replyFinished
<1>5. ASSUME NEW r \in Req, requestTimeout(r) PROVE IInv'
  BY <1>5 DEF requestTimeout
<1>6. ASSUME quit PROVE IInv'
  BY <1>6 DEF quit
<1>7. ASSUME destroy PROVE IInv'
  <2>1. CASE UNCHANGED <<reply, pendingRequests, activeTimers>>
    BY <1>7, <2>1 DEF destroy
  <2>2. ASSUME NEW r \in pendingRequests,
               pendingRequests' = pendingRequests \ {r},
               activeTimers' = activeTimers \ {r},
               reply' = [reply EXCEPT ![r] = "finished"],
               mainThread' = "lockedInDestructor"
        PROVE  IInv'
    <3>1. clientStep[r] # "created" /\ results[r] = 0 /\ r \in Req
      BY <1>7 DEF destroy
    <3>2. UNCHANGED <<issuer, clientStep, results>>
      BY <1>7 DEF destroy
    <3> QED  BY <2>2, <3>1, <3>2
  <2> QED  BY <1>7, <2>1, <2>2 DEF destroy
<1>8. ASSUME NEW r \in Req, clientPost(r) PROVE IInv'
  BY <1>8 DEF clientPost, CreateReply, ClientMoves
<1>9. ASSUME NEW r \in Req, addPendingRequest(r) PROVE IInv'
  BY <1>9 DEF addPendingRequest, ClientMoves
<1>10. ASSUME NEW r \in Req, setupRequestTimeout(r) PROVE IInv'
  BY <1>10 DEF setupRequestTimeout, ClientMoves
<1>11. CASE UNCHANGED vars
  BY <1>11 DEF vars
<1>12. QED
  BY <1>1, <1>2, <1>3, <1>4, <1>5, <1>6, <1>7, <1>8, <1>9, <1>10, <1>11
     DEF Next, ClientStep

\* The invariant holds of every reachable state.
THEOREM BackendInvariant == Spec => []IInv
BY InitIInv, NextIInv, PTL DEF Spec

\* A request is answered at most once and never while it is pending.
THEOREM BackendAnswerOnce == Spec => []AnswerOnce
BY BackendInvariant, PTL DEF IInv

\* No request of the main thread loses its timer, and no timer its request.
THEOREM BackendTimed == Spec => []TimedWhilePending
BY BackendInvariant, PTL DEF IInv
=============================================================================
