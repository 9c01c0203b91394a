-------------------------- MODULE BackendApiClient --------------------------
(***************************************************************************)
(* The server's HTTP client for the backend (backendapiclient.cpp): how a  *)
(* request ends.                                                           *)
(*                                                                         *)
(* BackendApiClient, its QNetworkAccessManager and their timers live on    *)
(* the main thread.  A request that the main thread issues ends by the     *)
(* backend's answer, by Qt's transfer timeout or by the client's own       *)
(* timeout; a reply's finished signal runs in the thread that created the  *)
(* reply.  Client threads of NetworkManager call the same functions; what  *)
(* they create belongs to a thread without an event loop, so that neither  *)
(* the request nor its timer ever starts.                                  *)
(*                                                                         *)
(* requestsMutex_ guards pendingRequests_ and is not recursive.  It is     *)
(* held across the end of an action only by a main thread that waits for   *)
(* it itself.                                                              *)
(***************************************************************************)
EXTENDS Naturals

CONSTANTS Req       \* requests the server makes in its life

VARIABLES
    issuer,             \* who made a request: "none" (nobody yet), "main",
                        \* "client" (a client thread) or "health"
    reply,              \* a request's QNetworkReply
    pendingRequests,
    activeTimers,       \* requests whose timeoutTimer runs
    clientStep,         \* where a client thread is in sending a request
    mainThread,
    results             \* result signals emitted for a request

vars == <<issuer, reply, pendingRequests, activeTimers, clientStep, mainThread,
          results>>

TypeOK ==
    /\ issuer \in [Req -> {"none", "main", "client", "health"}]
    /\ reply \in [Req -> {"none", "running", "finished"}]
    /\ pendingRequests \in SUBSET Req
    /\ activeTimers \in SUBSET Req
    /\ clientStep \in [Req -> {"none", "created", "added", "sent"}]
    /\ mainThread \in {"loop", "lockedInTimeout", "stopping", "lockedInDestructor",
                       "gone"}
    /\ results \in [Req -> Nat]
    /\ \A r \in Req : issuer[r] = "none" <=> reply[r] = "none"

Init ==
    /\ issuer = [r \in Req |-> "none"]
    /\ reply = [r \in Req |-> "none"]
    /\ pendingRequests = {}
    /\ activeTimers = {}
    /\ clientStep = [r \in Req |-> "none"]
    /\ mainThread = "loop"
    /\ results = [r \in Req |-> 0]

-----------------------------------------------------------------------------
requestsMutexFree == mainThread \notin {"lockedInTimeout", "lockedInDestructor"}

\* issuer, reply: networkManager_->post, put or get.
CreateReply(r, by) ==
    /\ issuer[r] = "none"
    /\ issuer' = [issuer EXCEPT ![r] = by]
    /\ reply' = [reply EXCEPT ![r] = "running"]

-----------------------------------------------------------------------------
(***************************************************************************)
(* The main thread's event loop                                            *)
(***************************************************************************)

\* Mutant: the timeout is set up before the request is added, and finds
\* nothing to time.
sendHttpRequestUntimed(r) ==
    /\ mainThread = "loop"
    /\ CreateReply(r, "main")
    /\ pendingRequests' = pendingRequests \cup {r}
    /\ UNCHANGED <<activeTimers, clientStep, mainThread, results>>

\* sendHttpRequestWithHeaders and sendHttpRequestPUT on the main thread.
sendHttpRequest(r) ==
    /\ mainThread = "loop"
    /\ CreateReply(r, "main")
    /\ pendingRequests' = pendingRequests \cup {r}
    /\ activeTimers' = activeTimers \cup {r}
    /\ UNCHANGED <<clientStep, mainThread, results>>

\* testConnection, at the server's start.  The request is not added to
\* pendingRequests_, so that setupRequestTimeout does nothing.
testConnection(r) ==
    /\ mainThread = "loop"
    /\ \A q \in Req : issuer[q] # "health"
    /\ CreateReply(r, "health")
    /\ UNCHANGED <<pendingRequests, activeTimers, clientStep, mainThread, results>>

testConnectionFinished(r) ==
    /\ mainThread = "loop"
    /\ issuer[r] = "health"
    /\ reply[r] = "running"
    /\ reply' = [reply EXCEPT ![r] = "finished"]
    /\ results' = [results EXCEPT ![r] = @ + 1]
    /\ UNCHANGED <<issuer, pendingRequests, activeTimers, clientStep, mainThread>>

\* Mutant: an answered request is not removed.
replyFinishedKeepsRequest(r, success) ==
    /\ mainThread = "loop"
    /\ issuer[r] = "main"
    /\ reply[r] = "running"
    /\ reply' = [reply EXCEPT ![r] = "finished"]
    /\ activeTimers' = activeTimers \ {r}
    /\ results' = [results EXCEPT ![r] = @ + 1]
    /\ UNCHANGED <<issuer, pendingRequests, clientStep, mainThread>>

\* Mutant: only a success is signalled.
replyFinishedSilentOnError(r, success) ==
    /\ mainThread = "loop"
    /\ issuer[r] = "main"
    /\ reply[r] = "running"
    /\ reply' = [reply EXCEPT ![r] = "finished"]
    /\ pendingRequests' = pendingRequests \ {r}
    /\ activeTimers' = activeTimers \ {r}
    /\ results' = IF success THEN [results EXCEPT ![r] = @ + 1] ELSE results
    /\ UNCHANGED <<issuer, clientStep, mainThread>>

\* A reply emits finished: the lambda stops the timer, removes the request
\* and emits its result.  The backend has answered, with success or not, or
\* Qt's transfer timeout has aborted the request.
replyFinished(r, success) ==
    /\ mainThread = "loop"
    /\ issuer[r] = "main"
    /\ reply[r] = "running"
    /\ reply' = [reply EXCEPT ![r] = "finished"]
    /\ pendingRequests' = pendingRequests \ {r}
    /\ activeTimers' = activeTimers \ {r}
    /\ results' = [results EXCEPT ![r] = @ + 1]
    /\ UNCHANGED <<issuer, clientStep, mainThread>>

\* The timeoutTimer fires first.  Its lambda locks requestsMutex_, removes the
\* request and aborts the reply, which emits finished at once: the finished
\* lambda waits for the mutex that its own caller holds.
requestTimeout(r) ==
    /\ mainThread = "loop"
    /\ r \in activeTimers
    /\ r \in pendingRequests
    /\ pendingRequests' = pendingRequests \ {r}
    /\ activeTimers' = activeTimers \ {r}
    /\ reply' = [reply EXCEPT ![r] = "finished"]
    /\ mainThread' = "lockedInTimeout"
    /\ UNCHANGED <<issuer, clientStep, results>>

\* The event loop ends and ForensicServer::stop joins the client threads.
quit ==
    /\ mainThread = "loop"
    /\ mainThread' = "stopping"
    /\ UNCHANGED <<issuer, reply, pendingRequests, activeTimers, clientStep, results>>

\* ~BackendApiClient: with requestsMutex_ locked it aborts the first pending
\* request, whose finished lambda waits for the mutex.
destroy ==
    /\ mainThread = "stopping"
    /\ \A r \in Req : clientStep[r] \in {"none", "sent"}
    /\ \/ /\ pendingRequests = {}
          /\ mainThread' = "gone"
          /\ UNCHANGED <<reply, pendingRequests, activeTimers>>
       \/ \E r \in pendingRequests :
             /\ pendingRequests' = pendingRequests \ {r}
             /\ activeTimers' = activeTimers \ {r}
             /\ reply' = [reply EXCEPT ![r] = "finished"]
             /\ mainThread' = "lockedInDestructor"
    /\ UNCHANGED <<issuer, clientStep, results>>

-----------------------------------------------------------------------------
(***************************************************************************)
(* A client thread sends a request: task-complete from                     *)
(* processForensicData, client-update from processPCChanges.               *)
(***************************************************************************)

ClientMoves(r, from, to) ==
    /\ clientStep[r] = from
    /\ clientStep' = [clientStep EXCEPT ![r] = to]

clientPost(r) ==
    /\ mainThread \notin {"gone", "lockedInDestructor"}
    /\ CreateReply(r, "client")
    /\ ClientMoves(r, "none", "created")
    /\ UNCHANGED <<pendingRequests, activeTimers, mainThread, results>>

addPendingRequest(r) ==
    /\ ClientMoves(r, "created", "added")
    /\ requestsMutexFree
    /\ pendingRequests' = pendingRequests \cup {r}
    /\ UNCHANGED <<issuer, reply, activeTimers, mainThread, results>>

\* The timer is created in a thread without an event loop and does not run.
setupRequestTimeout(r) ==
    /\ ClientMoves(r, "added", "sent")
    /\ requestsMutexFree
    /\ UNCHANGED <<issuer, reply, pendingRequests, activeTimers, mainThread, results>>

-----------------------------------------------------------------------------
ClientStep(r) ==
    \/ addPendingRequest(r)
    \/ setupRequestTimeout(r)

\* A request of the main thread reaches its time limit; Qt's and the client's
\* timers have the same interval and either may fire first.
TimeLimit(r) == replyFinished(r, FALSE) \/ requestTimeout(r)

Next ==
    \/ \E r \in Req : sendHttpRequest(r)
    \/ \E r \in Req : testConnection(r)
    \/ \E r \in Req : testConnectionFinished(r)
    \/ \E r \in Req, success \in BOOLEAN : replyFinished(r, success)
    \/ \E r \in Req : requestTimeout(r)
    \/ quit
    \/ destroy
    \/ \E r \in Req : clientPost(r)
    \/ \E r \in Req : ClientStep(r)

Spec == Init /\ [][Next]_vars

\* Timers fire, client threads are scheduled, and the main thread goes through
\* its shutdown.  The backend need not answer and nobody has to quit.
Fairness ==
    /\ \A r \in Req : WF_vars(TimeLimit(r))
    /\ \A r \in Req : WF_vars(ClientStep(r))
    /\ WF_vars(destroy)

FairSpec == Spec /\ Fairness

-----------------------------------------------------------------------------
(***************************************************************************)
(* Properties                                                              *)
(***************************************************************************)

\* A request gets at most one result, however its answer and its timeouts
\* race, and none while it is pending.
AnswerOnce ==
    \A r \in Req : results[r] <= 1 /\ (r \in pendingRequests => results[r] = 0)

\* While the main thread runs, each of its pending requests has a running timer
\* and a running reply, and no timer outlives its request: no request can be
\* forgotten and no timeout hits a request that has ended.
TimedWhilePending ==
    /\ activeTimers \subseteq pendingRequests
    /\ \A r \in Req : issuer[r] = "main" /\ reply[r] = "running" => r \in activeTimers
    /\ \A r \in pendingRequests : reply[r] = "running"

\* A request of the main thread is answered, unless the main thread stops or
\* locks itself up.
AnsweredOrStuck ==
    \A r \in Req : issuer[r] = "main" ~> results[r] = 1 \/ mainThread # "loop"

-----------------------------------------------------------------------------
(***************************************************************************)
(* What the code says of itself and does not keep; a run of its own shows  *)
(* it violated.                                                            *)
(***************************************************************************)

\* "Handle the timeout directly": a request that times out ends and the server
\* goes on.
TimeoutIsHandled ==
    \A r \in Req :
        issuer[r] = "main" ~> results[r] = 1 \/ mainThread \in {"stopping", "gone"}

=============================================================================
