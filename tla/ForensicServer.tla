---------------------------- MODULE ForensicServer ----------------------------
(***************************************************************************)
(* The server as a whole: the HTTP API on the event loop of the main       *)
(* thread, while the lifecycle starts and stops that loop and the threads. *)
(* A PC is the agent behind a connection.                                  *)
(***************************************************************************)
EXTENDS ServerLifecycle, HttpApiHandler

ASSUME PcAssumption == Pc = Connection

vars == <<lifecycleVars, httpVars>>

TypeOK == LifecycleTypeOK /\ HttpTypeOK

Init == LifecycleInit /\ HttpInit

\* sendTaskToClient finds a PC that is listed and sends it the task.
MayReach(p) == clientThread[p] \in {"check", "recv", "handle", "cleanup"}

\* Handlers run in the event loop, and those of sockets only while the HTTP server
\* does.
HttpEvent ==
    /\ InLoop
    /\ \/ /\ httpRunning
          /\ \E r \in Request : HttpStep(r) /\ (starts' # starts => MayReach(PcOf[r]))
       \/ onForensicDataStored
    /\ UNCHANGED lifecycleVars

\* A message is a heartbeat, or a module of the task.
handle(c) == handleMessage(c) /\ (UNCHANGED httpVars \/ storeForensicData(c))

\* The loop ends between two events.
quit == HttpIdle /\ leaveLoop /\ UNCHANGED httpVars

stopHttp == stopHttpServer /\ stopServer

MainAlone == (Startup \/ Shutdown) /\ UNCHANGED httpVars

Threads(c) == Serving(c) /\ UNCHANGED httpVars

Next ==
    \/ MainAlone
    \/ (signalHandler \/ terminate) /\ UNCHANGED httpVars
    \/ quit
    \/ stopHttp
    \/ HttpEvent
    \/ Accepting /\ UNCHANGED httpVars
    \/ \E c \in Connection :
          \/ Threads(c)
          \/ handle(c)
          \/ (receiveMessage(c) \/ agentConnects(c) \/ agentHangsUp(c)) /\ UNCHANGED httpVars

Spec == Init /\ [][Next]_vars

-----------------------------------------------------------------------------
\* The operating system runs every thread; the loop handles its events.
FairSpec ==
    /\ Spec
    /\ WF_vars(MainAlone)
    /\ WF_vars(quit)
    /\ WF_vars(stopHttp)
    /\ WF_vars(InLoop /\ \E r \in Request : finishInspect(r) /\ UNCHANGED lifecycleVars)
    /\ WF_vars(Accepting /\ UNCHANGED httpVars)
    /\ \A c \in Connection : WF_vars(Threads(c)) /\ WF_vars(handle(c))

\* Agents that stay connected send heartbeats.
HeartbeatSpec ==
    /\ FairSpec
    /\ \A c \in Connection : WF_vars(receiveMessage(c) /\ UNCHANGED httpVars)

-----------------------------------------------------------------------------
\* Ctrl+C ends a server that serves, as long as every agent that is connected
\* sends heartbeats or hangs up: each heartbeat wakes a thread, which finds the
\* flag cleared.  Neither the joins nor the mutex they are done under block it.
StopEnds == InLoop /\ quitRequested ~> mainAt \in {"ended", "killed"}

=============================================================================
