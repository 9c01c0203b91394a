---------------------------- MODULE TaskContract ----------------------------
(***************************************************************************)
(* What the server promises for an inspection request: a PC runs one task  *)
(* at a time, and a request that stops running was completed, was replaced *)
(* by a later one to its PC, or is reported as failed, once.               *)
(***************************************************************************)
EXTENDS Naturals

CONSTANTS Pc, Request, NoPc

VARIABLES
    fate,       \* what has become of each request
    runner      \* the PC it was accepted for

Fate == {"new", "running", "replaced", "complete", "failing", "failed"}

Init ==
    /\ fate = [r \in Request |-> "new"]
    /\ runner = [r \in Request |-> NoPc]

\* The request that a PC runs, if any, gives way.
Replaced(p) ==
    [r \in Request |-> IF fate[r] = "running" /\ runner[r] = p THEN "replaced" ELSE fate[r]]

\* A PC takes on the task of a request.
Accept(p, r) ==
    /\ fate[r] = "new"
    /\ fate' = [Replaced(p) EXCEPT ![r] = "running"]
    /\ runner' = [runner EXCEPT ![r] = p]

\* A task that does not reach its PC still costs the PC the one it runs.
Displace(p) ==
    /\ fate' = Replaced(p)
    /\ UNCHANGED runner

\* A running request ends, with all modules of its task stored or without.
End(r, outcome) ==
    /\ fate[r] = "running"
    /\ fate' = [fate EXCEPT ![r] = outcome]
    /\ UNCHANGED runner

\* The failure of a request reaches the backend.
Report(r) ==
    /\ fate[r] = "failing"
    /\ fate' = [fate EXCEPT ![r] = "failed"]
    /\ UNCHANGED runner

Next ==
    \/ \E p \in Pc, r \in Request : Accept(p, r)
    \/ \E p \in Pc : Displace(p)
    \/ \E r \in Request, outcome \in {"complete", "failing"} : End(r, outcome)
    \/ \E r \in Request : Report(r)

Spec == Init /\ [][Next]_<<fate, runner>>

=============================================================================
