------------------------------- MODULE MCWorker -------------------------------
(* The worker: the jobs it processes, and its process.  Each behaviour is one of  *)
(* the two modules', which share no state.                                        *)
EXTENDS MCEvidenceJobs, WorkerRuntime

CONSTANTS p1, p2, release

VARIABLE side

MCReleaseOf == p1 :> release @@ p2 :> release

WorkInit == Init /\ WorkerInit /\ side \in {"jobs", "process"}

WorkNext ==
    \/ side = "jobs" /\ Next /\ UNCHANGED <<side, runtimeVars>>
    \/ side = "process" /\ WorkerNext /\ UNCHANGED <<side, vars>>

\* Before a file is queued, or a process starts, nothing fair is enabled, so the fairness
\* of the one side says nothing of the other.
WorkSpec ==
    WorkInit /\ [][WorkNext]_<<side, vars, runtimeVars>> /\ Fairness /\ WorkerFairness
=============================================================================
