---------------------------- MODULE WorkerRuntime ----------------------------
(***************************************************************************)
(* The processes of the worker: their main loop, their heartbeat thread,   *)
(* the rows of runtime_heartbeats that both of them write, the binding of  *)
(* the worker to the login of a release, and what /ready makes of it all.  *)
(*                                                                         *)
(* A process starts once; what the next task of the service runs is        *)
(* another instance.  Jobs are EvidenceJobs'.                              *)
(***************************************************************************)
EXTENDS Naturals

CONSTANTS
    Instances,      \* processes of the worker
    Releases,       \* release-scoped deployments
    ReleaseOf,      \* the release that an instance runs
    MaxAge,         \* worker_heartbeat_max_age_seconds
    None

\* Ages, up to the first that is too old.
Ages == 0 .. MaxAge + 1

\* A row of a process: its last word, and how long ago it was written.
Beats == [status : {"RUNNING", "STOPPED"}, age : Ages]

ASSUME WorkerAssumption ==
    /\ ReleaseOf \in [Instances -> Releases]
    /\ MaxAge \in Nat
    /\ None \notin Instances \cup Releases \cup Beats

VARIABLES
    bound,          \* the release whose login is bound to the worker's operator
    enabled,        \* the operator is active, with its membership
    current,        \* the releases whose qualification record still holds
    beats,          \* runtime_heartbeats
    latest,         \* the row of each release that was written last
    main,           \* where the main thread of each instance is
    thread,         \* where its heartbeat thread is
    running,        \* Worker.running
    stop,           \* Worker._heartbeat_stop
    late,           \* the join of the heartbeat thread timed out
    unwritten,      \* the database refused the last STOPPED
    ended           \* how long ago a process ended

processVars == <<main, thread, running, stop, late, unwritten, ended>>
rowVars == <<beats, latest>>
authorityVars == <<bound, enabled, current>>
runtimeVars == <<authorityVars, rowVars, processVars>>

\* Nobody looks at how much too old a row is.
Older(a) == IF a \in 0 .. MaxAge THEN a + 1 ELSE a

Ended == {"exited", "crashed"}

WorkerTypeOK ==
    /\ bound \in Releases \cup {None} /\ enabled \in BOOLEAN /\ current \subseteq Releases
    /\ beats \in [Instances -> Beats \cup {None}]
    /\ latest \in [Releases -> Instances \cup {None}]
    /\ main \in [Instances -> {"off", "starting", "looping", "joining", "joined", "written"}
                              \cup Ended]
    /\ thread \in [Instances -> {"none", "waiting", "writing", "denied"}]
    /\ running \in [Instances -> BOOLEAN] /\ stop \in [Instances -> BOOLEAN]
    /\ late \in [Instances -> BOOLEAN] /\ unwritten \in [Instances -> BOOLEAN]
    /\ ended \in [Instances -> Ages]

WorkerInit ==
    /\ bound = None /\ enabled = TRUE /\ current = {ReleaseOf[i] : i \in Instances}
    /\ beats = [i \in Instances |-> None]
    /\ latest = [r \in Releases |-> None]
    /\ main = [i \in Instances |-> "off"]
    /\ thread = [i \in Instances |-> "none"]
    /\ running = [i \in Instances |-> TRUE]
    /\ stop = [i \in Instances |-> FALSE]
    /\ late = [i \in Instances |-> FALSE]
    /\ unwritten = [i \in Instances |-> FALSE]
    /\ ended = [i \in Instances |-> 0]

\* The database's answer, in a statement of the worker and in the policies of its rows.
RuntimeAuthorized(r) == bound = r /\ enabled

\* What a worker also looks at before it says that it is running.
MayRun(i) == ReleaseOf[i] \in current /\ RuntimeAuthorized(ReleaseOf[i])

\* The policies let a worker write its row; the trigger stamps it.
Record(i, status) ==
    /\ RuntimeAuthorized(ReleaseOf[i])
    /\ beats' = [beats EXCEPT ![i] = [status |-> status, age |-> 0]]
    /\ latest' = [latest EXCEPT ![ReleaseOf[i]] = i]

Refused(i) == ~RuntimeAuthorized(ReleaseOf[i]) /\ UNCHANGED rowVars

\* A process and its daemon thread are gone.
Ends(i, how) ==
    /\ main' = [main EXCEPT ![i] = how]
    /\ thread' = [thread EXCEPT ![i] = "none"]
    /\ ended' = [ended EXCEPT ![i] = 0]
    /\ running' = [running EXCEPT ![i] = FALSE]
    /\ stop' = [stop EXCEPT ![i] = TRUE]

MainGoes(i, from, to) ==
    /\ main[i] = from
    /\ main' = [main EXCEPT ![i] = to]

ThreadGoes(i, from, to) ==
    /\ thread[i] = from
    /\ thread' = [thread EXCEPT ![i] = to]

-----------------------------------------------------------------------------
(* The surroundings: time, the record of the qualification, the operator   *)
(* and the binding.                                                        *)

\* PostgreSQL's clock, which stamps the rows and which /ready compares them with.
WorkerTick ==
    /\ beats' = [i \in Instances |->
                    IF beats[i] = None THEN None ELSE [beats[i] EXCEPT !.age = Older(@)]]
    /\ ended' = [i \in Instances |-> IF main[i] \in Ended THEN Older(ended[i]) ELSE ended[i]]
    /\ UNCHANGED <<authorityVars, latest, main, thread, running, stop, late, unwritten>>

Lapse(r) ==
    /\ r \in current
    /\ current' = current \ {r}
    /\ UNCHANGED <<bound, enabled, rowVars, processVars>>

\* A heartbeat that has looked at the binding holds it until it commits.
BindWorker(r) ==
    /\ enabled
    /\ bound # r
    /\ \A i \in Instances : thread[i] = "writing" => ReleaseOf[i] # bound
    /\ bound' = r
    /\ UNCHANGED <<enabled, current, rowVars, processVars>>

\* Nothing holds the row of the operator against it.
SetWorkerActive(b) ==
    /\ enabled # b
    /\ enabled' = b
    /\ UNCHANGED <<bound, current, rowVars, processVars>>

-----------------------------------------------------------------------------
(* The main thread.                                                        *)

StartWorker(i) ==
    /\ MainGoes(i, "off", "starting")
    /\ MayRun(i)
    /\ UNCHANGED <<authorityVars, rowVars, thread, running, stop, late, unwritten, ended>>

\* The first heartbeat is the main thread's; refused, the process ends without a row.
FirstBeat(i) ==
    /\ main[i] = "starting"
    /\ \/ /\ MayRun(i)
          /\ Record(i, "RUNNING")
          /\ MainGoes(i, "starting", "looping")
          /\ ThreadGoes(i, "none", "waiting")
          /\ UNCHANGED <<running, stop, ended>>
       \/ /\ ~MayRun(i)
          /\ Ends(i, "exited")
          /\ UNCHANGED rowVars
    /\ UNCHANGED <<authorityVars, late, unwritten>>

\* SIGTERM and SIGINT.
Terminate(i) ==
    /\ main[i] \in {"starting", "looping"}
    /\ running[i]
    /\ running' = [running EXCEPT ![i] = FALSE]
    /\ UNCHANGED <<authorityVars, rowVars, main, thread, stop, late, unwritten, ended>>

LeaveLoop(i) ==
    /\ MainGoes(i, "looping", "joining")
    /\ stop' = [stop EXCEPT ![i] = TRUE]
    /\ UNCHANGED <<authorityVars, rowVars, thread, running, late, unwritten, ended>>

\* Told to stop, or the qualification is no longer current.
LoopEnds(i) ==
    /\ ~running[i] \/ ReleaseOf[i] \notin current
    /\ LeaveLoop(i)

\* Listing the engagements or taking a lease fails.
LoopFails(i) == LeaveLoop(i)

\* Mutant: the main thread does not wait for the other.
NoJoin(i) ==
    /\ MainGoes(i, "joining", "joined")
    /\ UNCHANGED <<authorityVars, rowVars, thread, running, stop, late, unwritten, ended>>

JoinThread(i) ==
    /\ MainGoes(i, "joining", "joined")
    /\ thread[i] = "none"
    /\ UNCHANGED <<authorityVars, rowVars, thread, running, stop, late, unwritten, ended>>

\* The heartbeat thread is in the database for longer than the join waits.
JoinTimesOut(i) ==
    /\ MainGoes(i, "joining", "joined")
    /\ thread[i] \in {"writing", "denied"}
    /\ late' = [late EXCEPT ![i] = TRUE]
    /\ UNCHANGED <<authorityVars, rowVars, thread, running, stop, unwritten, ended>>

\* A worker without its binding cannot say that it has stopped, and dies of it.
WriteStopped(i) ==
    /\ main[i] = "joined"
    /\ \/ /\ Record(i, "STOPPED")
          /\ MainGoes(i, "joined", "written")
          /\ UNCHANGED <<thread, running, stop, unwritten, ended>>
       \/ /\ Refused(i)
          /\ unwritten' = [unwritten EXCEPT ![i] = TRUE]
          /\ Ends(i, "exited")
    /\ UNCHANGED <<authorityVars, late>>

Exit(i) ==
    /\ main[i] = "written"
    /\ Ends(i, "exited")
    /\ UNCHANGED <<authorityVars, rowVars, late, unwritten>>

ProcessDies(i) ==
    /\ main[i] \notin {"off"} \cup Ended
    /\ Ends(i, "crashed")
    /\ UNCHANGED <<authorityVars, rowVars, late, unwritten>>

-----------------------------------------------------------------------------
(* The heartbeat thread.                                                   *)

ThreadOnly(i) ==
    UNCHANGED <<authorityVars, main, late, unwritten, ended>>

\* Mutant: a denied heartbeat stops the thread, not the worker.
BeatDenies(i) ==
    /\ ThreadGoes(i, "waiting", "denied")
    /\ ~stop[i] /\ ~MayRun(i)
    /\ stop' = [stop EXCEPT ![i] = TRUE]
    /\ ThreadOnly(i) /\ UNCHANGED <<rowVars, running>>

\* WorkerProvisioningError: the worker is told to stop.
BeatDenied(i) ==
    /\ ThreadGoes(i, "waiting", "denied")
    /\ ~stop[i] /\ ~MayRun(i)
    /\ running' = [running EXCEPT ![i] = FALSE]
    /\ stop' = [stop EXCEPT ![i] = TRUE]
    /\ ThreadOnly(i) /\ UNCHANGED rowVars

\* The interval is over; the checks of the heartbeat are made.
BeatChecked(i) ==
    /\ ThreadGoes(i, "waiting", "writing")
    /\ ~stop[i] /\ MayRun(i)
    /\ ThreadOnly(i) /\ UNCHANGED <<rowVars, running, stop>>

\* It commits, whatever has happened to the main thread, unless the policies refuse it.
BeatWritten(i) ==
    /\ ThreadGoes(i, "writing", "waiting")
    /\ Record(i, "RUNNING") \/ Refused(i)
    /\ ThreadOnly(i) /\ UNCHANGED <<running, stop>>

\* The database fails; the thread goes on.
BeatFails(i) ==
    /\ ThreadGoes(i, "writing", "waiting")
    /\ ThreadOnly(i) /\ UNCHANGED <<rowVars, running, stop>>

\* After a denial the thread tries to say STOPPED, and is over.
DeniedStop(i) ==
    /\ ThreadGoes(i, "denied", "none")
    /\ Record(i, "STOPPED") \/ UNCHANGED rowVars
    /\ ThreadOnly(i) /\ UNCHANGED <<running, stop>>

ThreadEnds(i) ==
    /\ ThreadGoes(i, "waiting", "none")
    /\ stop[i]
    /\ ThreadOnly(i) /\ UNCHANGED <<rowVars, running, stop>>

-----------------------------------------------------------------------------
MainProgress(i) ==
    \/ FirstBeat(i) \/ LoopEnds(i) \/ JoinThread(i) \/ WriteStopped(i) \/ Exit(i)

ThreadProgress(i) ==
    \/ BeatChecked(i) \/ BeatDenied(i) \/ BeatWritten(i) \/ DeniedStop(i) \/ ThreadEnds(i)

WorkerNext ==
    \/ WorkerTick
    \/ \E r \in Releases : Lapse(r) \/ BindWorker(r)
    \/ \E b \in BOOLEAN : SetWorkerActive(b)
    \/ \E i \in Instances :
        \/ StartWorker(i) \/ Terminate(i) \/ LoopFails(i) \/ JoinTimesOut(i) \/ ProcessDies(i)
        \/ BeatFails(i) \/ MainProgress(i) \/ ThreadProgress(i)

\* The threads of a process that lives run.
WorkerFairness ==
    \A i \in Instances :
        /\ WF_runtimeVars(MainProgress(i))
        /\ WF_runtimeVars(ThreadProgress(i))

WorkerSpec == WorkerInit /\ [][WorkerNext]_runtimeVars /\ WorkerFairness

-----------------------------------------------------------------------------
(* Properties.                                                             *)

\* What /ready of release r answers of the worker.
WorkerReady(r) ==
    /\ r \in current
    /\ RuntimeAuthorized(r)
    /\ latest[r] # None
    /\ beats[latest[r]].status = "RUNNING"
    /\ beats[latest[r]].age <= MaxAge

\* A release is ready only on the word of a process that lives, or has died within the age
\* that is tolerated, and never of one that has been stopped in order: its last word is
\* STOPPED, unless its heartbeat outlasted the join or the database refused to hear it
\* (_stop_heartbeat_loop before the last _record_heartbeat).
ReadyIsEarned ==
    \A r \in Releases : WorkerReady(r) =>
        LET i == latest[r] IN
            /\ ReleaseOf[i] = r
            /\ main[i] \in Ended => ended[i] <= MaxAge
            /\ main[i] \in {"written", "exited"} => late[i] \/ unwritten[i]

\* A worker that loses its binding, its operator or its qualification for good does not go
\* on for ever, even when there is no job to refuse it (_heartbeat_loop).
AuthorityLossStops ==
    \A i \in Instances :
        <>[]~MayRun(i) => <>[](main[i] \in {"off"} \cup Ended)
=============================================================================
