---------------------------- MODULE TaskInventory ----------------------------
(***************************************************************************)
(* The inventory of ECS tasks on which a release is qualified, and later   *)
(* activated.  The verifier reads the services, the lists of the cluster,  *)
(* the lists of each service and the description of every task one after   *)
(* the other, while rollouts, the scheduler and operators start and stop   *)
(* tasks.  A task whose desired status is RUNNING is wanted; one that no   *)
(* longer is runs on until it has been stopped.                            *)
(***************************************************************************)
EXTENDS Naturals, FiniteSets

CONSTANTS
    ServiceCount,   \* services are numbered in the order in which they are listed, web first
    DesiredCount,   \* desired_count of each of them
    MaxTasks,       \* bound on the tasks ever started
    MaxRevisions,   \* bound on the revisions of the task definitions
    Exact           \* the revisions with the images, roles and secrets of the release

ASSUME InventoryAssumption ==
    /\ {ServiceCount, DesiredCount, MaxTasks, MaxRevisions} \subseteq Nat \ {0}
    /\ Exact \subseteq 1 .. MaxRevisions

Services == 1 .. ServiceCount
Web == 1
Standalone == 0
Runtimes == Services \cup {Standalone}
Tasks == 1 .. MaxTasks
Revisions == 1 .. MaxRevisions
Unqualified == [r \in Runtimes |-> 0]

VARIABLES
    definition,     \* the revision that Terraform has given each service, and the migration
    launched,       \* how many tasks there have been
    owner,          \* the service of each task, or Standalone
    revision,       \* the task definition that it runs
    wanted,         \* the tasks whose desired status is RUNNING
    phase,          \* lastStatus
    succeeded,      \* tasks whose container has exited with 0
    step,           \* where the verifier is
    activating,     \* it verifies the activation, not the candidate
    turn,           \* the service that it is about to list
    approved,       \* the definitions that it has verified
    listed,         \* how many tasks there had been when it listed the cluster
    runningSeen,    \* the RUNNING tasks of the cluster
    stoppedSeen,    \* its STOPPED tasks
    ofServices,     \* the RUNNING tasks of the services
    qualified       \* the definitions in the record of the qualification

cluster == <<definition, launched, owner, revision, wanted, phase, succeeded>>
readings == <<activating, turn, approved, listed, runningSeen, stoppedSeen, ofServices>>
inventoryVars == <<definition, launched, owner, revision, wanted, phase, succeeded, step,
                   activating, turn, approved, listed, runningSeen, stoppedSeen, ofServices,
                   qualified>>

InventoryTypeOK ==
    /\ definition \in [Runtimes -> Revisions]
    /\ launched \in 0 .. MaxTasks
    /\ owner \in [Tasks -> Runtimes]
    /\ revision \in [Tasks -> 0 .. MaxRevisions]
    /\ wanted \subseteq 1 .. launched
    /\ phase \in [Tasks -> {"none", "pending", "running", "stopped", "forgotten"}]
    /\ succeeded \subseteq Tasks
    /\ step \in {"idle", "running", "stopped", "service", "ended", "describe", "drained"}
    /\ activating \in BOOLEAN
    /\ turn \in 1 .. ServiceCount + 1
    /\ approved \in [Runtimes -> 0 .. MaxRevisions]
    /\ listed \in 0 .. MaxTasks
    /\ runningSeen \subseteq Tasks /\ stoppedSeen \subseteq Tasks /\ ofServices \subseteq Tasks
    /\ qualified \in [Runtimes -> 0 .. MaxRevisions]

\* A task of the prior release that belongs to no service is running.
InventoryInit ==
    /\ definition = [r \in Runtimes |-> 1]
    /\ launched = 1
    /\ owner = [t \in Tasks |-> Standalone]
    /\ revision = [t \in Tasks |-> IF t = 1 THEN 1 ELSE 0]
    /\ wanted = {1}
    /\ phase = [t \in Tasks |-> IF t = 1 THEN "running" ELSE "none"]
    /\ succeeded = {}
    /\ step = "idle"
    /\ activating = FALSE
    /\ turn = 1
    /\ approved = Unqualified
    /\ listed = 0
    /\ runningSeen = {} /\ stoppedSeen = {} /\ ofServices = {}
    /\ qualified = Unqualified

OfService(s) == {t \in wanted : owner[t] = s}
NotWanted == {t \in 1 .. launched \ wanted : phase[t] # "forgotten"}
Alive(t) == phase[t] \in {"pending", "running"}

-----------------------------------------------------------------------------
(* The cluster.                                                            *)

\* terraform apply of a release, or of a change that leaves the web service as it is.
Deploy ==
    /\ \E changed \in {Runtimes, Runtimes \ {Web}}, v \in Revisions :
        /\ \A r \in Runtimes : definition[r] < v
        /\ definition' = [r \in Runtimes |-> IF r \in changed THEN v ELSE definition[r]]
    /\ UNCHANGED <<launched, owner, revision, wanted, phase, succeeded, step, readings,
                   qualified>>

Start(r, v) ==
    /\ launched < MaxTasks
    /\ launched' = launched + 1
    /\ owner' = [owner EXCEPT ![launched + 1] = r]
    /\ revision' = [revision EXCEPT ![launched + 1] = v]
    /\ wanted' = wanted \cup {launched + 1}
    /\ phase' = [phase EXCEPT ![launched + 1] = "pending"]
    /\ UNCHANGED <<definition, succeeded, step, readings, qualified>>

\* The scheduler replaces tasks that have stopped, or that run an older definition.
LaunchService ==
    \E s \in Services :
        /\ Cardinality({t \in OfService(s) : revision[t] = definition[s]}) < DesiredCount
        /\ Start(s, definition[s])

\* The migration broker, or an operator with any registered definition.
RunTask == \E v \in Revisions : Start(Standalone, v)

BecomesRunning(t) ==
    /\ phase[t] = "pending" /\ t \in wanted
    /\ phase' = [phase EXCEPT ![t] = "running"]
    /\ UNCHANGED <<definition, launched, owner, revision, wanted, succeeded, step, readings,
                   qualified>>

\* Scaling in, a rollout, a failed health check, StopTask, or a container that fails.
StopTask(t) ==
    /\ t \in wanted
    /\ wanted' = wanted \ {t}
    /\ UNCHANGED <<definition, launched, owner, revision, phase, succeeded, step, readings,
                   qualified>>

\* A migration that succeeds.
ExitTask(t) ==
    /\ t \in wanted /\ phase[t] = "running" /\ owner[t] = Standalone
    /\ wanted' = wanted \ {t}
    /\ succeeded' = succeeded \cup {t}
    /\ UNCHANGED <<definition, launched, owner, revision, phase, step, readings, qualified>>

BecomesStopped(t) ==
    /\ Alive(t) /\ t \notin wanted
    /\ phase' = [phase EXCEPT ![t] = "stopped"]
    /\ UNCHANGED <<definition, launched, owner, revision, wanted, succeeded, step, readings,
                   qualified>>

\* The history of stopped tasks is short.
Forget(t) ==
    /\ phase[t] = "stopped"
    /\ phase' = [phase EXCEPT ![t] = "forgotten"]
    /\ owner' = [owner EXCEPT ![t] = Standalone]
    /\ revision' = [revision EXCEPT ![t] = 0]
    /\ succeeded' = succeeded \ {t}
    /\ UNCHANGED <<definition, launched, wanted, step, readings, qualified>>

-----------------------------------------------------------------------------
(* The verifier.                                                           *)

\* At its exact count, its rollout completed.
Steady(s) ==
    /\ Cardinality(OfService(s)) = DesiredCount
    /\ \A t \in OfService(s) : phase[t] = "running" /\ revision[t] = definition[s]

DefinitionsExact == \A r \in Runtimes : definition[r] \in Exact

VerifyEcs ==
    /\ step = "idle"
    /\ \A s \in Services : Steady(s)
    /\ DefinitionsExact
    /\ approved' = definition
    /\ activating' \in {FALSE, qualified # Unqualified}
    /\ step' = "running"
    /\ UNCHANGED <<cluster, turn, listed, runningSeen, stoppedSeen, ofServices, qualified>>

ListRunning ==
    /\ step = "running"
    /\ runningSeen' = wanted
    /\ listed' = launched
    /\ step' = "stopped"
    /\ UNCHANGED <<cluster, activating, turn, approved, stoppedSeen, ofServices, qualified>>

ListStopped ==
    /\ step = "stopped"
    /\ stoppedSeen' = NotWanted
    /\ step' = "service"
    /\ UNCHANGED <<cluster, activating, turn, approved, listed, runningSeen, ofServices,
                   qualified>>

ListServiceRunning ==
    /\ step = "service"
    /\ OfService(turn) \subseteq runningSeen
    /\ Cardinality(OfService(turn)) = DesiredCount
    /\ ofServices' = ofServices \cup OfService(turn)
    /\ step' = "ended"
    /\ UNCHANGED <<cluster, activating, turn, approved, listed, runningSeen, stoppedSeen,
                   qualified>>

ListServiceStopped ==
    /\ step = "ended"
    /\ LET ended == {t \in NotWanted : owner[t] = turn} IN
        /\ ended \subseteq stoppedSeen
        /\ ended \cap ofServices = {}
    /\ turn' = turn + 1
    /\ step' = IF turn = ServiceCount THEN "describe" ELSE "service"
    /\ UNCHANGED <<cluster, activating, approved, listed, runningSeen, stoppedSeen, ofServices,
                   qualified>>

InventoriesAgree ==
    /\ runningSeen = ofServices
    /\ runningSeen \cap stoppedSeen = {}

CurrentTask(t) ==
    /\ t \in wanted /\ phase[t] = "running"
    /\ revision[t] = approved[owner[t]]

\* Mutant: a task that is not wanted is taken for stopped.
Dismissed(t) == t \notin wanted /\ phase[t] # "forgotten"

FullyStopped(t) == t \notin wanted /\ phase[t] = "stopped"

\* A migration of the definition that was verified has succeeded.
Migrated ==
    \E t \in stoppedSeen :
        owner[t] = Standalone /\ revision[t] = approved[Standalone] /\ t \in succeeded

\* Between the candidate and the activation the web service does not change.
SameRelease == approved[Web] = qualified[Web]

DescribeTasks ==
    /\ step = "describe"
    /\ InventoriesAgree
    /\ \A t \in runningSeen : CurrentTask(t)
    /\ \A t \in stoppedSeen : FullyStopped(t)
    /\ activating => Migrated /\ SameRelease
    /\ step' = "drained"
    /\ UNCHANGED <<cluster, readings, qualified>>

ForgetReadings ==
    /\ step' = "idle"
    /\ activating' = FALSE
    /\ turn' = 1
    /\ approved' = Unqualified
    /\ listed' = 0
    /\ runningSeen' = {} /\ stoppedSeen' = {} /\ ofServices' = {}

\* What the record of a qualification is held against before it is published: the tasks
\* that run are those of the services, each at its count.
RecordHolds ==
    /\ runningSeen = ofServices
    /\ Cardinality(runningSeen) = ServiceCount * DesiredCount

\* The record of the qualification, or of the activation.
PublishRecord ==
    /\ step = "drained"
    /\ activating \/ RecordHolds
    /\ qualified' = IF activating THEN qualified ELSE approved
    /\ ForgetReadings
    /\ UNCHANGED cluster

\* A check fails, or a call.
GiveUp ==
    /\ step # "idle"
    /\ ForgetReadings
    /\ UNCHANGED <<cluster, qualified>>

-----------------------------------------------------------------------------
ClusterStep ==
    \/ Deploy \/ LaunchService \/ RunTask
    \/ \E t \in Tasks :
        \/ BecomesRunning(t) \/ StopTask(t) \/ ExitTask(t) \/ BecomesStopped(t) \/ Forget(t)

VerifierStep ==
    \/ VerifyEcs \/ ListRunning \/ ListStopped \/ ListServiceRunning \/ ListServiceStopped
    \/ DescribeTasks \/ PublishRecord \/ GiveUp

InventoryNext == ClusterStep \/ VerifierStep

InventorySpec == InventoryInit /\ [][InventoryNext]_inventoryVars

-----------------------------------------------------------------------------
(* Properties.                                                             *)

\* When the verifier has finished, of all the tasks that there were when it listed the
\* cluster nothing runs any more but the desired number of tasks of each service, and these
\* run what it verified, whatever was started and stopped while it read
\* (_verify_standalone_task_drain); an activation has kept the web tasks of its candidate
\* (_verify_standalone_task_drain_transition).
NothingElseRuns ==
    step = "drained" =>
        LET remaining == {t \in 1 .. listed : Alive(t)} IN
        /\ \A t \in remaining : owner[t] \in Services /\ revision[t] = approved[owner[t]]
        /\ \A s \in Services :
            Cardinality({t \in remaining : owner[t] = s}) <= DesiredCount
        /\ activating => \A t \in remaining : owner[t] = Web => revision[t] = qualified[Web]
=============================================================================
