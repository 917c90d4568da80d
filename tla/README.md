# TLA+ models of AI FDE Agent

AI FDE Agent takes a customer engagement from uploaded evidence to a published deployment
package. Files are parsed and turned into candidate claims by background workers, operators
accept or reject the claims, accepted claims become a verified operating model, and from it
the service derives workflows, an economic case, implementation artifacts and the factory
handoff. Everything lives in one PostgreSQL database (and an object store for the files);
there is no other coordination between processes than its rows, locks, triggers and unique
indexes. These modules model that coordination.

Paths below are relative to `src/src/ai_fde/`.

## 1. Inventory

Every HTTP request and every worker step is one transaction (`db.py`, `operator_session`) at
READ COMMITTED, with `autoflush=False`. A statement sees the rows committed before it
started and the rows its own transaction has *flushed*. Row locks come from
`with_for_update()`, from UPDATEs, and from foreign keys (an insert takes KEY SHARE on the
engagement row, which keeps others from locking it FOR UPDATE).

| Component | State | Operations | Interacts with | Hard behaviour | What makes it correct |
|---|---|---|---|---|---|
| Evidence intake (`modules/evidence/service.py`) | `EvidenceAsset`, `Job` | upload | object store, worker | object stored before the row commits; compensation on rollback | one asset and one job per file, no orphan object |
| Evidence worker (`worker.py`, `modules/knowledge/jobs.py`) | `Job` (status, attempts, lease token, lease end, backoff), `ExtractionRun` | lease, process, fail | assets, claims, contradictions | crashes, expired leases, superseded workers, retries | a file is ingested once or fails for good; every job settles |
| Claim review (`modules/knowledge/review.py`) | `CandidateClaim`, `Assertion`, asset status | accept, reject, defer | worker, cascade | two reviewers decide the last claims together | a claim is decided once; the asset completes with its last decision |
| Contradictions (`modules/knowledge/contradictions.py`, detection in `jobs.py`) | `Contradiction` | detect, resolve | worker, approvals | detection in concurrent ingestions | contradicting live claims have a row |
| Staleness cascade (`modules/lifecycle.py`) | none of its own | four `stale_after_*` entry points | everything downstream | many orders of changes | nothing open rests on what is stale |
| Workflow versions (`modules/workflows/service.py`) | `WorkflowVersion`, `WorkflowStep` | generate current and target, edit step, approve | cascade | unlocked reads before the cascade | follow verified truth unless raced; immutable once approved, but for an edit in flight |
| Economic cases (`modules/economics/service.py`) | `EconomicCase` | calculate, approve | cascade | unlocked reads; another lock order | one approved case, of the approved target |
| Implementation artifacts (`modules/artifacts/service.py`) | `ImplementationArtifact` | generate packet | cascade | unlocked reads | one current packet, of approved sources |
| Factory handoff (`modules/factory_engineer/service.py`, `models.py`) | `CustomerFactoryModelVersion`, `FDLCReadinessAssessment`, `FactoryOpportunity`, `FactoryDeploymentPackageVersion` | create, approve, select, reject, submit, publish, revoke | upstream cascades, retrieval | cascade along foreign keys, supersession, triggers | no open package on sources that are gone |
| Database schema (`migrations/versions/`) | triggers, unique indexes | refuse transitions | handoff | a refusal aborts the whole request | the service never runs into one |
| Readiness scoring, hashes (`readiness.py`, `scoring.py`, `canonical.py`) | none | pure functions | handoff | ranking, gates | agree with their rules |
| Retrieval grants (`modules/factory_engineer/retrieval.py`, `admin.py`) | `PackageRetrievalGrant`, the token in a secret of the receiver | rotate, deliver, authenticate, revoke, retrieve | packages, qualification | rotation or revocation during a retrieval; a token delivered late or not at all | one live token, the newest; nothing is retrieved without authority |
| Data lifecycle (`modules/data_lifecycle/service.py`, `adapters/storage.py`) | engagement status, exports, deletion receipts, objects | retention, export, delete, retry | every writer | three transactions and a purge, late writers, crash | everything deleted was exported; a deletion ends or can be retried |
| Design-partner qualification (`modules/design_partner/service.py`) | qualification, its audit, retention ceiling | provision, transition, authorise an upload, an extraction, a retrieval | intake, worker, publication, retrieval | authority revoked or expired during an upload, an extraction or a retrieval | no customer output after revocation |
| Operator sessions (`modules/identity/`) | login attempts, sessions, members | login, callback, logout, administration | every request | two callbacks with one state; a deactivation during a login | an attempt is consumed once; no session for the inactive |
| Worker process, heartbeat, readiness (`worker.py`, `modules/runtime/`) | `RuntimeHeartbeat`, two threads, the binding of the login | beat, stop, bind, probe | worker | two threads write one row; authority lost while idle; a hung stop | a dead or stopped worker is not reported running |
| Deployment and verification scripts (`../../scripts/`) | IAM role and its state in Terraform, ECS tasks, sealed evidence | quarantine, clean up, verify candidate and activation | deployment qualification | calls that fail half-way, propagation, drift; reads of a cluster that moves | no session of a retired worker; no task of another release |
| Deployment qualification (`modules/runtime/qualification.py`) | the record, read back | validate documents | configuration | evidence that is stale when used | the record holds when it is used |
| Row locks of one engagement (all of the above) | PostgreSQL row locks | every request | every request | cycles | those who lock the engagement first are never in one |
| Engagements, operating model, audit, API, cockpit | rows read back, or none | - | - | - | - |

The hazards of `PROJECT.json` give the line of each of these behaviours and the property
that covers it, or why none does.

## 2. Modules

| Module | Models | Abstract specification | Proofs |
|---|---|---|---|
| `EvidenceJobs` | uploads, workers, leases, review | `EvidenceLifecycle` | `EvidenceJobsProofs` |
| `FactoryHandoff` | the handoff rows under every upstream change | `HandoffLifecycle` | `FactoryHandoffProofs` |
| `DeliveryChain` | upstream requests that overlap | - | `DeliveryChainProofs` |
| `DataLifecycle` | retention, export and deletion against uploads and other writers | - | `DataLifecycleProofs` |
| `CustomerAuthority` | qualification, grants, retrievals and the hosted model against their revocation | - | `CustomerAuthorityProofs` |
| `LockOrder` | the row locks of every transaction on one engagement | - | `LockOrderProofs` |
| `WorkerRuntime` | worker processes, heartbeat threads, binding, `/ready` | - | `WorkerRuntimeProofs` |
| `OperatorSessions` | login attempts, callbacks, enrollment, sessions | - | `PlatformProofs` |
| `RoleQuarantine` | retirement of a superseded worker's IAM role | - | `PlatformProofs` |
| `TaskInventory` | the verifier's inventory of ECS tasks | - | `PlatformProofs` |

The MC modules define the constants and symmetries of the TLC runs. Three of them put
modules that share no state side by side: `MCCustomerAuthority` `CustomerAuthority` and
`LockOrder`, `MCWorker` `EvidenceJobs` and `WorkerRuntime`, and `MCPlatform` the last three.
A variable (`subject`, `side`, `component`) chooses one for the whole behaviour, the others
stay as they begin, and the state spaces add up instead of multiplying. Definitions marked
"Mutant" are plausible bugs: replacing the definition that follows each with it makes a
property fail, so that no property holds merely by the shape of its module.

### EvidenceJobs

`jobStatus`, `attempts`, `leaseToken`, `lease`, `waiting` are the columns of `Job`; a token
is named by the attempt it was minted for, and the two clock columns are reduced to "in the
future or not". `assetStatus`, `extractions`, `claimStatus`, `contradictions` are the
evidence rows. A worker's `pc` walks through `_process_one`: the transaction of
`lease_next_job`; the transaction of `process_job`, split where another transaction can
commit (`LockActiveLease`, `StageIngestion`, `CommitIngestion` or `CommitRefused`); and,
after a failure, the transaction of `fail_job`. What has been written but not committed is
in `found`, `reused`, `decision`, `closes`. `Locked` and its siblings stand for the row
locks. `Crash` is a process that dies anywhere and is started again. Reviews are split at
the asset lock of `_complete_evidence_review_if_decided`. The text of a file and the
extractor are constants: which claims a file yields (`Source`) and which pairs contradict
each other (`Conflicts`).

### FactoryHandoff

Every handoff operation locks the engagement row first (`_lock_active_engagement`) and keeps
it to its commit, and the upstream cascades take the same lock before they touch a handoff
row. So handoff rows change in the order of the lock, one request is one action, and the
action includes the whole cascade. `Staled(seed)` is the closure of `_stale_customer_model`,
`_stale_opportunity` and `_stale_readiness` along the foreign keys. What the handoff reads
of its upstream is kept as the newest version of each kind, packets included, with its
status (`version`, `stage`), and whether some case is approved.

A row pins the workflows the code takes for it. An opportunity also carries an economics
reference and evidence references, and the code takes any `SourceReference` for either:
evidence, an assumption or a verified claim, a workflow, an economic case, an artifact, a
model, an assessment or another opportunity. `CreateOpportunity` chooses freely which
upstream versions (`pins`) and which handoff rows (`cites`) they name, none included, as in
the acceptance test, whose economics is a piece of evidence. `OpportunitySourcesValid`
checks whatever was chosen again at each transition. So a package need not rest on an
economic case; if its opportunity refers to one, it is the approved newest. References to
evidence, assumptions and claims need no state: an asset stays complete, and a claim changes
only with an acceptance, which stales everything. The references inside a model, readiness
inputs and a package contract are validated when the row is created and never again; no
property speaks of them.

Upstream requests are taken one at a time here; what goes wrong when their unlocked parts
overlap is the subject of `DeliveryChain`. Digests, scores, identities and the checks of who
approves are left out: a row that fails such a check is a row nobody moves.

### DeliveryChain

Assertions, workflows, cases and packets with the rows they were made from (`basis`). A
request has up to three parts: `Begin...` (its guards and unlocked reads, and the row it
locks), the UPDATEs of its cascade (`StartUpdate` takes the statement's snapshot, `LockRows`
waits for row locks and checks the rows again, as PostgreSQL does at READ COMMITTED), and
`Finish...` (from the engagement lock to the commit). The updates a request has made are
invisible to others until then. `ApproveEconomics` locks the engagement first and is one
action. `update_workflow_step` locks no workflow, so it has no middle part. `Abort` is a
rollback for any reason, in particular of the victim of a deadlock. Abstractions: reads that
follow each other without a write are one step, and so are the UPDATEs of one cascade; every
accepted claim projects to a step; the gates on steps and on blocking contradictions are
left out (an override with a reason always passes the latter); the seven artifacts of a
packet are one row, for they are inserted, staled and numbered together.

Three variables are history that no guard reads. `amended` holds the workflows that were
edited after their approval. `overtaken` holds the requests in flight one of whose sources
has gone: another commit staled a row they read, or accepted a claim after they had
projected the assertions. `raced` holds the rows that such a request inserted, and those
inserted while a cascade that had already taken its snapshot was about to do the same
(`Takes`). `FreshUnlessRaced` says that all other open rows rest on what is in force.

### DataLifecycle

One engagement, with (`qualified`) or without a design-partner qualification. A deletion
goes through the steps of `delete_engagement_permanently`: `Prepare` is its first
transaction (`_prepare_deletion`), `Sweep` and `Verify` are the purge of the object store,
which no transaction surrounds, `Delete` is the second transaction and `MarkFailed` the one
that records a failure. The `Faults` are a purge that fails after some versions
(`SweepFails`), a second transaction that fails (`DeleteFails`) or commits without telling
(`DeleteUnacknowledged`), a process that dies (`Crash`), and an upload whose put is not
compensated (`Lose`).

An upload is authorised, stores its object and commits its row (`Authorise`, `Store`,
`Commit`) or rolls back and removes the version it put (`Rollback`). With a qualification it
locks the engagement before the put, authorises itself again and keeps the lock to its
commit: `holder`. Without one it does neither. `Writers` are other requests that insert
records; those in `Locking` look at the engagement's status again under its lock, as the
factory handoff does. A row is named by the request that inserted it. `worked` are the
uploads that left a further record, of a worker or of a denied authorisation, so that the
fingerprint of an export (`Snapshot`) changes when a worker does. Two reads are stale in the
code and here: a retention request reads the deadline without a lock (`BeginExtension`), and
an export locks the row of an engagement that its route has loaded before, which the session
does not refresh (`BeginExport`).

### CustomerAuthority

One sanitized engagement: its lifecycle and retention, the qualification with its `status`
and `state` (`_transition` tables), the retention ceiling that the trigger of `f4d9c2a7b310`
enforces, the worker's binding, one package, its numbered grants and a clock that every
deadline is compared with. An operation that locks the engagement and finishes in one go is
one action. A retrieval (`Present`, `Authenticate`, `Decide`, `Release`) holds the lock from
its authentication to its commit, and a worker (`StartJob` to `CommitClaims`) from its last
check before staging, and only time passes then: `holder`. What a worker checks before and
after each call of the model (`BeforeCall`, `Call`, `AfterCall`) it reads without a lock, so
the authority can end inside a call. A rotation commits (`Rotate`) before its token reaches
the secret (`Deliver`, in any order, or `DeliveryFails`); two rotations whose deliveries
overtake each other leave a revoked token in the secret, which retrieves nothing until the
rotation is run again, as the runbook says. A deployed API refuses to issue a grant
directly, so there is no such action.

### LockOrder

Each transaction is the sequence of its row locks with their modes, those that a foreign key
takes on an INSERT included. A table's rows of the engagement are one row, a bulk UPDATE
locks it only if it finds something (`populated`), and the guards of a request are left out,
so every request may run. `Cycle` is a smallest set of transactions that wait for each
other. Left out: the locks of foreign keys on rows that are approved already, the order of
rows within a bulk UPDATE, and the queues of waiters. `OutOfOrder` names the five operations
without which no cycle forms: `review_claim`, `calculate_case`, `approve_economic_case`,
`bind_worker` and `delete_engagement`; the property fails if any of them is taken out. Most
insert or change a row under the engagement, which takes KEY SHARE on it, before they lock
it FOR UPDATE. PostgreSQL fails one of the transactions in a cycle; nothing is corrupted,
and the request or the job is repeated.

### WorkerRuntime

An instance is one process. Its main thread starts, loops, joins the heartbeat thread, says
STOPPED and exits, or crashes anywhere; its heartbeat thread waits, writes, or has been
denied, which clears `Worker.running`. `Record` is the upsert both threads use, `latest` the
row that `/ready` reads for a release (newest `seen_at`, set by the trigger). The owner can
bind, disable and rebind the login, and the qualification record of a release can expire.
`ReadyIsEarned` names its two exceptions: a heartbeat that outlasts the join with its
timeout, and a last word that the database refused. A stopping instance that speaks after
its successor makes a healthy release look stale until the next beat. The death of a process
(`ProcessDies`) is the `Crash` of `EvidenceJobs`, which looks at the jobs it leaves behind.

### OperatorSessions

A callback goes through the transaction of `/auth/callback`: `LockAttempt` (FOR UPDATE),
`ConsumeLoginAttempt`, the exchange with the provider, `EnrollOperator`, which writes the
operator's row and so keeps it locked, and `CreateOperatorSession` with the commit. It can
fail anywhere; its attempt is open again only if it has not been consumed. A logout finds
its session without a lock, and the cleanup of a later login may delete the row in between,
which fails that request only. Deactivating an operator leaves the sessions, which
authenticate nobody until the operator is active again.

### RoleQuarantine

IAM calls of the commands of `quarantine_prior_worker_role.py`, which can fail or die
between any two: `PutRolePolicy`, `UpdateAssumeRolePolicy`, `Strip` and `VerifyQuarantine`
with its receipt; `Seal` with the probes of the captured session; `VerifyStateRm` and the
removal from Terraform's state; `DropDeny`, `DeleteRole` and `Restore`, which puts the deny
back when the deletion fails. `Drift` is Terraform putting the role back, at any time while
it has it. The receipt counts its wait from the start of the command, so the model assumes
that the wait also covers applying the changes (in `Elapse`); with a shorter wait a session
could begin after the cutoff. A deletion cut short between its two calls, or whose
restoration fails, leaves a role that neither cleanup nor quarantine can finish
(`stranded`). The live verification before a qualification is one step.
`docs/runbooks/secret-rotation-and-revocation.md` is followed in two things the code does
not enforce: cleanup and qualification wait until Terraform has let the role go, and one
dedicated operator applies quarantines, one at a time (`Dedicated`). Without the second,
`NoSessionAfterQualification` fails: of two overlapping quarantines the later closes the
trust policy, the role still agrees with the cutoff of the earlier, and sessions that began
between the two are not counted by its evidence. `MaxSessions` bounds how many sessions live
at a time, for the run only.

### TaskInventory

The cluster (`Deploy`, the scheduler, operators, containers that end, a history that
forgets) moves between any two calls of the verifier, which lists the RUNNING tasks, then
the STOPPED ones, then the same of each service, and describes them all. A revision stands
for images, roles and secrets; `Exact` are those of the release. The checks of services'
network, of the circuit breaker and over HTTPS are left out. A task that starts after the
cluster was listed is not seen: the property speaks of the tasks that there were.

## 3. Model-checking runs

| Run | Shows |
|---|---|
| `jobs_safety` | Two workers, two reviewers, three attempts, every fault, one crash: exclusive processing, single ingestion, exact review completion, fencing by token, settled rows stay settled, and the refinement of `EvidenceLifecycle`. |
| `jobs_crash` | Liveness under every fault, refused commits and as many crashes as attempts: the only job that never settles is one whose last attempt died with its worker. |
| `jobs_resume` | A crash that leaves an attempt costs nothing: the file is ingested in the end. With this one worker every pair of live contradicting claims of different files is recorded. On the other side, the two processes of a release: it is ready only on the word of a live or lately dead one, and a worker without authority stops. |
| `handoff` | Every order of handoff operations and upstream changes, with any reference of an opportunity: packages rest on current sources, the service stays within the database's triggers and unique indexes, publication ends only for a cause. |
| `chain_races` | Two overlapping requests: one approved case, one current packet, no staled row comes back, and an open row rests on approved rows and current assertions unless it was raced. |
| `lifecycle` | Two deletions against two uploads of one file, a writer, retention and exports, under every fault: deletions exclude each other, the receipt agrees with the engagement, what was written under the lock was exported, no upload removes the object of another, a qualified engagement leaves no object, and a deletion ends unless its process dies. |
| `customer_authority` | A retrieval and a worker against owner, administrator and clock: what is sent or committed rests on an authority that held when last decided upon; one live token; one call of the model at most after the authority has ended. Three transactions in every order of their locks: deadlocks need one of five operations. |
| `platform` | Three small systems: the deny on a retired role outlives its sessions and survives a failed deletion, and no session is issued after a qualification; an attempt makes one session, and only of an active operator; the verifier misses no task. |

Bounds. Two workers or requests are enough for every pairwise race, and the properties speak
of pairs; `DeliveryChain` was also explored with three requests, one case and
one packet. Three attempts have a first, a middle and a last one; the runs that look for a
counterexample need two. Two files and three claims give a pair across files, a pair within
one, a file with several claims and one with one. Five handoff rows (`MaxRows`), at most two
of a kind, allow a package on one of each and a successor or competitor of any one of them,
and two opportunity keys both a competitor and a new version of the same one; six rows were
explored too. An opportunity refers to one upstream version or handoff row (`MaxCited`)
beside its workflow, or to none: each reference is validated on its own, and the theorems
hold for any number. In the chain, a second claim, current workflow, case and packet are
what a change in the middle of the chain produces; `VIEW Seen` leaves history that no longer
matters out of the states of `chain_races`. `MaxCrashes` and `MaxVersion` bound counters the
code leaves unbounded. In `CustomerAuthority` two segments have a call before and a call
after a withdrawal, two grants are one and its replacement, and deadlines fall before, at
and after each other within three times. Three transactions see every cycle of three locks,
and the tables are empty or all populated. In `jobs_resume` two instances are a release's
old and new process. In `platform`, two operators and one drift interleave two commands with
Terraform in between, where a propagation takes two times and a session four (three and five
were explored too), three callbacks on two attempts repeat a state, and three tasks are one
of a service, its replacement and one of neither; the inventory was also explored with two
services and four tasks. In the life cycle, two uploads of one file race for its digest, two
deletions are one and its rival or its retry, `MaxTime` 1 has a time before and a time after
the deadline, and `MaxExports` 2 an export that is current and one that is not. Runs set
`CHECK_DEADLOCK FALSE` because files, claims, rows, processes and tasks are finite and used
up: the system then has nothing left to do. In `customer_authority` something can always
happen next, so deadlock is checked. Type invariants are conjuncts of the inductive
invariants of section 5.

Fairness. `FairSpec` assumes that a worker that is not idle takes its next step and an idle
one polls (`Worker.run` loops over `_process_one`, and the process is restarted), and that
leases and backoffs run out (the clock). Nothing is assumed of operators, of faults or of
crashes; no fairness is assumed for uploads. `LeaseExpires` happens to a worker that is
still there only when slow workers are among the `Faults` of a run. In `DataLifecycle`, a
request that has begun runs on: an upload that has put its object commits, rolls back or is
lost, and a deletion takes its next step. Both are straight code that waits only for the row
lock, which its holder gives up when it ends. `WorkerFairness` says that the two threads of
a live process run on and that a timed wait ends; nothing is assumed of when authority comes
or goes. `WorkSpec` conjoins it with the fairness of `EvidenceJobs`: the side that a
behaviour does not take stays where it begins, before a file is queued or a process starts,
and there no fair step is enabled.

## 4. Disagreements between code and documents

Each is a run that is expected to fail, on one property.

| Run | Document | Code |
|---|---|---|
| `jobs_stranded` | a crashed worker's job resumes or fails visibly | a crash in the last attempt leaves the job running for ever: `lease_next_job` wants `attempts < max_attempts` and nothing else fails it |
| `jobs_one_file` | a contradictory claim creates a conflict | two contradicting claims of one file are inserted as a pair twice, the unique constraint refuses it, and the file is never ingested |
| `chain_edit` | approved versions are immutable | the status of a workflow is read unlocked before a step is changed, so an edit in flight changes a version that has been approved in the meantime |
| `lifecycle_orphan` | a permanent deletion removes all versions from the engagement's prefix | without a qualification, an upload authorised before the deletion puts its object after the purge has been verified |

`DeliveryChain` shows another, which has no run of its own. A model change during generation
does not always mark the output stale, although the documentation says so. A current
workflow misses an acceptance between its read of the assertions and its insert. In the same
way `generate_target_workflow` reads its source, and `generate_implementation_packet` its
three, without a lock, so a target or a current packet can rest on versions that a request
in flight has staled. These are the raced rows: `FreshUnlessRaced` without `raced` fails
within thirteen steps of two requests. It also shows that nothing worse happens: approvals,
recalculations and later changes leave no other row behind.

In `FactoryHandoff`, an opportunity may cite the selected rival it is compared with, or the
rival's assessment. Its selection stales the rival, and from then on its own sources are no
longer valid, so no assessment of it can be created (`RivalsGone`); it has to be scored
again without the reference. No document speaks of this.

A worker that outlives its lease before it locks the row fails the job for good although
attempts are left (`lease_lost` in `GivesUp`): `public_job_failure` classifies the error so.
Two workers that ingest contradicting files together do not see each other's claims, so
`ConflictsRecorded` fails with two workers; the deployment runs one (`desired_count` in
`ecs.tf`), but for the time in which a release replaces another.

Four more were met in `DataLifecycle`, for which no document promises the opposite. A crash
between the transactions of a deletion leaves the engagement in `deletion_processing`, which
a retry refuses (the exception in `DeletionEndsOrDies`). A worker that records its failure
after a purge makes every export stale, and as a new export needs an active engagement and
all its objects, a deletion that failed then cannot be retried. Two retention requests can
set the deadline back to the earlier of theirs, and one in flight can extend the retention
of an engagement that is being deleted. An acknowledgement that is lost leaves the receipt
`failed` although the engagement is gone, which `ReceiptTracksStatus` allows.

## 5. Proofs

Checked by TLAPS for every value of the constants, under the named assumptions of each
module, which TLC evaluates in the runs: counts and bounds are naturals, kinds of rows or of
writers are disjoint, what is finite in a run stays finite. Every invariant and every action
property of a passing run is stated by a theorem; one of them assumes a single worker and
says so.

`EvidenceJobsProofs`, under `ConstantsAssumption` and `ConflictsAssumption` (a conflict has
a claim): `TypeCorrect`, `InvHolds`, and from it `ProcessingIsExclusive`,
`IngestionHappensOnce`, `AssetsTrackJobs`, `ReviewsCloseExactly` and
`PipelineImplementsLifecycle`. The properties are not inductive on their own: that a commit
does not ingest twice depends on what the worker knows, so `Inv` adds that tokens count
attempts (`LeasesAgree`), that workers with the same job have different tokens and a worker
that holds the row lock owns the current one (`HoldersAgree`), and that what a reviewer has
locked and concluded is still true at its commit (`ReviewsAgree`). The step lemmas go action
by action; `RowsStep` rests on the other three. The refinement uses `Inv` to show that only
commits are visible steps and that each is one of `EvidenceLifecycle`. Two action properties
follow from `Inv`: `AttemptsAreFenced`, for only a commit and a failure report take a job
out of running and both check the token under the row lock (`EndsUnderItsToken`), and
`SettledAndDecided`. `ContradictionsAreRecorded` assumes `OneWorker`, without which it is
false (section 4). Its invariant is `DetectionHolds`: what a staged worker has detected is
all there is to record, because nobody else ingests and no review makes a claim live again
(`OnlyCommitsRevive`).

`FactoryHandoffProofs`, under `RowsAssumption`: `HandoffTypes`, `HandoffInvariant`, and from
it `HandoffCurrent`, `HandoffImplementsTriggers` and `HandoffPublication`. `Inv` adds the
shape of what a row is made from (`SourcesShaped`: a package, its readiness assessment and
its opportunity agree on the customer model), one row in force of each kind, and that open
opportunities and assessments rest on rows in force and on the upstream versions they pin or
refer to. A model that an open opportunity cites is its own, since only one is approved.
Rivals and their assessments are the exception (`RivalsGone`): they may go without the
opportunity that cites them, but once it is selected they have gone, nothing is assessed
against it then, and so no package rests on it. Shape is what makes the cascade complete:
`_stale_customer_model` reaches a package over its model, and `_stale_readiness` and
`_stale_opportunity` over the other two, so no open row outlives any of its sources.
`CascadeKeeps` says this once for every seed; the upstream changes are instances of it
(`UpstreamInv`).

`DataLifecycleProofs`, under `LifecycleAssumption` (uploads and other writers differ, bounds
are naturals): `LifecycleTypes`, `LifecycleInvariant`, and from it `DeletionIsExclusive`,
`ReceiptIsTruthful`, `GuardedDataIsExported`, `AssetsAreReadable` and `QualifiedPurge`. The
argument: only deletions move the status, one at a time (`DeletionsAgree`), and one starts
only while no qualified upload has the engagement locked (`UploadsAgree`); so from then on
nothing that looks under the lock adds a row or an object, and what the purge finds empty
stays empty to the second transaction.

`CustomerAuthorityProofs`, under `AuthorityAssumption`: `AuthorityInvariant`, and from it
`OutputsAreAuthorised`, `OneLiveGrant` and `ExposureIsBounded`. While somebody has the
engagement locked everything but the clock stands still, so a decision made under the lock
is good to the commit; authenticated retrievals were authenticated under it
(`AuthenticationHolds`). That a worker is late once at most needs `LateAgrees`: it is
cleared for a call only by a check that found the authority there.

`WorkerRuntimeProofs`, under `WorkerAssumption`: `RuntimeInvariant` and `ReadinessIsEarned`.
A process that has ended writes nothing, so its row is at least as old as its end
(`LastWords`), and its thread has ended before it says STOPPED or the join has timed out
(`ThreadsAgree`).

`PlatformProofs` has three parts, one for each of the remaining modules.

- `OperatorSessions`, under `SessionsAssumption`: `LoginInvariant`, `AttemptsAreSingleUse`
  and `SessionsAreOfTheActive`. The lock on the attempt is kept until it is gone, and
  gone it stays (`AttemptsAgree`); the operator's row is locked from enrollment to the
  session (`EnrollmentsAgree`).
- `TaskInventory`, under `InventoryAssumption`: `InventoryInvariant` and
  `InventoryIsComplete`, for any number of services and tasks. Reading RUNNING before
  STOPPED is what matters: a task is wanted when the first list is read and in it, or
  is not and never will be, and then it is in the second list unless it is gone
  (`NothingMissed`). `TasksMove` says this of the cluster once for all its actions, and
  `ServicesListed` bounds what a service still runs by its count.
- `RoleQuarantine`, under `QuarantineAssumption`: `QuarantineInvariant`, `QuarantineTypes`,
  and from them `DenyOutlives`, `DeletionRestores` and `NoSessionAfter`. A role that
  Terraform has let go, whose trust is closed for long enough and that has no session
  (`Dead`) stays so, whatever commands still run. It gets there because a role without
  a command in flight keeps its deny (`CommandsAgree`), and every session of a closed role
  began before `settled`, which is at most a propagation after the deny
  (`SessionsBounded`): when a receipt's expiry is past, so is the last session.

`DeliveryChainProofs`, under `ChainAssumption`, for any number of overlapping requests:
`ChainInvariant`, and from it `ChainTypes`, `OneCaseApproved`, `OnePacketCurrent` and
`StaleStays`. The invariant says what a request knows of rows others may change: what it has
locked is its own, the row it is about to approve is still a draft in its hands
(`LocksAgree`), and the numbers of each kind have no gaps (`NumbersClosed`). With the unique
index the latter is what makes two generations of a packet safe: if another has committed in
the meantime under the same number or a larger one, the number a request has taken is used
and its insert is refused; and a current packet with a smaller number is among those that
its cascade stales (`PacketsMatched`). From it and `FreshInvariant` follows
`ChainStaysFresh`. What a request has read is still so unless it has been overtaken
(`StillReads`); and a cascade that has taken its snapshot with the source of an open row in
it has the row in it too, unless the row was raced (`Reaches`), because what a cascade
matches is closed downstream (`ScopeClosed`) and a row that comes after the snapshot comes
from a request that the cascade takes a source from. The re-check after the lock wait loses
nothing, for a row it drops is stale already.

`LockOrderProofs`, for any number of requests and any contents of the tables:
`LocksInvariant`, `AggregateFirstSafe` and `DeadlocksKnown`. The invariant is that granted
locks do not conflict and that a transaction holds only what its plan has asked for so far.
Each plan but that of `deactivate_service` is `Orderly`: rows that depend on the engagement
come after its lock, and operators are only shared. As a cycle is minimal, each member
blocks another one; one that locks the engagement first would have to be blocked over a row
that only a holder of the engagement locks. For the second theorem the operations that are
left take their locks up a `Rank` of four until they have the engagement, so everybody in a
cycle would wait for somebody of a higher rank.

Left to TLC: liveness under fairness (`JobsSettleOrStrand`, `EvidenceIngested`,
`DeletionEndsOrDies`, `AuthorityLossStops`), for TLAPS has no proof rules for it here, and
the violations of section 4.

## 6. Plan

1. Which rows the upstream part of `FactoryHandoff`, that takes requests one at a time, shares
   with a `DeliveryChain` in which they overlap: a refinement up to the raced rows.
2. Safety halves of the liveness properties: that a job which cannot settle is one whose last
   attempt died (`Stranded`), as an invariant, and that a deletion that is not taken up
   again has lost its process.
3. Pure algorithms: readiness gates and opportunity scoring, evaluation, the economic
   formulas with their scenarios, against reference definitions over small inputs.

New modules share a run where their questions allow, and the runs of section 4 give way
first: once a disagreement is settled in the code or in the document, its run has done its
work.

## 7. Not modelled

The text of documents and the rendering of artifacts, parsing and the hosted extractor (a
constant and a fault), the validation of deployment qualification documents and of the
evidence that the scripts collect about images, network, DNS, TLS and secrets (stateless
chains of field checks), digests and identities, telemetry and audit rows (nothing reads
them back), row-level security except where a worker's statements depend on its binding,
settings, logging and seeding, the web cockpit (it holds no state the API does not),
Terraform and the infrastructure. `PROJECT.json` gives the reason for each component.
