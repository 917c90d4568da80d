---------------------------- MODULE EvidenceJobs ----------------------------
(***************************************************************************)
(* The evidence pipeline of one engagement: uploads queue ingestion jobs,  *)
(* worker processes lease and process them, and operators review the       *)
(* claims a job extracted.  The jobs, assets, claims and contradictions    *)
(* are rows of a PostgreSQL database under READ COMMITTED: an action that  *)
(* spans several statements of one transaction is split wherever another   *)
(* transaction can commit in between, and what a transaction has written   *)
(* but not committed is kept in the variables of its process.              *)
(*                                                                         *)
(* An asset and its only job are created together, so the asset is named   *)
(* by its job.  Jobs are numbered in the order of Job.created_at.          *)
(***************************************************************************)
EXTENDS Naturals, FiniteSets

CONSTANTS
    JobCount,       \* how many distinct files can be uploaded
    Workers,        \* worker processes
    Reviewers,      \* operators' review requests running at the same time
    Claims,         \* the claims the extractor finds in all the files
    NoClaim,        \* the claim of a review request that is not running
    Source,         \* Source[c]: the job whose file claim c is extracted from
    Conflicts,      \* pairs {c, d}: approval rules of one subject that name
                    \* different approvers
    MaxAttempts,    \* Job.max_attempts
    MaxCrashes,     \* bound on worker crashes
    Faults          \* what can go wrong: "transient" and "permanent"
                    \* failures of processing, "slow" workers that outlive
                    \* their lease

Jobs == 1 .. JobCount
NoJob == 0
Tokens == 0 .. MaxAttempts
Decisions == {"accepted", "rejected", "deferred"}
Extracted(j) == {c \in Claims : Source[c] = j}

ASSUME ConstantsAssumption ==
    /\ JobCount \in Nat
    /\ MaxAttempts \in Nat \ {0}
    /\ MaxCrashes \in Nat
    /\ Source \in [Claims -> Jobs]
    /\ NoClaim \notin Claims
    /\ Conflicts \subseteq SUBSET Claims
    /\ Faults \subseteq {"transient", "permanent", "slow"}

ASSUME ConflictsAssumption == {} \notin Conflicts

VARIABLES
    jobStatus,      \* Job.status, "absent" before the upload
    attempts,       \* Job.attempts
    leaseToken,     \* Job.lease_token: the attempt it was minted for
    lease,          \* Job.leased_until: none, in the future, in the past
    waiting,        \* jobs whose available_at lies in the future
    assetStatus,    \* EvidenceAsset.status
    extractions,    \* ExtractionRun rows with status complete, per asset
    claimStatus,    \* CandidateClaim.status, "absent" before ingestion
    contradictions, \* Contradiction rows
    pc,             \* where each worker stands in _process_one
    held,           \* the job it leased
    heldToken,      \* the lease token it was given
    reused,         \* it found the asset's segments already there
    found,          \* the pairs its _detect_contradictions selected
    reviewPc,       \* where each review request stands
    reviewing,      \* the claim whose row it locked
    decision,       \* the status it wrote and has not committed
    closes,         \* it also set the asset to complete
    crashes

jobRows == <<jobStatus, attempts, leaseToken, lease, waiting>>
evidence == <<assetStatus, extractions, claimStatus, contradictions>>
workerVars == <<pc, held, heldToken, reused, found, crashes>>
reviewVars == <<reviewPc, reviewing, decision, closes>>
vars == <<jobRows, evidence, workerVars, reviewVars>>

JobStatuses == {"absent", "queued", "running", "completed", "failed"}
AssetStatuses == {"absent", "queued", "needs_review", "complete", "failed"}
WorkerPcs == {"idle", "leased", "processing", "staged",
              "transient", "permanent", "lease_lost"}

(* Every row keeps to the statuses of its table and every process to its    *)
(* program; no job is leased more often than max_attempts allows.           *)
TypeOK ==
    /\ jobStatus \in [Jobs -> JobStatuses]
    /\ attempts \in [Jobs -> 0 .. MaxAttempts]
    /\ leaseToken \in [Jobs -> Tokens]
    /\ lease \in [Jobs -> {"none", "live", "expired"}]
    /\ waiting \subseteq Jobs
    /\ assetStatus \in [Jobs -> AssetStatuses]
    /\ extractions \in [Jobs -> Nat]
    /\ claimStatus \in [Claims -> {"absent", "candidate"} \cup Decisions]
    /\ contradictions \subseteq Conflicts
    /\ pc \in [Workers -> WorkerPcs]
    /\ held \in [Workers -> Jobs \cup {NoJob}]
    /\ \A w \in Workers : pc[w] # "idle" => held[w] \in Jobs
    /\ heldToken \in [Workers -> Tokens]
    /\ reused \in [Workers -> BOOLEAN]
    /\ found \in [Workers -> SUBSET Conflicts]
    /\ reviewPc \in [Reviewers -> {"idle", "decided", "checked"}]
    /\ reviewing \in [Reviewers -> Claims \cup {NoClaim}]
    /\ decision \in [Reviewers -> Decisions]
    /\ closes \in [Reviewers -> BOOLEAN]
    /\ crashes \in 0 .. MaxCrashes

Init ==
    /\ jobStatus = [j \in Jobs |-> "absent"]
    /\ attempts = [j \in Jobs |-> 0]
    /\ leaseToken = [j \in Jobs |-> 0]
    /\ lease = [j \in Jobs |-> "none"]
    /\ waiting = {}
    /\ assetStatus = [j \in Jobs |-> "absent"]
    /\ extractions = [j \in Jobs |-> 0]
    /\ claimStatus = [c \in Claims |-> "absent"]
    /\ contradictions = {}
    /\ pc = [w \in Workers |-> "idle"]
    /\ held = [w \in Workers |-> NoJob]
    /\ heldToken = [w \in Workers |-> 0]
    /\ reused = [w \in Workers |-> FALSE]
    /\ found = [w \in Workers |-> {}]
    /\ reviewPc = [r \in Reviewers |-> "idle"]
    /\ reviewing = [r \in Reviewers |-> NoClaim]
    /\ decision = [r \in Reviewers |-> "accepted"]
    /\ closes = [r \in Reviewers |-> FALSE]
    /\ crashes = 0

-----------------------------------------------------------------------------
(* Rows and locks                                                          *)

Settled(j) == jobStatus[j] \in {"completed", "failed"}

(* Mutant: _lock_active_lease without with_for_update.                     *)
LockedNever(j) == FALSE

(* Processing keeps the job row locked from _lock_active_lease to commit.  *)
Locked(j) == \E w \in Workers : pc[w] \in {"processing", "staged"} /\ held[w] = j

(* Mutant: no recovery of expired leases.                                  *)
LeasableQueued(j) ==
    /\ j \notin waiting
    /\ attempts[j] < MaxAttempts
    /\ jobStatus[j] = "queued"

(* The where clause of lease_next_job; skip_locked passes over locked rows. *)
Leasable(j) ==
    /\ j \notin waiting
    /\ attempts[j] < MaxAttempts
    /\ \/ jobStatus[j] = "queued"
       \/ jobStatus[j] = "running" /\ lease[j] = "expired"
    /\ ~Locked(j)

(* Mutant: the lease token is not compared.                                *)
OwnsAnyAttempt(w) == jobStatus[held[w]] = "running"

(* The row still shows the attempt the worker leased.                      *)
OwnsAttempt(w) ==
    /\ jobStatus[held[w]] = "running"
    /\ leaseToken[held[w]] = heldToken[w]

(* A rollback discards what the transaction staged; the worker keeps the   *)
(* lease to report the failure under.                                      *)
RollBack(w, next) ==
    /\ pc' = [pc EXCEPT ![w] = next]
    /\ reused' = [reused EXCEPT ![w] = FALSE]
    /\ found' = [found EXCEPT ![w] = {}]
    /\ UNCHANGED <<held, heldToken>>

(* The worker returns to its polling loop.                                 *)
Release(w) ==
    /\ pc' = [pc EXCEPT ![w] = "idle"]
    /\ held' = [held EXCEPT ![w] = NoJob]
    /\ heldToken' = [heldToken EXCEPT ![w] = 0]
    /\ reused' = [reused EXCEPT ![w] = FALSE]
    /\ found' = [found EXCEPT ![w] = {}]

EndReview(r) ==
    /\ reviewPc' = [reviewPc EXCEPT ![r] = "idle"]
    /\ reviewing' = [reviewing EXCEPT ![r] = NoClaim]
    /\ decision' = [decision EXCEPT ![r] = "accepted"]
    /\ closes' = [closes EXCEPT ![r] = FALSE]

LeaseActive(w) == OwnsAttempt(w) /\ lease[held[w]] = "live"

(* Mutant: new claims are compared with accepted ones only.                *)
ComparedWithAccepted(j) ==
    Extracted(j) \cup {d \in Claims : claimStatus[d] = "accepted"}

(* The live claims the new ones of job j are compared with.                *)
ComparedWith(j) ==
    Extracted(j) \cup {d \in Claims : claimStatus[d] \in {"candidate", "accepted"}}

(* The pairs _detect_contradictions selects for the claims of job j.       *)
DetectedPairs(j) ==
    {p \in Conflicts : p \subseteq ComparedWith(j) /\ p \cap Extracted(j) # {}}

(* A pair of two new claims is met from either side, and the first row is  *)
(* still unflushed when the second side looks for a duplicate.             *)
InsertedTwice(w) == \E p \in found[w] : p \subseteq Extracted(held[w])

(* Mutant: the pending query runs before the decision is flushed.          *)
HasPendingUnflushed(j, decided) ==
    \E c \in Extracted(j) : claimStatus[c] = "candidate"

(* The pending query of _complete_existing_job and of                      *)
(* _complete_evidence_review_if_decided, which has flushed its decision.   *)
HasPending(j, decided) ==
    \E c \in Extracted(j) \ decided : claimStatus[c] = "candidate"

(* Mutant: the asset is read without with_for_update.                      *)
AssetLockedNever(j, r) == FALSE

AssetLocked(j, r) ==
    \E q \in Reviewers \ {r} : reviewPc[q] = "checked" /\ Source[reviewing[q]] = j

(* Mutant: the claim is read without with_for_update.                      *)
ClaimLockedNever(c) == FALSE

ClaimLocked(c) == \E q \in Reviewers : reviewPc[q] # "idle" /\ reviewing[q] = c

-----------------------------------------------------------------------------
(* Uploads: create_evidence_asset commits the asset and its job together.  *)

CreateEvidenceAsset(j) ==
    /\ jobStatus[j] = "absent"
    /\ jobStatus' = [jobStatus EXCEPT ![j] = "queued"]
    /\ assetStatus' = [assetStatus EXCEPT ![j] = "queued"]
    /\ UNCHANGED <<attempts, leaseToken, lease, waiting, extractions,
                   claimStatus, contradictions, workerVars, reviewVars>>

-----------------------------------------------------------------------------
(* Workers: one transaction leases, a second processes, a third records a  *)
(* failure of the second.                                                  *)

LeaseNextJob(w, j) ==
    /\ pc[w] = "idle"
    /\ Leasable(j)
    /\ \A k \in Jobs : Leasable(k) => j <= k
    /\ jobStatus' = [jobStatus EXCEPT ![j] = "running"]
    /\ attempts' = [attempts EXCEPT ![j] = @ + 1]
    /\ leaseToken' = [leaseToken EXCEPT ![j] = attempts[j] + 1]
    /\ lease' = [lease EXCEPT ![j] = "live"]
    /\ pc' = [pc EXCEPT ![w] = "leased"]
    /\ held' = [held EXCEPT ![w] = j]
    /\ heldToken' = [heldToken EXCEPT ![w] = attempts[j] + 1]
    /\ UNCHANGED <<waiting, evidence, reused, found, crashes, reviewVars>>

LockActiveLease(w) ==
    /\ pc[w] = "leased"
    /\ ~Locked(held[w])
    /\ pc' = [pc EXCEPT ![w] = IF LeaseActive(w) THEN "processing" ELSE "lease_lost"]
    /\ UNCHANGED <<jobRows, evidence, held, heldToken, reused, found, crashes,
                   reviewVars>>

(* Everything process_job reads and stages once extraction has succeeded.  *)
StageIngestion(w) ==
    /\ pc[w] = "processing"
    /\ LET j == held[w]
           again == extractions[j] > 0
       IN /\ reused' = [reused EXCEPT ![w] = again]
          /\ found' = [found EXCEPT ![w] = IF again THEN {} ELSE DetectedPairs(j)]
    /\ pc' = [pc EXCEPT ![w] = "staged"]
    /\ UNCHANGED <<jobRows, evidence, held, heldToken, crashes, reviewVars>>

(* An exception in process_job, a late authority check included.           *)
ProcessingFails(w, kind) ==
    /\ kind \in Faults
    /\ \/ pc[w] = "leased" /\ kind = "transient"
       \/ pc[w] \in {"processing", "staged"} /\ kind \in {"transient", "permanent"}
    /\ RollBack(w, kind)
    /\ UNCHANGED <<jobRows, evidence, crashes, reviewVars>>

(* The commit violates the unique constraint contradiction_claim_pair.     *)
CommitRefused(w) ==
    /\ pc[w] = "staged"
    /\ InsertedTwice(w)
    /\ RollBack(w, "transient")
    /\ UNCHANGED <<jobRows, evidence, crashes, reviewVars>>

CommitIngestion(w) ==
    /\ pc[w] = "staged"
    /\ ~InsertedTwice(w)
    /\ LET j == held[w]
           fresh == IF reused[w] THEN {} ELSE Extracted(j)
           pending == fresh # {} \/ HasPending(j, {})
       IN /\ jobStatus' = [jobStatus EXCEPT ![j] = "completed"]
          /\ lease' = [lease EXCEPT ![j] = "none"]
          /\ claimStatus' = [c \in Claims |->
                               IF c \in fresh THEN "candidate" ELSE claimStatus[c]]
          /\ assetStatus' = [assetStatus EXCEPT ![j] =
                               IF pending THEN "needs_review" ELSE "complete"]
          /\ extractions' = [extractions EXCEPT ![j] = IF reused[w] THEN @ ELSE @ + 1]
    /\ contradictions' = contradictions \cup found[w]
    /\ Release(w)
    /\ UNCHANGED <<attempts, leaseToken, waiting, crashes, reviewVars>>

(* Mutant: one attempt too many is promised a retry.                       *)
GivesUpLate(w) ==
    pc[w] \in {"permanent", "lease_lost"} \/ attempts[held[w]] > MaxAttempts

(* fail_job gives up on a failure that is not retryable: job_lease_lost is *)
(* classified so.                                                          *)
GivesUp(w) == pc[w] \in {"permanent", "lease_lost"} \/ attempts[held[w]] >= MaxAttempts

(* Mutant: the asset is shown failed while its job is requeued.            *)
AssetFailedAtOnce(w) == "failed"

AssetAfterFailure(w) == IF GivesUp(w) THEN "failed" ELSE "queued"

FailJob(w) ==
    /\ pc[w] \in {"transient", "permanent", "lease_lost"}
    /\ OwnsAttempt(w)
    /\ LET j == held[w]
       IN /\ jobStatus' = [jobStatus EXCEPT ![j] =
                              IF GivesUp(w) THEN "failed" ELSE "queued"]
          /\ assetStatus' = [assetStatus EXCEPT ![j] = AssetAfterFailure(w)]
          /\ lease' = [lease EXCEPT ![j] = "none"]
          /\ waiting' = IF GivesUp(w) THEN waiting ELSE waiting \cup {j}
    /\ Release(w)
    /\ UNCHANGED <<attempts, leaseToken, extractions, claimStatus,
                   contradictions, crashes, reviewVars>>

(* fail_job finds the attempt superseded and returns False.                *)
FailSuperseded(w) ==
    /\ pc[w] \in {"transient", "permanent", "lease_lost"}
    /\ ~OwnsAttempt(w)
    /\ Release(w)
    /\ UNCHANGED <<jobRows, evidence, crashes, reviewVars>>

(* The process dies: its transaction rolls back and a new process polls.   *)
Crash(w) ==
    /\ pc[w] # "idle"
    /\ crashes < MaxCrashes
    /\ crashes' = crashes + 1
    /\ Release(w)
    /\ UNCHANGED <<jobRows, evidence, reviewVars>>

-----------------------------------------------------------------------------
(* The clock                                                               *)

Abandoned(j) ==
    \A w \in Workers : pc[w] # "idle" /\ held[w] = j => heldToken[w] # leaseToken[j]

LeaseExpires(j) ==
    /\ lease[j] = "live"
    /\ "slow" \in Faults \/ Abandoned(j)
    /\ lease' = [lease EXCEPT ![j] = "expired"]
    /\ UNCHANGED <<jobStatus, attempts, leaseToken, waiting, evidence,
                   workerVars, reviewVars>>

BackoffElapses(j) ==
    /\ j \in waiting
    /\ waiting' = waiting \ {j}
    /\ UNCHANGED <<jobStatus, attempts, leaseToken, lease, evidence,
                   workerVars, reviewVars>>

-----------------------------------------------------------------------------
(* Reviews: review_claim locks the claim, writes the decision, then locks  *)
(* the asset to see whether any claim is left, and commits.                *)

DecideClaim(r, c, d) ==
    /\ reviewPc[r] = "idle"
    /\ claimStatus[c] = "candidate"
    /\ ~ClaimLocked(c)
    /\ reviewPc' = [reviewPc EXCEPT ![r] = "decided"]
    /\ reviewing' = [reviewing EXCEPT ![r] = c]
    /\ decision' = [decision EXCEPT ![r] = d]
    /\ UNCHANGED <<jobRows, evidence, workerVars, closes>>

CompleteReviewIfDecided(r) ==
    LET j == Source[reviewing[r]]
    IN /\ reviewPc[r] = "decided"
       /\ ~AssetLocked(j, r)
       /\ closes' = [closes EXCEPT ![r] =
                       /\ assetStatus[j] = "needs_review"
                       /\ ~HasPending(j, {reviewing[r]})]
       /\ reviewPc' = [reviewPc EXCEPT ![r] = "checked"]
       /\ UNCHANGED <<jobRows, evidence, workerVars, reviewing, decision>>

CommitReview(r) ==
    /\ reviewPc[r] = "checked"
    /\ claimStatus' = [claimStatus EXCEPT ![reviewing[r]] = decision[r]]
    /\ assetStatus' = IF closes[r]
                      THEN [assetStatus EXCEPT ![Source[reviewing[r]]] = "complete"]
                      ELSE assetStatus
    /\ EndReview(r)
    /\ UNCHANGED <<jobRows, extractions, contradictions, workerVars>>

(* The request fails, or the database aborts it as a deadlock victim.      *)
AbortReview(r) ==
    /\ reviewPc[r] # "idle"
    /\ EndReview(r)
    /\ UNCHANGED <<jobRows, evidence, workerVars>>

-----------------------------------------------------------------------------
WorkerStep(w) ==
    \/ LockActiveLease(w)
    \/ StageIngestion(w)
    \/ CommitRefused(w)
    \/ CommitIngestion(w)
    \/ FailJob(w)
    \/ FailSuperseded(w)

Next ==
    \/ \E j \in Jobs : CreateEvidenceAsset(j)
    \/ \E w \in Workers, j \in Jobs : LeaseNextJob(w, j)
    \/ \E w \in Workers : WorkerStep(w)
    \/ \E w \in Workers, kind \in Faults : ProcessingFails(w, kind)
    \/ \E w \in Workers : Crash(w)
    \/ \E j \in Jobs : LeaseExpires(j)
    \/ \E j \in Jobs : BackoffElapses(j)
    \/ \E r \in Reviewers, c \in Claims, d \in Decisions : DecideClaim(r, c, d)
    \/ \E r \in Reviewers : CompleteReviewIfDecided(r)
    \/ \E r \in Reviewers : CommitReview(r)
    \/ \E r \in Reviewers : AbortReview(r)

Spec == Init /\ [][Next]_vars

(* A worker polls and carries on until it crashes, its replacement does    *)
(* too, and the clock advances.  Nothing makes an operator review.         *)
Fairness ==
    /\ \A w \in Workers : WF_vars(WorkerStep(w))
    /\ \A w \in Workers : WF_vars(\E j \in Jobs : LeaseNextJob(w, j))
    /\ \A j \in Jobs : WF_vars(LeaseExpires(j)) /\ WF_vars(BackoffElapses(j))

FairSpec == Spec /\ Fairness

-----------------------------------------------------------------------------
(* Properties                                                              *)

(* Two workers never work on the same job at once, however late a stalled  *)
(* worker wakes up: skip_locked and the row lock of _lock_active_lease.    *)
ExclusiveProcessing ==
    \A v, w \in Workers :
        /\ pc[v] \in {"processing", "staged"}
        /\ pc[w] \in {"processing", "staged"}
        /\ held[v] = held[w]
        => v = w

(* Retries, crashes and superseded workers never ingest a file twice, and  *)
(* no failed or unfinished job leaves claims behind: the claims of a file  *)
(* are there exactly when its one complete extraction run is.              *)
IngestedOnce ==
    \A j \in Jobs :
        /\ extractions[j] = IF jobStatus[j] = "completed" THEN 1 ELSE 0
        /\ \A c \in Extracted(j) :
              claimStatus[c] = "absent" <=> jobStatus[j] # "completed"

(* The status an operator sees on the asset agrees with its job after      *)
(* every interleaving of workers and reviewers.                            *)
AssetTracksJob ==
    \A j \in Jobs :
        /\ jobStatus[j] = "absent" <=> assetStatus[j] = "absent"
        /\ jobStatus[j] \in {"queued", "running"} <=> assetStatus[j] = "queued"
        /\ jobStatus[j] = "completed" <=> assetStatus[j] \in {"needs_review", "complete"}
        /\ jobStatus[j] = "failed" <=> assetStatus[j] = "failed"

(* An asset leaves needs_review with the commit of its last decision and   *)
(* not before, even when the last claims are decided at the same time:     *)
(* the asset lock of _complete_evidence_review_if_decided.                 *)
ReviewStateExact ==
    \A j \in Jobs :
        /\ assetStatus[j] = "needs_review" => HasPending(j, {})
        /\ assetStatus[j] = "complete" => ~HasPending(j, {})

(* Two live claims that contradict each other have a contradiction row.    *)
ConflictsRecorded ==
    \A p \in Conflicts :
        (\A c \in p : claimStatus[c] \in {"candidate", "accepted"}) => p \in contradictions

(* Why the properties above hold: the state of every process agrees with   *)
(* the rows it holds locks on.  This is the inductive invariant of the     *)
(* proofs.                                                                 *)
LeasesAgree ==
    \A j \in Jobs :
        /\ leaseToken[j] = attempts[j]
        /\ lease[j] # "none" => jobStatus[j] = "running"

Working(w) == pc[w] # "idle"

HoldersAgree ==
    /\ \A w \in Workers : Working(w) => heldToken[w] <= leaseToken[held[w]]
    /\ \A v, w \in Workers : Working(v) /\ Working(w) /\ held[v] = held[w]
                              => v = w \/ heldToken[v] # heldToken[w]
    /\ \A w \in Workers : pc[w] \in {"processing", "staged"} => OwnsAttempt(w)
    /\ \A w \in Workers : pc[w] = "staged" => ~reused[w]

UnderReview(r) == reviewPc[r] # "idle"

ReviewsAgree ==
    /\ \A r \in Reviewers : UnderReview(r) => /\ reviewing[r] \in Claims
                                             /\ claimStatus[reviewing[r]] = "candidate"
    /\ \A q, r \in Reviewers : UnderReview(q) /\ UnderReview(r) /\ reviewing[q] = reviewing[r]
                                => q = r
    /\ \A q, r \in Reviewers : /\ reviewPc[q] = "checked"
                                /\ reviewPc[r] = "checked"
                                /\ Source[reviewing[q]] = Source[reviewing[r]]
                                => q = r
    /\ \A r \in Reviewers : reviewPc[r] = "checked" =>
          (closes[r] <=> ~HasPending(Source[reviewing[r]], {reviewing[r]}))

RowsAgree == IngestedOnce /\ AssetTracksJob /\ ReviewStateExact

Inv == TypeOK /\ LeasesAgree /\ HoldersAgree /\ ReviewsAgree /\ RowsAgree

(* Behind its workers, leases, retries and locks the pipeline implements   *)
(* the lifecycle its operators see: every commit is one step of it.        *)
Lifecycle == INSTANCE EvidenceLifecycle
             WITH Assets <- Jobs, status <- assetStatus, verdict <- claimStatus

ImplementsLifecycle == Lifecycle!Spec

(* Only the worker whose token the row shows ends an attempt: a superseded *)
(* one neither completes, requeues nor fails what its successor holds.     *)
FencedByToken ==
    [][\A j \in Jobs :
          jobStatus[j] = "running" /\ jobStatus'[j] # "running"
          => \E w \in Workers : /\ held[w] = j
                                /\ heldToken[w] = leaseToken[j]
                                /\ pc'[w] = "idle"]_vars

(* A settled job, and a claim once decided, is never touched again, by a   *)
(* late failure report or a second reviewer of the same claim.             *)
SettledForever ==
    [][/\ \A j \in Jobs : Settled(j) =>
             UNCHANGED <<jobStatus[j], attempts[j], leaseToken[j], lease[j]>>
       /\ \A c \in Claims : claimStatus[c] \in Decisions => UNCHANGED claimStatus[c]]_vars

(* Every queued job is completed or failed in the end.                     *)
JobsSettle == \A j \in Jobs : jobStatus[j] = "queued" ~> Settled(j)

(* The one way a job stays unsettled: its last attempt died with its       *)
(* worker, and lease_next_job no longer selects it.                        *)
Stranded(j) ==
    /\ jobStatus[j] = "running"
    /\ attempts[j] = MaxAttempts
    /\ lease[j] = "expired"
    /\ Abandoned(j)
    /\ crashes > 0

JobsSettleOrStrand == \A j \in Jobs : jobStatus[j] = "queued" ~> Settled(j) \/ Stranded(j)

(* With an extractor that works and attempts left after every crash, a     *)
(* queued file is ingested: the lease expires and the job resumes.         *)
EvidenceIngested == \A j \in Jobs : jobStatus[j] = "queued" ~> jobStatus[j] = "completed"
=============================================================================
