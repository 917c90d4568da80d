------------------------- MODULE EvidenceJobsProofs -------------------------
(***************************************************************************)
(* Proofs about EvidenceJobs for any number of files, claims, workers,     *)
(* reviewers, attempts and crashes.                                        *)
(***************************************************************************)
EXTENDS EvidenceJobs, TLAPS

(* Every row and every process keeps to its type; in particular no job is  *)
(* ever leased more than max_attempts times.                               *)
LEMMA TypeInitial == Init => TypeOK
  BY ConstantsAssumption DEF Init, TypeOK, Jobs, NoJob, Tokens, JobStatuses,
     AssetStatuses, WorkerPcs, Decisions

(* Every step of the pipeline keeps the types: lease_next_job's bound on   *)
(* attempts is what keeps the counter and the tokens in range.             *)
LEMMA TypeStep == TypeOK /\ [Next]_vars => TypeOK'
  <1> SUFFICES ASSUME TypeOK, [Next]_vars PROVE TypeOK'
    OBVIOUS
  <1> USE ConstantsAssumption DEF TypeOK, NoJob, Tokens, JobStatuses,
        AssetStatuses, WorkerPcs, Decisions, vars, jobRows, evidence,
        workerVars, reviewVars
  <1>1. CASE \E j \in Jobs : CreateEvidenceAsset(j)
    BY <1>1 DEF CreateEvidenceAsset
  <1>2. CASE \E w \in Workers, j \in Jobs : LeaseNextJob(w, j)
    BY <1>2 DEF LeaseNextJob, Leasable
  <1>3. ASSUME NEW w \in Workers, WorkerStep(w) PROVE TypeOK'
    <2>1. CASE LockActiveLease(w)
      BY <2>1 DEF LockActiveLease
    <2>2. CASE StageIngestion(w)
      BY <2>2 DEF StageIngestion, DetectedPairs
    <2>3. CASE CommitRefused(w)
      BY <2>3 DEF CommitRefused, RollBack
    <2>4. CASE CommitIngestion(w)
      <3> USE <2>4 DEF CommitIngestion, Release
      <3>1. jobStatus' \in [Jobs -> JobStatuses] /\ lease' \in [Jobs -> {"none", "live", "expired"}]
        OBVIOUS
      <3>2. assetStatus' \in [Jobs -> AssetStatuses]
        OBVIOUS
      <3>3. extractions' \in [Jobs -> Nat]
        <4>1. held[w] \in Jobs /\ extractions[held[w]] + 1 \in Nat
          OBVIOUS
        <4> QED BY <4>1
      <3>4. claimStatus' \in [Claims -> {"absent", "candidate"} \cup Decisions]
        OBVIOUS
      <3>5. contradictions' \subseteq Conflicts
        OBVIOUS
      <3> QED BY <3>1, <3>2, <3>3, <3>4, <3>5
    <2>5. CASE FailJob(w)
      <3> USE <2>5 DEF FailJob, Release
      <3>1. jobStatus' \in [Jobs -> JobStatuses]
        OBVIOUS
      <3>2. assetStatus' \in [Jobs -> AssetStatuses]
        BY DEF AssetAfterFailure
      <3>3. waiting' \subseteq Jobs
        OBVIOUS
      <3> QED BY <3>1, <3>2, <3>3
    <2>6. CASE FailSuperseded(w)
      BY <2>6 DEF FailSuperseded, Release
    <2> QED BY <1>3, <2>1, <2>2, <2>3, <2>4, <2>5, <2>6 DEF WorkerStep
  <1>4. CASE \E w \in Workers, kind \in Faults : ProcessingFails(w, kind)
    BY <1>4 DEF ProcessingFails, RollBack
  <1>5. CASE \E w \in Workers : Crash(w)
    BY <1>5 DEF Crash, Release
  <1>6. CASE \E j \in Jobs : LeaseExpires(j)
    BY <1>6 DEF LeaseExpires
  <1>7. CASE \E j \in Jobs : BackoffElapses(j)
    BY <1>7 DEF BackoffElapses
  <1>8. CASE \E r \in Reviewers, c \in Claims, d \in Decisions : DecideClaim(r, c, d)
    BY <1>8 DEF DecideClaim
  <1>9. CASE \E r \in Reviewers : CompleteReviewIfDecided(r)
    BY <1>9 DEF CompleteReviewIfDecided
  <1>10. CASE \E r \in Reviewers : CommitReview(r)
    <2>1. PICK r \in Reviewers : CommitReview(r)
      BY <1>10
    <2>2. assetStatus' \in [Jobs -> AssetStatuses]
      BY <2>1 DEF CommitReview
    <2>3. claimStatus' \in [Claims -> {"absent", "candidate"} \cup Decisions]
      BY <2>1 DEF CommitReview
    <2> QED BY <2>1, <2>2, <2>3 DEF CommitReview, EndReview
  <1>11. CASE \E r \in Reviewers : AbortReview(r)
    BY <1>11 DEF AbortReview, EndReview
  <1>12. CASE UNCHANGED vars
    BY <1>12
  <1> QED
    BY <1>1, <1>2, <1>3, <1>4, <1>5, <1>6, <1>7, <1>8, <1>9, <1>10, <1>11, <1>12
       DEF Next

(* In every reachable state the rows and processes keep to their types,    *)
(* with no job leased more than max_attempts times.                        *)
THEOREM TypeCorrect == Spec => []TypeOK
  <1>1. QED BY TypeInitial, TypeStep, PTL DEF Spec

-----------------------------------------------------------------------------
(* The lease columns of a job row agree with each other.                   *)
LEMMA LeasesStep ==
  ASSUME TypeOK, LeasesAgree, [Next]_vars PROVE LeasesAgree'
  <1> USE DEF TypeOK, LeasesAgree, vars, jobRows, evidence, workerVars, reviewVars
  <1>1. CASE \E j \in Jobs : CreateEvidenceAsset(j)
    BY <1>1 DEF CreateEvidenceAsset
  <1>2. CASE \E w \in Workers, j \in Jobs : LeaseNextJob(w, j)
    BY <1>2, ConstantsAssumption DEF LeaseNextJob, Tokens
  <1>3. ASSUME NEW w \in Workers, WorkerStep(w) PROVE LeasesAgree'
    <2>1. CASE LockActiveLease(w)
      BY <2>1 DEF LockActiveLease
    <2>2. CASE StageIngestion(w)
      BY <2>2 DEF StageIngestion
    <2>3. CASE CommitRefused(w)
      BY <2>3 DEF CommitRefused
    <2>4. CASE CommitIngestion(w)
      BY <2>4 DEF CommitIngestion
    <2>5. CASE FailJob(w)
      BY <2>5 DEF FailJob
    <2>6. CASE FailSuperseded(w)
      BY <2>6 DEF FailSuperseded
    <2> QED BY <1>3, <2>1, <2>2, <2>3, <2>4, <2>5, <2>6 DEF WorkerStep
  <1>4. CASE \E w \in Workers, kind \in Faults : ProcessingFails(w, kind)
    BY <1>4 DEF ProcessingFails
  <1>5. CASE \E w \in Workers : Crash(w)
    BY <1>5 DEF Crash
  <1>6. CASE \E j \in Jobs : LeaseExpires(j)
    BY <1>6 DEF LeaseExpires
  <1>7. CASE \E j \in Jobs : BackoffElapses(j)
    BY <1>7 DEF BackoffElapses
  <1>8. CASE \E r \in Reviewers, c \in Claims, d \in Decisions : DecideClaim(r, c, d)
    BY <1>8 DEF DecideClaim
  <1>9. CASE \E r \in Reviewers : CompleteReviewIfDecided(r)
    BY <1>9 DEF CompleteReviewIfDecided
  <1>10. CASE \E r \in Reviewers : CommitReview(r)
    BY <1>10 DEF CommitReview
  <1>11. CASE \E r \in Reviewers : AbortReview(r)
    BY <1>11 DEF AbortReview
  <1>12. CASE UNCHANGED vars
    BY <1>12
  <1> QED
    BY <1>1, <1>2, <1>3, <1>4, <1>5, <1>6, <1>7, <1>8, <1>9, <1>10, <1>11, <1>12
       DEF Next

(* A worker that processes a job holds its current attempt: the row lock   *)
(* keeps every other worker from leasing, completing or failing it.        *)
LEMMA HoldersStep ==
  ASSUME TypeOK, LeasesAgree, HoldersAgree, IngestedOnce, [Next]_vars
  PROVE  HoldersAgree'
  <1> USE DEF TypeOK, HoldersAgree, Working, OwnsAttempt, vars, jobRows,
        evidence, workerVars, reviewVars
  <1>1. CASE \E j \in Jobs : CreateEvidenceAsset(j)
    BY <1>1 DEF CreateEvidenceAsset
  <1>2. ASSUME NEW w \in Workers, NEW j \in Jobs, LeaseNextJob(w, j)
        PROVE HoldersAgree'
    <2> USE <1>2, ConstantsAssumption DEF LeaseNextJob, LeasesAgree, Tokens
    <2>1. attempts[j] + 1 \in Nat /\ heldToken'[w] = attempts[j] + 1
      OBVIOUS
    <2>2. \A v \in Workers : Working(v) /\ held[v] = j => heldToken[v] <= attempts[j]
      OBVIOUS
    <2>3. \A v \in Workers : Working(v)' => heldToken'[v] <= leaseToken'[held'[v]]
      BY <2>1
    <2>4. \A u, v \in Workers : Working(u)' /\ Working(v)' /\ held'[u] = held'[v]
             => u = v \/ heldToken'[u] # heldToken'[v]
      BY <2>1, <2>2
    <2>5. \A v \in Workers : pc'[v] \in {"processing", "staged"} => OwnsAttempt(v)'
      BY DEF Leasable, Locked
    <2> QED BY <2>3, <2>4, <2>5
  <1>3. ASSUME NEW w \in Workers, WorkerStep(w) PROVE HoldersAgree'
    <2>1. CASE LockActiveLease(w)
      BY <2>1 DEF LockActiveLease, LeaseActive
    <2>2. CASE StageIngestion(w)
      <3>1. extractions[held[w]] = 0
        BY <2>2 DEF StageIngestion, IngestedOnce
      <3>2. reused' = [reused EXCEPT ![w] = FALSE]
        <4>1. (extractions[held[w]] > 0) = FALSE
          BY <3>1
        <4> QED BY <2>2, <4>1 DEF StageIngestion
      <3>3. pc' = [pc EXCEPT ![w] = "staged"]
            /\ UNCHANGED <<held, heldToken, jobStatus, leaseToken>>
        BY <2>2 DEF StageIngestion
      <3>4. pc[w] = "processing"
        BY <2>2 DEF StageIngestion
      <3> QED BY <3>2, <3>3, <3>4
    <2>3. CASE CommitRefused(w)
      BY <2>3 DEF CommitRefused, RollBack
    <2>4. CASE CommitIngestion(w)
      BY <2>4 DEF CommitIngestion, Release
    <2>5. CASE FailJob(w)
      BY <2>5 DEF FailJob, Release
    <2>6. CASE FailSuperseded(w)
      BY <2>6 DEF FailSuperseded, Release
    <2> QED BY <1>3, <2>1, <2>2, <2>3, <2>4, <2>5, <2>6 DEF WorkerStep
  <1>4. CASE \E w \in Workers, kind \in Faults : ProcessingFails(w, kind)
    BY <1>4 DEF ProcessingFails, RollBack
  <1>5. CASE \E w \in Workers : Crash(w)
    BY <1>5 DEF Crash, Release
  <1>6. CASE \E j \in Jobs : LeaseExpires(j)
    BY <1>6 DEF LeaseExpires
  <1>7. CASE \E j \in Jobs : BackoffElapses(j)
    BY <1>7 DEF BackoffElapses
  <1>8. CASE \E r \in Reviewers, c \in Claims, d \in Decisions : DecideClaim(r, c, d)
    BY <1>8 DEF DecideClaim
  <1>9. CASE \E r \in Reviewers : CompleteReviewIfDecided(r)
    BY <1>9 DEF CompleteReviewIfDecided
  <1>10. CASE \E r \in Reviewers : CommitReview(r)
    BY <1>10 DEF CommitReview
  <1>11. CASE \E r \in Reviewers : AbortReview(r)
    BY <1>11 DEF AbortReview
  <1>12. CASE UNCHANGED vars
    BY <1>12
  <1> QED
    BY <1>1, <1>2, <1>3, <1>4, <1>5, <1>6, <1>7, <1>8, <1>9, <1>10, <1>11, <1>12
       DEF Next

-----------------------------------------------------------------------------
(* A job that a worker is about to commit has no claims yet, so no review  *)
(* can concern it.                                                         *)
LEMMA CommitDisturbsNoReview ==
  ASSUME TypeOK, HoldersAgree, ReviewsAgree, IngestedOnce,
         NEW w \in Workers, pc[w] \in {"processing", "staged"},
         NEW r \in Reviewers, UnderReview(r)
  PROVE  Source[reviewing[r]] # held[w]
  BY ConstantsAssumption DEF TypeOK, HoldersAgree, ReviewsAgree, IngestedOnce,
     OwnsAttempt, Extracted

(* Requests that run at the same time review different claims, only one of *)
(* them has checked any given asset, and what it found there stays true    *)
(* until it commits.                                                       *)
LEMMA ReviewsStep ==
  ASSUME TypeOK, HoldersAgree, ReviewsAgree, RowsAgree, [Next]_vars
  PROVE  ReviewsAgree'
  <1> USE ConstantsAssumption
      DEF TypeOK, UnderReview, vars, jobRows, evidence, workerVars, reviewVars
  <1> DEFINE Unreviewed == UNCHANGED <<claimStatus, reviewVars>>
  <1>0. Unreviewed => ReviewsAgree'
    BY DEF ReviewsAgree, HasPending, Extracted
  <1>1. CASE \E j \in Jobs : CreateEvidenceAsset(j)
    BY <1>0, <1>1 DEF CreateEvidenceAsset
  <1>2. CASE \E w \in Workers, j \in Jobs : LeaseNextJob(w, j)
    BY <1>0, <1>2 DEF LeaseNextJob
  <1>3. ASSUME NEW w \in Workers, WorkerStep(w) PROVE ReviewsAgree'
    <2>1. CASE LockActiveLease(w)
      BY <1>0, <2>1 DEF LockActiveLease
    <2>2. CASE StageIngestion(w)
      BY <1>0, <2>2 DEF StageIngestion
    <2>3. CASE CommitRefused(w)
      BY <1>0, <2>3 DEF CommitRefused
    <2>4. CASE CommitIngestion(w)
      <3>1. UNCHANGED reviewVars
        BY <2>4 DEF CommitIngestion
      <3>2. \A c \in Claims : Source[c] # held[w] => claimStatus'[c] = claimStatus[c]
        BY <2>4 DEF CommitIngestion, Extracted
      <3>3. \A r \in Reviewers : UnderReview(r) => Source[reviewing[r]] # held[w]
        BY <2>4, CommitDisturbsNoReview DEF CommitIngestion, RowsAgree
      <3> QED BY <3>1, <3>2, <3>3 DEF ReviewsAgree, HasPending, Extracted
    <2>5. CASE FailJob(w)
      BY <1>0, <2>5 DEF FailJob
    <2>6. CASE FailSuperseded(w)
      BY <1>0, <2>6 DEF FailSuperseded
    <2> QED BY <1>3, <2>1, <2>2, <2>3, <2>4, <2>5, <2>6 DEF WorkerStep
  <1>4. CASE \E w \in Workers, kind \in Faults : ProcessingFails(w, kind)
    BY <1>0, <1>4 DEF ProcessingFails
  <1>5. CASE \E w \in Workers : Crash(w)
    BY <1>0, <1>5 DEF Crash
  <1>6. CASE \E j \in Jobs : LeaseExpires(j)
    BY <1>0, <1>6 DEF LeaseExpires
  <1>7. CASE \E j \in Jobs : BackoffElapses(j)
    BY <1>0, <1>7 DEF BackoffElapses
  <1>8. ASSUME NEW r \in Reviewers, NEW c \in Claims, NEW d \in Decisions,
               DecideClaim(r, c, d)
        PROVE  ReviewsAgree'
    BY <1>8 DEF DecideClaim, ClaimLocked, ReviewsAgree, HasPending, Extracted
  <1>9. ASSUME NEW r \in Reviewers, CompleteReviewIfDecided(r) PROVE ReviewsAgree'
    <2> DEFINE j == Source[reviewing[r]]
    <2>1. reviewing[r] \in Claims /\ claimStatus[reviewing[r]] = "candidate"
      BY <1>9 DEF CompleteReviewIfDecided, ReviewsAgree
    <2>2. assetStatus[j] = "needs_review"
      BY <2>1 DEF RowsAgree, IngestedOnce, AssetTracksJob, ReviewStateExact,
         HasPending, Extracted
    <2>3. closes' = [closes EXCEPT ![r] = ~HasPending(j, {reviewing[r]})]
      BY <1>9, <2>2 DEF CompleteReviewIfDecided
    <2>4. /\ reviewPc' = [reviewPc EXCEPT ![r] = "checked"]
          /\ UNCHANGED <<claimStatus, reviewing>>
          /\ reviewPc[r] = "decided"
      BY <1>9 DEF CompleteReviewIfDecided
    <2>5. \A q \in Reviewers : reviewPc[q] = "checked" => Source[reviewing[q]] # j
      BY <1>9 DEF CompleteReviewIfDecided, AssetLocked
    <2>7. \A q \in Reviewers : reviewPc'[q] = "checked" =>
             (closes'[q] <=> ~HasPending(Source[reviewing[q]], {reviewing[q]}))
      BY <2>3, <2>4 DEF ReviewsAgree
    <2>8. \A q \in Reviewers : UnderReview(q)' <=> UnderReview(q)
      BY <2>4
    <2>9. \A p, q \in Reviewers : /\ reviewPc'[p] = "checked"
                                 /\ reviewPc'[q] = "checked"
                                 /\ Source[reviewing[p]] = Source[reviewing[q]]
                                 => p = q
      BY <2>4, <2>5 DEF ReviewsAgree
    <2>10. (\A q \in Reviewers : reviewPc[q] = "checked" =>
              (closes[q] <=> ~HasPending(Source[reviewing[q]], {reviewing[q]})))'
      BY <2>4, <2>7 DEF HasPending, Extracted
    <2>11. (\A p, q \in Reviewers :
               UnderReview(p) /\ UnderReview(q) /\ reviewing[p] = reviewing[q] => p = q)'
      BY <2>4, <2>8 DEF ReviewsAgree
    <2>12. (\A q \in Reviewers : UnderReview(q) =>
               reviewing[q] \in Claims /\ claimStatus[reviewing[q]] = "candidate")'
      BY <2>4, <2>8 DEF ReviewsAgree
    <2> HIDE DEF UnderReview, j
    <2> QED BY <2>4, <2>9, <2>10, <2>11, <2>12 DEF ReviewsAgree
  <1>10. ASSUME NEW r \in Reviewers, CommitReview(r) PROVE ReviewsAgree'
    <2>1. reviewPc[r] = "checked" /\ reviewing[r] \in Claims
      BY <1>10 DEF CommitReview, ReviewsAgree
    <2>2. /\ claimStatus' = [claimStatus EXCEPT ![reviewing[r]] = decision[r]]
          /\ EndReview(r)
      BY <1>10 DEF CommitReview
    <2>3. \A q \in Reviewers \ {r} : reviewPc[q] = "checked" =>
             Source[reviewing[q]] # Source[reviewing[r]]
      BY <2>1 DEF ReviewsAgree
    <2> QED BY <2>1, <2>2, <2>3 DEF EndReview, ReviewsAgree, HasPending, Extracted
  <1>11. ASSUME NEW r \in Reviewers, AbortReview(r) PROVE ReviewsAgree'
    BY <1>11 DEF AbortReview, EndReview, ReviewsAgree, HasPending, Extracted
  <1>12. CASE UNCHANGED vars
    BY <1>0, <1>12
  <1> QED
    BY <1>1, <1>2, <1>3, <1>4, <1>5, <1>6, <1>7, <1>8, <1>9, <1>10, <1>11, <1>12
       DEF Next

-----------------------------------------------------------------------------
(* What the two commits that change claims do, in the terms of the rows.   *)
IngestionOf(j) ==
    /\ jobStatus[j] = "running"
    /\ extractions[j] = 0
    /\ \A c \in Extracted(j) : claimStatus[c] = "absent"
    /\ jobStatus' = [jobStatus EXCEPT ![j] = "completed"]
    /\ extractions' = [extractions EXCEPT ![j] = 1]
    /\ claimStatus' = [c \in Claims |-> IF c \in Extracted(j) THEN "candidate"
                                        ELSE claimStatus[c]]
    /\ assetStatus' = [assetStatus EXCEPT ![j] =
                         IF Extracted(j) # {} THEN "needs_review" ELSE "complete"]

DecisionOn(c, d) ==
    /\ jobStatus[Source[c]] = "completed"
    /\ assetStatus[Source[c]] = "needs_review"
    /\ claimStatus[c] = "candidate"
    /\ claimStatus' = [claimStatus EXCEPT ![c] = d]
    /\ assetStatus' = [assetStatus EXCEPT ![Source[c]] =
                         IF HasPending(Source[c], {c}) THEN "needs_review" ELSE "complete"]
    /\ UNCHANGED <<jobStatus, extractions>>

(* A worker that commits ingests a job that is running and has no claims,  *)
(* whatever the workers before it did to the job.                          *)
LEMMA IngestionCommits ==
  ASSUME TypeOK, HoldersAgree, RowsAgree, NEW w \in Workers, CommitIngestion(w)
  PROVE  \E j \in Jobs : j = held[w] /\ IngestionOf(j)
  <1> USE DEF TypeOK
  <1> DEFINE j == held[w]
  <1>1. j \in Jobs /\ jobStatus[j] = "running" /\ reused[w] = FALSE
    BY DEF CommitIngestion, HoldersAgree, OwnsAttempt
  <1>2. extractions[j] = 0 /\ \A c \in Extracted(j) : claimStatus[c] = "absent"
    BY <1>1 DEF RowsAgree, IngestedOnce, Extracted
  <1>3. ~HasPending(j, {})
    BY <1>2 DEF HasPending
  <1>4. jobStatus' = [jobStatus EXCEPT ![j] = "completed"]
    BY DEF CommitIngestion
  <1>5. extractions' = [extractions EXCEPT ![j] = 1]
    BY <1>1, <1>2 DEF CommitIngestion
  <1>6. claimStatus' = [c \in Claims |-> IF c \in Extracted(j) THEN "candidate"
                                         ELSE claimStatus[c]]
    BY <1>1 DEF CommitIngestion
  <1>7. assetStatus' = [assetStatus EXCEPT ![j] =
                          IF Extracted(j) # {} THEN "needs_review" ELSE "complete"]
    BY <1>1, <1>3 DEF CommitIngestion
  <1> HIDE DEF j
  <1> QED BY <1>1, <1>2, <1>4, <1>5, <1>6, <1>7 DEF IngestionOf, j

(* A review that commits decides a claim of an asset in needs_review, and  *)
(* completes the asset exactly when no other claim of it is undecided.     *)
LEMMA ReviewCommits ==
  ASSUME TypeOK, ReviewsAgree, RowsAgree, NEW r \in Reviewers, CommitReview(r)
  PROVE  \E c \in Claims, d \in Decisions : DecisionOn(c, d)
  <1> USE ConstantsAssumption DEF TypeOK
  <1>1. PICK c \in Claims, j \in Jobs : c = reviewing[r] /\ j = Source[c]
    BY DEF CommitReview, ReviewsAgree, UnderReview
  <1>2. /\ claimStatus[c] = "candidate"
        /\ closes[r] <=> ~HasPending(j, {c})
    BY <1>1 DEF CommitReview, ReviewsAgree, UnderReview
  <1>3. jobStatus[j] = "completed" /\ assetStatus[j] = "needs_review"
    BY <1>1, <1>2 DEF RowsAgree, IngestedOnce, AssetTracksJob, ReviewStateExact,
       HasPending, Extracted
  <1>4. /\ claimStatus' = [claimStatus EXCEPT ![c] = decision[r]]
        /\ decision[r] \in Decisions
        /\ UNCHANGED <<jobStatus, extractions>>
    BY <1>1 DEF CommitReview, jobRows
  <1>5. assetStatus' = [assetStatus EXCEPT ![j] =
                          IF HasPending(j, {c}) THEN "needs_review" ELSE "complete"]
    BY <1>1, <1>2, <1>3 DEF CommitReview
  <1> QED BY <1>1, <1>2, <1>3, <1>4, <1>5 DEF DecisionOn

-----------------------------------------------------------------------------
(* Jobs, assets, extraction runs and claims agree after every commit.      *)
LEMMA RowsStep ==
  ASSUME TypeOK, HoldersAgree, ReviewsAgree, RowsAgree, [Next]_vars
  PROVE  RowsAgree'
  <1> USE ConstantsAssumption
      DEF TypeOK, vars, jobRows, evidence, workerVars, reviewVars
  <1> DEFINE Untouched == UNCHANGED <<jobStatus, evidence>>
  <1>0. Untouched => RowsAgree'
    BY DEF RowsAgree, IngestedOnce, AssetTracksJob, ReviewStateExact, HasPending,
           Extracted
  <1>1. ASSUME NEW j \in Jobs, CreateEvidenceAsset(j) PROVE RowsAgree'
    BY <1>1 DEF CreateEvidenceAsset, RowsAgree, IngestedOnce, AssetTracksJob,
       ReviewStateExact, HasPending, Extracted
  <1>2. ASSUME NEW w \in Workers, NEW j \in Jobs, LeaseNextJob(w, j) PROVE RowsAgree'
    BY <1>2 DEF LeaseNextJob, Leasable, RowsAgree, IngestedOnce, AssetTracksJob,
       ReviewStateExact, HasPending, Extracted
  <1>3. ASSUME NEW w \in Workers, WorkerStep(w) PROVE RowsAgree'
    <2>1. CASE LockActiveLease(w)
      BY <1>0, <2>1 DEF LockActiveLease
    <2>2. CASE StageIngestion(w)
      BY <1>0, <2>2 DEF StageIngestion
    <2>3. CASE CommitRefused(w)
      BY <1>0, <2>3 DEF CommitRefused
    <2>4. CASE CommitIngestion(w)
      <3>1. PICK j \in Jobs : IngestionOf(j)
        BY <2>4, IngestionCommits
      <3>2. IngestedOnce'
        BY <3>1 DEF IngestionOf, RowsAgree, IngestedOnce, Extracted
      <3>3. AssetTracksJob'
        BY <3>1 DEF IngestionOf, RowsAgree, AssetTracksJob
      <3>4. ReviewStateExact'
        BY <3>1 DEF IngestionOf, RowsAgree, ReviewStateExact, HasPending, Extracted
      <3> QED BY <3>2, <3>3, <3>4 DEF RowsAgree
    <2>5. CASE FailJob(w)
      <3> DEFINE j == held[w]
      <3>1. j \in Jobs /\ jobStatus[j] = "running"
        BY <2>5 DEF FailJob, OwnsAttempt
      <3>2. PICK s \in {"failed", "queued"} :
              /\ jobStatus' = [jobStatus EXCEPT ![j] = s]
              /\ assetStatus' = [assetStatus EXCEPT ![j] = s]
              /\ UNCHANGED <<extractions, claimStatus>>
        BY <2>5 DEF FailJob, AssetAfterFailure
      <3> HIDE DEF j
      <3> QED BY <3>1, <3>2 DEF RowsAgree, IngestedOnce, AssetTracksJob,
              ReviewStateExact, HasPending, Extracted
    <2>6. CASE FailSuperseded(w)
      BY <1>0, <2>6 DEF FailSuperseded
    <2> QED BY <1>3, <2>1, <2>2, <2>3, <2>4, <2>5, <2>6 DEF WorkerStep
  <1>4. CASE \E w \in Workers, kind \in Faults : ProcessingFails(w, kind)
    BY <1>0, <1>4 DEF ProcessingFails
  <1>5. CASE \E w \in Workers : Crash(w)
    BY <1>0, <1>5 DEF Crash
  <1>6. CASE \E j \in Jobs : LeaseExpires(j)
    BY <1>0, <1>6 DEF LeaseExpires
  <1>7. CASE \E j \in Jobs : BackoffElapses(j)
    BY <1>0, <1>7 DEF BackoffElapses
  <1>8. CASE \E r \in Reviewers, c \in Claims, d \in Decisions : DecideClaim(r, c, d)
    BY <1>0, <1>8 DEF DecideClaim
  <1>9. CASE \E r \in Reviewers : CompleteReviewIfDecided(r)
    BY <1>0, <1>9 DEF CompleteReviewIfDecided
  <1>10. ASSUME NEW r \in Reviewers, CommitReview(r) PROVE RowsAgree'
    <2>1. PICK c \in Claims, d \in Decisions : DecisionOn(c, d)
      BY <1>10, ReviewCommits
    <2>2. HasPending(Source[c], {})' <=> HasPending(Source[c], {c})
      BY <2>1 DEF DecisionOn, HasPending, Extracted, Decisions
    <2>3. \A k \in Jobs \ {Source[c]} : HasPending(k, {})' <=> HasPending(k, {})
      BY <2>1 DEF DecisionOn, HasPending, Extracted
    <2>4. IngestedOnce'
      BY <2>1 DEF DecisionOn, RowsAgree, IngestedOnce, Extracted, Decisions
    <2>5. AssetTracksJob'
      BY <2>1 DEF DecisionOn, RowsAgree, AssetTracksJob
    <2>6. ReviewStateExact'
      BY <2>1, <2>2, <2>3 DEF DecisionOn, RowsAgree, ReviewStateExact
    <2> QED BY <2>4, <2>5, <2>6 DEF RowsAgree
  <1>11. CASE \E r \in Reviewers : AbortReview(r)
    BY <1>0, <1>11 DEF AbortReview
  <1>12. CASE UNCHANGED vars
    BY <1>0, <1>12
  <1> QED
    BY <1>1, <1>2, <1>3, <1>4, <1>5, <1>6, <1>7, <1>8, <1>9, <1>10, <1>11, <1>12
       DEF Next

-----------------------------------------------------------------------------
(* Nothing is uploaded, leased or reviewed at the start.                   *)
LEMMA InvInitial == Init => Inv
  <1> SUFFICES ASSUME Init PROVE Inv
    OBVIOUS
  <1>1. TypeOK
    BY TypeInitial
  <1> USE ConstantsAssumption DEF Init, Jobs, Extracted
  <1>2. LeasesAgree /\ HoldersAgree
    BY DEF LeasesAgree, HoldersAgree, Working, OwnsAttempt
  <1>3. ReviewsAgree
    BY DEF ReviewsAgree, UnderReview
  <1>4. RowsAgree
    BY DEF RowsAgree, IngestedOnce, AssetTracksJob, ReviewStateExact, HasPending
  <1> QED BY <1>1, <1>2, <1>3, <1>4 DEF Inv

(* The invariant is inductive: the lemmas above, one per conjunct.         *)
LEMMA InvStep == Inv /\ [Next]_vars => Inv'
  BY TypeStep, LeasesStep, HoldersStep, ReviewsStep, RowsStep DEF Inv, RowsAgree

(* The processes and the rows they lock agree in every reachable state.    *)
THEOREM InvHolds == Spec => []Inv
  <1>1. QED BY InvInitial, InvStep, PTL DEF Spec

(* No two workers ever process the same job: the row lock and the lease    *)
(* token of lease_next_job and _lock_active_lease.                         *)
THEOREM ProcessingIsExclusive == Spec => []ExclusiveProcessing
  <1>1. Inv => ExclusiveProcessing
    BY DEF Inv, HoldersAgree, ExclusiveProcessing, OwnsAttempt, Working
  <1> QED BY InvHolds, <1>1, PTL

(* A file is ingested at most once, entirely or not at all.                *)
THEOREM IngestionHappensOnce == Spec => []IngestedOnce
  <1>1. Inv => IngestedOnce
    BY DEF Inv, RowsAgree
  <1> QED BY InvHolds, <1>1, PTL

(* The asset's status is always the one its job calls for.                 *)
THEOREM AssetsTrackJobs == Spec => []AssetTracksJob
  <1>1. Inv => AssetTracksJob
    BY DEF Inv, RowsAgree
  <1> QED BY InvHolds, <1>1, PTL

(* An asset is complete exactly from the commit of its last decision, with *)
(* any number of concurrent reviewers.                                     *)
THEOREM ReviewsCloseExactly == Spec => []ReviewStateExact
  <1>1. Inv => ReviewStateExact
    BY DEF Inv, RowsAgree
  <1> QED BY InvHolds, <1>1, PTL

-----------------------------------------------------------------------------
(* The pipeline implements the lifecycle its operators see.                *)
LEMMA LifecycleInitial == Init => Lifecycle!Init
  BY DEF Init, Lifecycle!Init

(* Every step of the pipeline is a step of the lifecycle or leaves the     *)
(* statuses and verdicts of the operators' pages alone.                    *)
LEMMA LifecycleStep ==
  ASSUME Inv, [Next]_vars
  PROVE  [Lifecycle!Next]_(Lifecycle!vars)
  <1> USE DEF Inv, vars, jobRows, evidence, workerVars, reviewVars, Lifecycle!vars
  <1>0. ASSUME UNCHANGED <<assetStatus, claimStatus>>
        PROVE  [Lifecycle!Next]_(Lifecycle!vars)
    BY <1>0
  <1>1. ASSUME NEW j \in Jobs, CreateEvidenceAsset(j) PROVE Lifecycle!Next
    <2>1. Lifecycle!Upload(j)
      BY <1>1 DEF CreateEvidenceAsset, Lifecycle!Upload, RowsAgree, AssetTracksJob
    <2> QED BY <2>1 DEF Lifecycle!Next
  <1>2. CASE \E w \in Workers, j \in Jobs : LeaseNextJob(w, j)
    BY <1>0, <1>2 DEF LeaseNextJob
  <1>3. ASSUME NEW w \in Workers, WorkerStep(w)
        PROVE  [Lifecycle!Next]_(Lifecycle!vars)
    <2>1. CASE LockActiveLease(w)
      BY <1>0, <2>1 DEF LockActiveLease
    <2>2. CASE StageIngestion(w)
      BY <1>0, <2>2 DEF StageIngestion
    <2>3. CASE CommitRefused(w)
      BY <1>0, <2>3 DEF CommitRefused
    <2>4. CASE CommitIngestion(w)
      <3>1. PICK j \in Jobs : IngestionOf(j)
        BY <2>4, IngestionCommits
      <3>2. Lifecycle!Ingest(j)
        BY <3>1 DEF IngestionOf, Extracted, Lifecycle!Ingest, Lifecycle!ClaimsOf,
           RowsAgree, AssetTracksJob, TypeOK
      <3> QED BY <3>2 DEF Lifecycle!Next
    <2>5. CASE FailJob(w)
      <3>1. held[w] \in Jobs /\ assetStatus[held[w]] = "queued"
        BY <2>5 DEF FailJob, OwnsAttempt, RowsAgree, AssetTracksJob, TypeOK
      <3>2. claimStatus' = claimStatus
        BY <2>5 DEF FailJob
      <3>3. CASE GivesUp(w)
        <4>1. Lifecycle!Fail(held[w])
          BY <2>5, <3>1, <3>2, <3>3 DEF FailJob, AssetAfterFailure, Lifecycle!Fail
        <4> QED BY <3>1, <4>1 DEF Lifecycle!Next
      <3>4. CASE ~GivesUp(w)
        <4>1. assetStatus' = assetStatus
          BY <2>5, <3>1, <3>4 DEF FailJob, AssetAfterFailure, TypeOK
        <4> QED BY <1>0, <3>2, <4>1
      <3> QED BY <3>3, <3>4
    <2>6. CASE FailSuperseded(w)
      BY <1>0, <2>6 DEF FailSuperseded
    <2> QED BY <1>3, <2>1, <2>2, <2>3, <2>4, <2>5, <2>6 DEF WorkerStep
  <1>4. CASE \E w \in Workers, kind \in Faults : ProcessingFails(w, kind)
    BY <1>0, <1>4 DEF ProcessingFails
  <1>5. CASE \E w \in Workers : Crash(w)
    BY <1>0, <1>5 DEF Crash
  <1>6. CASE \E j \in Jobs : LeaseExpires(j)
    BY <1>0, <1>6 DEF LeaseExpires
  <1>7. CASE \E j \in Jobs : BackoffElapses(j)
    BY <1>0, <1>7 DEF BackoffElapses
  <1>8. CASE \E r \in Reviewers, c \in Claims, d \in Decisions : DecideClaim(r, c, d)
    BY <1>0, <1>8 DEF DecideClaim
  <1>9. CASE \E r \in Reviewers : CompleteReviewIfDecided(r)
    BY <1>0, <1>9 DEF CompleteReviewIfDecided
  <1>10. ASSUME NEW r \in Reviewers, CommitReview(r) PROVE Lifecycle!Next
    <2>1. PICK c \in Claims, d \in Decisions : DecisionOn(c, d)
      BY <1>10, ReviewCommits
    <2>2. Lifecycle!LastUndecided(c) <=> ~HasPending(Source[c], {c})
      BY DEF Lifecycle!LastUndecided, Lifecycle!ClaimsOf, HasPending, Extracted
    <2>3. assetStatus' = IF Lifecycle!LastUndecided(c)
                         THEN [assetStatus EXCEPT ![Source[c]] = "complete"]
                         ELSE assetStatus
      <3>1. /\ assetStatus \in [Jobs -> AssetStatuses] /\ Source[c] \in Jobs
            /\ assetStatus[Source[c]] = "needs_review"
            /\ assetStatus' = [assetStatus EXCEPT ![Source[c]] =
                                 IF HasPending(Source[c], {c}) THEN "needs_review"
                                 ELSE "complete"]
        BY <2>1, ConstantsAssumption DEF DecisionOn, TypeOK
      <3>2. CASE HasPending(Source[c], {c})
        BY <2>2, <3>1, <3>2
      <3>3. CASE ~HasPending(Source[c], {c})
        BY <2>2, <3>1, <3>3
      <3> QED BY <3>2, <3>3
    <2>4. Lifecycle!Decide(c, d)
      BY <2>1, <2>3 DEF DecisionOn, Lifecycle!Decide
    <2> QED BY <2>4 DEF Lifecycle!Next
  <1>11. CASE \E r \in Reviewers : AbortReview(r)
    BY <1>0, <1>11 DEF AbortReview
  <1>12. CASE UNCHANGED vars
    BY <1>0, <1>12
  <1> QED
    BY <1>1, <1>2, <1>3, <1>4, <1>5, <1>6, <1>7, <1>8, <1>9, <1>10, <1>11, <1>12
       DEF Next

(* Every commit of the pipeline is one step of EvidenceLifecycle.          *)
THEOREM PipelineImplementsLifecycle == Spec => ImplementsLifecycle
  <1>1. QED
    BY LifecycleInitial, LifecycleStep, InvHolds, PTL
       DEF Spec, ImplementsLifecycle, Lifecycle!Spec

-----------------------------------------------------------------------------
(* Who takes a job out of running commits or reports it, and owns it.      *)
LEMMA EndsUnderItsToken ==
  ASSUME Inv, [Next]_vars, NEW j \in Jobs, jobStatus[j] = "running", jobStatus'[j] # "running"
  PROVE  \E w \in Workers : held[w] = j /\ heldToken[w] = leaseToken[j] /\ pc'[w] = "idle"
  <1>0. TypeOK /\ HoldersAgree
    BY DEF Inv
  <1>1. PICK w \in Workers : CommitIngestion(w) \/ FailJob(w)
    <2>1. ~ \E i \in Jobs : CreateEvidenceAsset(i)
      BY <1>0 DEF CreateEvidenceAsset, TypeOK
    <2>2. ~ \E w \in Workers, i \in Jobs : LeaseNextJob(w, i)
      BY <1>0 DEF LeaseNextJob, TypeOK
    <2>3. UNCHANGED jobStatus \/ \E w \in Workers : CommitIngestion(w) \/ FailJob(w)
      BY <2>1, <2>2
         DEF Next, WorkerStep, LockActiveLease, StageIngestion, CommitRefused, FailSuperseded,
             ProcessingFails, Crash, LeaseExpires, BackoffElapses, DecideClaim,
             CompleteReviewIfDecided, CommitReview, AbortReview, vars, jobRows
    <2> QED BY <2>3
  <1>2. jobStatus' \in {[jobStatus EXCEPT ![held[w]] = "completed"],
                        [jobStatus EXCEPT ![held[w]] = "failed"],
                        [jobStatus EXCEPT ![held[w]] = "queued"]}
    BY <1>1 DEF CommitIngestion, FailJob
  <1>3. held[w] = j
    BY <1>0, <1>2 DEF TypeOK
  <1>4. heldToken[w] = leaseToken[j] /\ pc'[w] = "idle"
    BY <1>0, <1>1, <1>3 DEF CommitIngestion, FailJob, Release, HoldersAgree, OwnsAttempt, TypeOK
  <1> QED BY <1>3, <1>4

(* Only the worker whose token the row shows ends an attempt; a superseded *)
(* one finds that it lost the lease (fail_job, _lock_active_lease).        *)
THEOREM AttemptsAreFenced == Spec => FencedByToken
  <1>1. Inv /\ [Next]_vars
        => [\A j \in Jobs :
               jobStatus[j] = "running" /\ jobStatus'[j] # "running"
               => \E w \in Workers : /\ held[w] = j
                                     /\ heldToken[w] = leaseToken[j]
                                     /\ pc'[w] = "idle"]_vars
    BY EndsUnderItsToken
  <1> QED BY <1>1, InvHolds, PTL DEF Spec, FencedByToken

(* No step leases, ends or renews a job that is settled, and no commit     *)
(* overwrites a decision.                                                  *)
LEMMA SettledStays ==
  ASSUME Inv, [Next]_vars
  PROVE  /\ \A j \in Jobs : Settled(j) =>
               UNCHANGED <<jobStatus[j], attempts[j], leaseToken[j], lease[j]>>
         /\ \A c \in Claims : claimStatus[c] \in Decisions => UNCHANGED claimStatus[c]
  <1> USE DEF TypeOK, Settled, Decisions
  <1>0. /\ TypeOK /\ LeasesAgree /\ HoldersAgree /\ ReviewsAgree /\ RowsAgree
    BY DEF Inv
  <1>1. ASSUME NEW j \in Jobs, CreateEvidenceAsset(j)
        PROVE  /\ \A i \in Jobs : Settled(i) =>
                     UNCHANGED <<jobStatus[i], attempts[i], leaseToken[i], lease[i]>>
               /\ UNCHANGED claimStatus
    BY <1>0, <1>1 DEF CreateEvidenceAsset
  <1>2. ASSUME NEW w \in Workers, NEW j \in Jobs, LeaseNextJob(w, j)
        PROVE  /\ \A i \in Jobs : Settled(i) =>
                     UNCHANGED <<jobStatus[i], attempts[i], leaseToken[i], lease[i]>>
               /\ UNCHANGED claimStatus
    BY <1>0, <1>2 DEF LeaseNextJob, Leasable, evidence
  <1>3. ASSUME NEW w \in Workers, CommitIngestion(w)
        PROVE  /\ \A i \in Jobs : Settled(i) =>
                     UNCHANGED <<jobStatus[i], attempts[i], leaseToken[i], lease[i]>>
               /\ \A c \in Claims : claimStatus[c] \in Decisions => UNCHANGED claimStatus[c]
    <2>1. PICK j \in Jobs : j = held[w] /\ IngestionOf(j)
      BY <1>0, <1>3, IngestionCommits
    <2>2. lease' = [lease EXCEPT ![j] = "none"] /\ UNCHANGED <<attempts, leaseToken>>
      BY <1>3, <2>1 DEF CommitIngestion
    <2> QED BY <1>0, <2>1, <2>2 DEF IngestionOf
  <1>4. ASSUME NEW w \in Workers, FailJob(w)
        PROVE  /\ \A i \in Jobs : Settled(i) =>
                     UNCHANGED <<jobStatus[i], attempts[i], leaseToken[i], lease[i]>>
               /\ UNCHANGED claimStatus
    <2>1. jobStatus[held[w]] = "running"
      BY <1>4 DEF FailJob, OwnsAttempt
    <2> QED BY <1>0, <1>4, <2>1 DEF FailJob
  <1>5. ASSUME NEW j \in Jobs, LeaseExpires(j)
        PROVE  /\ \A i \in Jobs : Settled(i) =>
                     UNCHANGED <<jobStatus[i], attempts[i], leaseToken[i], lease[i]>>
               /\ UNCHANGED claimStatus
    BY <1>0, <1>5 DEF LeaseExpires, LeasesAgree, evidence
  <1>6. ASSUME NEW r \in Reviewers, CommitReview(r)
        PROVE  /\ UNCHANGED <<jobStatus, attempts, leaseToken, lease>>
               /\ \A c \in Claims : claimStatus[c] \in Decisions => UNCHANGED claimStatus[c]
    <2>1. PICK c \in Claims, d \in Decisions : DecisionOn(c, d)
      BY <1>0, <1>6, ReviewCommits
    <2> QED BY <1>0, <1>6, <2>1 DEF CommitReview, DecisionOn, jobRows
  <1>7. \/ UNCHANGED <<jobStatus, attempts, leaseToken, lease, claimStatus>>
        \/ \E j \in Jobs : CreateEvidenceAsset(j) \/ LeaseExpires(j)
        \/ \E w \in Workers, j \in Jobs : LeaseNextJob(w, j)
        \/ \E w \in Workers : CommitIngestion(w) \/ FailJob(w)
        \/ \E r \in Reviewers : CommitReview(r)
    BY DEF Next, WorkerStep, LockActiveLease, StageIngestion, CommitRefused, FailSuperseded,
           ProcessingFails, Crash, BackoffElapses, DecideClaim, CompleteReviewIfDecided,
           AbortReview, vars, jobRows, evidence
  <1> QED BY <1>1, <1>2, <1>3, <1>4, <1>5, <1>6, <1>7

(* A settled job and a decided claim are never touched again.              *)
THEOREM SettledAndDecided == Spec => SettledForever
  <1>1. Inv /\ [Next]_vars
        => [/\ \A j \in Jobs : Settled(j) =>
                  UNCHANGED <<jobStatus[j], attempts[j], leaseToken[j], lease[j]>>
            /\ \A c \in Claims : claimStatus[c] \in Decisions => UNCHANGED claimStatus[c]]_vars
    BY SettledStays
  <1> QED BY <1>1, InvHolds, PTL DEF Spec, SettledForever

-----------------------------------------------------------------------------
(* One worker process: the desired_count of the service in ecs.tf, which   *)
(* two exceed only while a release replaces another.                       *)
OneWorker == \A v, w \in Workers : v = w

(* What a worker has detected stays enough, as no other ingests meanwhile  *)
(* and a review makes no claim live again.                                 *)
DetectionHolds == \A w \in Workers : pc[w] = "staged" => DetectedPairs(held[w]) \subseteq found[w]

(* The claims that nobody has rejected or put off.                         *)
Alive(c) == claimStatus[c] \in {"candidate", "accepted"}

(* A step other than a commit of a worker makes no claim live.             *)
LEMMA OnlyCommitsRevive ==
  ASSUME Inv, [Next]_vars, ~ \E w \in Workers : CommitIngestion(w)
  PROVE  /\ \A c \in Claims : Alive(c)' => Alive(c)
         /\ UNCHANGED contradictions
  <1>0. TypeOK /\ ReviewsAgree /\ RowsAgree
    BY DEF Inv
  <1>1. ASSUME NEW r \in Reviewers, CommitReview(r)
        PROVE  /\ \A c \in Claims : Alive(c)' => Alive(c)
               /\ UNCHANGED contradictions
    <2>1. PICK c \in Claims, d \in Decisions : DecisionOn(c, d)
      BY <1>0, <1>1, ReviewCommits
    <2> QED BY <1>0, <1>1, <2>1 DEF CommitReview, DecisionOn, Alive, TypeOK
  <1>2. UNCHANGED <<claimStatus, contradictions>> \/ \E r \in Reviewers : CommitReview(r)
    BY DEF Next, WorkerStep, CreateEvidenceAsset, LeaseNextJob, LockActiveLease, StageIngestion,
           CommitRefused, FailJob, FailSuperseded, ProcessingFails, Crash, LeaseExpires,
           BackoffElapses, DecideClaim, CompleteReviewIfDecided, AbortReview, vars, evidence
  <1> QED BY <1>1, <1>2 DEF Alive

(* With one worker, what it has detected covers what it commits.           *)
LEMMA DetectionStep ==
  ASSUME OneWorker, Inv, DetectionHolds, [Next]_vars
  PROVE  DetectionHolds'
  <1>0. TypeOK /\ HoldersAgree /\ RowsAgree
    BY DEF Inv
  <1>1. ASSUME NEW w \in Workers, CommitIngestion(w) PROVE DetectionHolds'
    <2>1. pc'[w] = "idle"
      BY <1>0, <1>1 DEF CommitIngestion, Release, TypeOK
    <2> QED BY <2>1 DEF OneWorker, DetectionHolds
  <1>2. ASSUME ~ \E w \in Workers : CommitIngestion(w) PROVE DetectionHolds'
    <2>1. \A c \in Claims : Alive(c)' => Alive(c)
      BY <1>2, OnlyCommitsRevive
    <2>2. \A j : DetectedPairs(j)' \subseteq DetectedPairs(j)
      BY <2>1, ConstantsAssumption DEF DetectedPairs, ComparedWith, Extracted, Alive
    <2>3. ASSUME NEW w \in Workers, StageIngestion(w) PROVE DetectionHolds'
      <3>1. extractions[held[w]] = 0
        BY <1>0, <2>3 DEF StageIngestion, HoldersAgree, OwnsAttempt, RowsAgree, IngestedOnce, TypeOK
      <3>2. found'[w] = DetectedPairs(held[w]) /\ held' = held
        BY <1>0, <2>3, <3>1 DEF StageIngestion, TypeOK
      <3> QED BY <2>2, <3>2 DEF OneWorker, DetectionHolds
    <2>4. ASSUME NEW w \in Workers, pc'[w] = "staged", ~StageIngestion(w)
          PROVE  pc[w] = "staged" /\ UNCHANGED <<held[w], found[w]>>
      <3>1. ~ \E v \in Workers : StageIngestion(v) \/ CommitIngestion(v)
        BY <1>2, <2>4 DEF OneWorker
      <3>2. ~ \E v \in Workers, j \in Jobs : LeaseNextJob(v, j)
        BY <1>0, <2>4 DEF OneWorker, LeaseNextJob, TypeOK
      <3>3. ~ \E v \in Workers : \/ LockActiveLease(v) \/ CommitRefused(v) \/ FailJob(v)
                                 \/ FailSuperseded(v) \/ Crash(v)
                                 \/ \E kind \in Faults : ProcessingFails(v, kind)
        BY <1>0, <2>4, ConstantsAssumption
           DEF OneWorker, LockActiveLease, CommitRefused, FailJob, FailSuperseded, Crash,
               ProcessingFails, RollBack, Release, TypeOK
      <3>4. UNCHANGED <<pc, held, found>>
        BY <3>1, <3>2, <3>3
           DEF Next, WorkerStep, CreateEvidenceAsset, LeaseExpires, BackoffElapses, DecideClaim,
               CompleteReviewIfDecided, CommitReview, AbortReview, vars, workerVars
      <3> QED BY <2>4, <3>4
    <2> QED BY <2>2, <2>3, <2>4 DEF DetectionHolds
  <1> QED BY <1>1, <1>2

(* Then every pair that comes to live is recorded with its second claim.   *)
LEMMA ConflictsStep ==
  ASSUME Inv, DetectionHolds, ConflictsRecorded, [Next]_vars
  PROVE  ConflictsRecorded'
  <1>0. TypeOK /\ HoldersAgree /\ RowsAgree
    BY DEF Inv
  <1>1. ASSUME NEW w \in Workers, CommitIngestion(w) PROVE ConflictsRecorded'
    <2>1. PICK j \in Jobs : j = held[w] /\ IngestionOf(j)
      BY <1>0, <1>1, IngestionCommits
    <2>2. contradictions' = contradictions \cup found[w] /\ pc[w] = "staged"
      BY <1>1 DEF CommitIngestion
    <2>3. ASSUME NEW p \in Conflicts, \A c \in p : Alive(c)' PROVE p \in contradictions'
      <3>1. p \subseteq Claims
        BY ConstantsAssumption
      <3>2. \A c \in Claims \ Extracted(j) : Alive(c)' => Alive(c)
        BY <2>1 DEF IngestionOf, Alive
      <3>3. CASE p \cap Extracted(j) = {}
        BY <2>2, <2>3, <3>1, <3>2, <3>3 DEF ConflictsRecorded, Alive
      <3>4. CASE p \cap Extracted(j) # {}
        <4>1. p \subseteq ComparedWith(j)
          BY <2>3, <3>1, <3>2 DEF ComparedWith, Alive
        <4>2. p \in DetectedPairs(j)
          BY <3>4, <4>1 DEF DetectedPairs
        <4> QED BY <2>1, <2>2, <4>2 DEF DetectionHolds
      <3> QED BY <3>3, <3>4
    <2> QED BY <2>3 DEF ConflictsRecorded, Alive
  <1>2. CASE ~ \E w \in Workers : CommitIngestion(w)
    BY <1>2, OnlyCommitsRevive, ConstantsAssumption DEF ConflictsRecorded, Alive
  <1> QED BY <1>1, <1>2

(* With one worker every two live claims that contradict each other have   *)
(* their contradiction row (_detect_contradictions); with two, each may    *)
(* miss what the other has not committed.                                  *)
THEOREM ContradictionsAreRecorded ==
  ASSUME OneWorker
  PROVE  Spec => []ConflictsRecorded
  <1>1. Init => DetectionHolds /\ ConflictsRecorded
    <2>1. Init => DetectionHolds
      BY DEF Init, DetectionHolds
    <2>2. Init => ConflictsRecorded
      <3> SUFFICES ASSUME Init, NEW p \in Conflicts
                   PROVE  ~ \A c \in p : claimStatus[c] \in {"candidate", "accepted"}
        BY DEF ConflictsRecorded
      <3>1. PICK c \in p : c \in Claims
        BY ConstantsAssumption, ConflictsAssumption
      <3> QED BY <3>1 DEF Init
    <2> QED BY <2>1, <2>2
  <1>2. /\ Inv /\ (DetectionHolds /\ ConflictsRecorded) /\ [Next]_vars
        => (DetectionHolds /\ ConflictsRecorded)'
    BY DetectionStep, ConflictsStep
  <1>3. Spec => [](DetectionHolds /\ ConflictsRecorded)
    BY <1>1, <1>2, InvHolds, PTL DEF Spec
  <1> QED BY <1>3, PTL
=============================================================================
