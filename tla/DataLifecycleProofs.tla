------------------------ MODULE DataLifecycleProofs ------------------------
(***************************************************************************)
(* Theorems about DataLifecycle for any number of uploads, writers and     *)
(* deletions, and under every fault.  The lemmas take the conjuncts of Inv *)
(* one by one.  What holds them together is that nothing but a deletion    *)
(* moves the status, that only one deletion is under way, and that it      *)
(* starts while no qualified upload has the engagement locked.             *)
(***************************************************************************)
EXTENDS DataLifecycle, TLAPS

USE DEF engagement, records, receipts, requests

(* The deadline that is not set, and the clock after a tick, are times.    *)
LEMMA TimesClosed ==
    ASSUME NEW t \in Times
    PROVE  0 \in Times /\ (t < MaxTime => t + 1 \in Times)
BY LifecycleAssumption DEF Times

(* A snapshot of well-typed rows is a fingerprint.                         *)
LEMMA SnapshotTyped ==
    ASSUME TypeOK, NEW t \in Times
    PROVE  Snapshot(t) \in Fingerprints
BY DEF TypeOK, Snapshot, Fingerprints

(* No step leaves the types.                                               *)
LEMMA TypeStep == TypeOK /\ [Next]_vars => TypeOK'
<1> SUFFICES ASSUME TypeOK, [Next]_vars PROVE TypeOK'
    OBVIOUS
<1> USE DEF TypeOK
<1>1. CASE Tick
  BY <1>1, TimesClosed DEF Tick
<1>2. CASE BeginExport \/ AbandonExport
  BY <1>2 DEF BeginExport, AbandonExport
<1>3. CASE CommitExport
  BY <1>3, SnapshotTyped DEF CommitExport
<1>4. ASSUME NEW x \in Extensions,
             BeginExtension(x) \/ CommitExtension(x) \/ AbandonExtension(x)
      PROVE  TypeOK'
  BY <1>4, TimesClosed DEF BeginExtension, CommitExtension, AbandonExtension
<1>5. ASSUME NEW u \in Uploads, UploadStep(u) PROVE TypeOK'
  <2>1. CASE Authorise(u) \/ Denied(u) \/ Missing(u) \/ Reuse(u) \/ Ingest(u)
    BY <2>1 DEF Authorise, Denied, Missing, Reuse, Ingest, Stored
  <2>2. CASE Store(u)
    BY <2>2 DEF Store, Hold
  <2>3. CASE Commit(u)
    BY <2>3 DEF Commit, Release, Requests
  <2>4. CASE Rollback(u) \/ Lose(u)
    BY <2>4 DEF Rollback, Lose, Release, Compensated
  <2> QED BY <1>5, <2>1, <2>2, <2>3, <2>4 DEF UploadStep
<1>6. ASSUME NEW w \in Writers, WriterStep(w) PROVE TypeOK'
  BY <1>6 DEF WriterStep, BeginWrite, CommitWrite, Requests
<1>7. ASSUME NEW d \in Deletions, DeletionStep(d) PROVE TypeOK'
  <2>1. CASE Prepare(d)
    BY <2>1 DEF Prepare
  <2>2. CASE Sweep(d) \/ SweepFails(d) \/ Verify(d) \/ DeleteFails(d) \/ Crash(d)
    BY <2>2 DEF Sweep, SweepFails, Verify, Verdict, DeleteFails, Crash
  <2>3. CASE Delete(d) \/ DeleteUnacknowledged(d)
    BY <2>3 DEF Delete, DeleteUnacknowledged, Remove
  <2>4. CASE MarkFailed(d)
    BY <2>4 DEF MarkFailed, BothFail
  <2> QED BY <1>7, <2>1, <2>2, <2>3, <2>4 DEF DeletionStep
<1>8. CASE UNCHANGED vars
  BY <1>8 DEF vars
<1> QED BY <1>1, <1>2, <1>3, <1>4, <1>5, <1>6, <1>7, <1>8 DEF Next, OwnerStep

(* The rows, objects and requests of an engagement keep their types.       *)
THEOREM LifecycleTypes == Spec => []TypeOK
<1>1. Init => TypeOK
  BY LifecycleAssumption DEF Init, TypeOK, Times, Fingerprints, Nothing
<1> QED BY <1>1, TypeStep, PTL DEF Spec

-----------------------------------------------------------------------------
(* The invariant                                                           *)

(* What the uploads and the deletions agree on.                            *)
Aside == UNCHANGED <<qualified, status, rows, objects, receipts, holder, upload, deletion>>

(* The clock and the owner's exports and retention requests touch none of  *)
(* it (set_retention_deadline, create_engagement_export).                  *)
LEMMA AsideSteps == Tick \/ OwnerStep => Aside
BY DEF Aside, Tick, OwnerStep, BeginExport, CommitExport, AbandonExport,
       BeginExtension, CommitExtension, AbandonExtension

(* The row of an upload is inserted when its file is stored, and a         *)
(* qualified upload has the engagement locked in between.                  *)
LEMMA UploadsStep == TypeOK /\ UploadsAgree /\ [Next]_vars => UploadsAgree'
<1> SUFFICES ASSUME TypeOK, UploadsAgree, [Next]_vars PROVE UploadsAgree'
    OBVIOUS
<1> USE DEF UploadsAgree, TypeOK, Stored, Unlocked
<1>1. CASE Tick \/ OwnerStep
  BY <1>1, AsideSteps DEF Aside
<1>2. ASSUME NEW u \in Uploads, UploadStep(u) PROVE UploadsAgree'
  <2>1. CASE Authorise(u) \/ Denied(u) \/ Missing(u) \/ Reuse(u) \/ Ingest(u)
    BY <2>1, LifecycleAssumption DEF Authorise, Denied, Missing, Reuse, Ingest
  <2>2. CASE Store(u)
    BY <2>2, LifecycleAssumption DEF Store, Hold, Reauthorised, Permitted
  <2>3. CASE Commit(u)
    BY <2>3, LifecycleAssumption DEF Commit, Release
  <2>4. CASE Rollback(u) \/ Lose(u)
    BY <2>4, LifecycleAssumption DEF Rollback, Lose, Release
  <2> QED BY <1>2, <2>1, <2>2, <2>3, <2>4 DEF UploadStep
<1>3. ASSUME NEW w \in Writers, WriterStep(w) PROVE UploadsAgree'
  BY <1>3, LifecycleAssumption DEF WriterStep, BeginWrite, CommitWrite
<1>4. ASSUME NEW d \in Deletions, DeletionStep(d) PROVE UploadsAgree'
  BY <1>4 DEF DeletionStep, Prepare, Sweep, SweepFails, Verify, Delete, Remove,
              DeleteUnacknowledged, DeleteFails, MarkFailed, Crash
<1>5. CASE UNCHANGED vars
  BY <1>5 DEF vars
<1> QED BY <1>1, <1>2, <1>3, <1>4, <1>5 DEF Next

(* What deletions alone write.                                             *)
Outside == UNCHANGED <<qualified, status, receipts, deletion>>

(* Uploads, other writers and workers leave the status and the receipt to  *)
(* delete_engagement_permanently.                                          *)
LEMMA OutsideSteps ==
    ASSUME \/ Tick \/ OwnerStep
           \/ \E u \in Uploads : UploadStep(u)
           \/ \E w \in Writers : WriterStep(w)
    PROVE  Outside
<1>1. ASSUME NEW u \in Uploads, UploadStep(u) PROVE Outside
  BY <1>1 DEF Outside, UploadStep, Authorise, Denied, Missing, Reuse, Store, Commit,
              Rollback, Lose, Ingest
<1>2. ASSUME NEW w \in Writers, WriterStep(w) PROVE Outside
  BY <1>2 DEF Outside, WriterStep, BeginWrite, CommitWrite
<1> QED BY <1>1, <1>2, AsideSteps DEF Aside, Outside

(* A deletion starts when none is under way and ends by itself; only an    *)
(* upload puts objects, and of a qualified engagement only an active one.  *)
LEMMA DeletionsStep ==
    TypeOK /\ DeletionsAgree /\ OneDeletion /\ [Next]_vars
        => DeletionsAgree' /\ OneDeletion'
<1> SUFFICES ASSUME TypeOK, DeletionsAgree, OneDeletion, [Next]_vars
             PROVE  DeletionsAgree' /\ OneDeletion'
    OBVIOUS
<1> USE DEF DeletionsAgree, OneDeletion, UnderWay, TypeOK
<1>1. CASE Tick \/ OwnerStep
  BY <1>1, AsideSteps DEF Aside
<1>2. ASSUME NEW u \in Uploads, UploadStep(u)
      PROVE  DeletionsAgree' /\ OneDeletion'
  <2>1. Outside
    BY <1>2, OutsideSteps
  <2>2. CASE Store(u)
    BY <2>1, <2>2 DEF Outside, Store, Reauthorised, Permitted
  <2>3. CASE objects' \subseteq objects
    BY <2>1, <2>3 DEF Outside
  <2> QED BY <1>2, <2>2, <2>3 DEF UploadStep, Authorise, Denied, Missing, Reuse, Commit,
                Rollback, Lose, Ingest
<1>3. ASSUME NEW w \in Writers, WriterStep(w)
      PROVE  DeletionsAgree' /\ OneDeletion'
  BY <1>3 DEF WriterStep, BeginWrite, CommitWrite
<1>4. ASSUME NEW d \in Deletions, DeletionStep(d)
      PROVE  DeletionsAgree' /\ OneDeletion'
  <2>1. CASE Prepare(d)
    BY <2>1 DEF Prepare, Startable
  <2>2. CASE Sweep(d) \/ SweepFails(d) \/ DeleteFails(d) \/ Crash(d)
    BY <2>2 DEF Sweep, SweepFails, DeleteFails, Crash
  <2>3. CASE Verify(d)
    BY <2>3 DEF Verify, Verdict
  <2>4. CASE Delete(d) \/ DeleteUnacknowledged(d)
    BY <2>4 DEF Delete, DeleteUnacknowledged, Remove
  <2>5. CASE MarkFailed(d)
    BY <2>5 DEF MarkFailed, BothFail, Exists
  <2> QED BY <1>4, <2>1, <2>2, <2>3, <2>4, <2>5 DEF DeletionStep
<1>5. CASE UNCHANGED vars
  BY <1>5 DEF vars
<1> QED BY <1>1, <1>2, <1>3, <1>4, <1>5 DEF Next

(* The status and the receipt move together, by the three transactions of  *)
(* a deletion; the deadline in the receipt's fingerprint lies behind.      *)
LEMMA ReceiptStep ==
    /\ TypeOK /\ DeletionsAgree /\ ReceiptTracksStatus /\ RetentionRespected
    /\ [Next]_vars
    => ReceiptTracksStatus' /\ RetentionRespected'
<1> SUFFICES ASSUME TypeOK, DeletionsAgree, ReceiptTracksStatus, RetentionRespected,
                    [Next]_vars
             PROVE  ReceiptTracksStatus' /\ RetentionRespected'
    OBVIOUS
<1> USE DEF ReceiptTracksStatus, RetentionRespected
<1>1. now' = now \/ now' = now + 1
  BY DEF Next, Tick, OwnerStep, BeginExport, CommitExport, AbandonExport,
         BeginExtension, CommitExtension, AbandonExtension, UploadStep, Authorise,
         Denied, Missing, Reuse, Store, Commit, Rollback, Lose, Ingest, WriterStep,
         BeginWrite, CommitWrite, DeletionStep, Prepare, Sweep, SweepFails, Verify,
         Delete, DeleteUnacknowledged, Remove, DeleteFails, MarkFailed, Crash, vars
<1>2. now \in Nat /\ fingerprint.deadline \in Nat
  BY DEF TypeOK, Fingerprints, Times
<1>3. CASE Outside
  BY <1>1, <1>2, <1>3 DEF Outside
<1>4. ASSUME NEW d \in Deletions, DeletionStep(d)
      PROVE  ReceiptTracksStatus' /\ RetentionRespected'
  <2>1. CASE Prepare(d)
    BY <2>1, <1>2 DEF Prepare, Startable, Current, Snapshot, Lapsed
  <2>2. CASE Sweep(d) \/ SweepFails(d) \/ Verify(d) \/ DeleteFails(d) \/ Crash(d)
    BY <2>2 DEF Sweep, SweepFails, Verify, DeleteFails, Crash
  <2>3. CASE Delete(d) \/ DeleteUnacknowledged(d)
    BY <2>3 DEF Delete, DeleteUnacknowledged, Remove
  <2>4. CASE MarkFailed(d)
    BY <2>4 DEF MarkFailed, BothFail, Exists, DeletionsAgree, UnderWay
  <2> QED BY <1>4, <2>1, <2>2, <2>3, <2>4 DEF DeletionStep
<1>5. CASE UNCHANGED vars
  BY <1>5 DEF vars
<1> QED BY <1>3, <1>4, <1>5, OutsideSteps DEF Next

(* While a deletion is under way or has failed, a guarded request inserts  *)
(* nothing: it finds the engagement not active, or has kept it locked.     *)
LEMMA ExportStep ==
    /\ TypeOK /\ UploadsAgree /\ DeletionsAgree /\ ExportCoversGuarded
    /\ [Next]_vars
    => ExportCoversGuarded'
<1> SUFFICES ASSUME TypeOK, UploadsAgree, DeletionsAgree, ExportCoversGuarded,
                    [Next]_vars
             PROVE  ExportCoversGuarded'
    OBVIOUS
<1> USE DEF ExportCoversGuarded, Guarded
<1>1. CASE Tick \/ OwnerStep
  BY <1>1, AsideSteps DEF Aside
<1>2. ASSUME NEW u \in Uploads, UploadStep(u) PROVE ExportCoversGuarded'
  <2>1. CASE Commit(u)
    BY <2>1, LifecycleAssumption DEF Commit, UploadsAgree, Unlocked
  <2>2. CASE rows' = rows
    BY <1>2, <2>2, OutsideSteps DEF Outside
  <2> QED BY <1>2, <2>1, <2>2 DEF UploadStep, Authorise, Denied, Missing, Reuse, Store,
                Rollback, Lose, Ingest
<1>3. ASSUME NEW w \in Writers, WriterStep(w) PROVE ExportCoversGuarded'
  BY <1>3, LifecycleAssumption DEF WriterStep, BeginWrite, CommitWrite, StillActive
<1>4. ASSUME NEW d \in Deletions, DeletionStep(d) PROVE ExportCoversGuarded'
  BY <1>4 DEF DeletionStep, Prepare, Current, Snapshot, Sweep, SweepFails, Verify, Delete,
              DeleteUnacknowledged, Remove, DeleteFails, MarkFailed, BothFail, Exists,
              Crash, DeletionsAgree, UnderWay
<1>5. CASE UNCHANGED vars
  BY <1>5 DEF vars
<1> QED BY <1>1, <1>2, <1>3, <1>4, <1>5 DEF Next

(* A compensation removes the version of its own upload, which has no row. *)
LEMMA ObjectsStep ==
    /\ TypeOK /\ UploadsAgree /\ DeletionsAgree /\ ObjectsMatchRows
    /\ [Next]_vars
    => ObjectsMatchRows'
<1> SUFFICES ASSUME TypeOK, UploadsAgree, DeletionsAgree, ObjectsMatchRows, [Next]_vars
             PROVE  ObjectsMatchRows'
    OBVIOUS
<1> USE DEF ObjectsMatchRows, Stored, TypeOK
<1>1. CASE Tick \/ OwnerStep
  BY <1>1, AsideSteps DEF Aside
<1>2. ASSUME NEW u \in Uploads, UploadStep(u) PROVE ObjectsMatchRows'
  <2>1. CASE Authorise(u) \/ Denied(u) \/ Missing(u) \/ Reuse(u) \/ Ingest(u)
    BY <2>1 DEF Authorise, Denied, Missing, Reuse, Ingest
  <2>2. CASE Store(u)
    BY <2>2 DEF Store
  <2>3. CASE Commit(u)
    BY <2>3 DEF Commit
  <2>4. CASE Rollback(u)
    <3>1. u \notin Stored
      BY <2>4 DEF Rollback, UploadsAgree
    <3> QED BY <2>4, <3>1 DEF Rollback, Compensated
  <2>5. CASE Lose(u)
    BY <2>5 DEF Lose
  <2> QED BY <1>2, <2>1, <2>2, <2>3, <2>4, <2>5 DEF UploadStep
<1>3. ASSUME NEW w \in Writers, WriterStep(w) PROVE ObjectsMatchRows'
  BY <1>3, LifecycleAssumption DEF WriterStep, BeginWrite, CommitWrite
<1>4. ASSUME NEW d \in Deletions, DeletionStep(d) PROVE ObjectsMatchRows'
  BY <1>4 DEF DeletionStep, Prepare, Sweep, SweepFails, Verify, Delete,
              DeleteUnacknowledged, Remove, DeleteFails, MarkFailed, BothFail, Exists,
              Crash, DeletionsAgree, UnderWay
<1>5. CASE UNCHANGED vars
  BY <1>5 DEF vars
<1> QED BY <1>1, <1>2, <1>3, <1>4, <1>5 DEF Next

(* Before anything has happened the invariant holds.                       *)
LEMMA InvInit == Init => Inv
<1> SUFFICES ASSUME Init PROVE Inv
    OBVIOUS
<1>1. TypeOK
  BY LifecycleAssumption DEF Init, TypeOK, Times, Fingerprints, Nothing
<1> QED BY <1>1 DEF Init, Inv, UploadsAgree, DeletionsAgree, UnderWay, OneDeletion,
                    ReceiptTracksStatus, ExportCoversGuarded, ObjectsMatchRows, Stored,
                    RetentionRespected, Unlocked

(* The strengthening of the properties is inductive: uploads and deletions *)
(* agree on who has the engagement.                                        *)
THEOREM LifecycleInvariant == Spec => []Inv
<1>1. Inv /\ [Next]_vars => Inv'
  BY TypeStep, UploadsStep, DeletionsStep, ReceiptStep, ExportStep, ObjectsStep DEF Inv
<1> QED BY <1>1, InvInit, PTL DEF Spec

(* No second deletion starts between the transactions of the first.        *)
THEOREM DeletionIsExclusive == Spec => []OneDeletion
<1>1. Inv => OneDeletion
  BY DEF Inv
<1> QED BY <1>1, LifecycleInvariant, PTL

(* Whatever fails, the receipt and the engagement tell the same of a       *)
(* deletion, and only a deletion that has happened is called completed.    *)
THEOREM ReceiptIsTruthful == Spec => []ReceiptTracksStatus
<1>1. Inv => ReceiptTracksStatus
  BY DEF Inv
<1> QED BY <1>1, LifecycleInvariant, PTL

(* What a request wrote under the lock of the engagement is not deleted    *)
(* without having been exported.                                           *)
THEOREM GuardedDataIsExported == Spec => []ExportCoversGuarded
<1>1. Inv => ExportCoversGuarded
  BY DEF Inv
<1> QED BY <1>1, LifecycleInvariant, PTL

(* Every asset of an active engagement can be read, and no object is left  *)
(* by an upload that was rolled back.                                      *)
THEOREM AssetsAreReadable == Spec => []ObjectsMatchRows
<1>1. Inv => ObjectsMatchRows
  BY DEF Inv
<1> QED BY <1>1, LifecycleInvariant, PTL

(* When a qualified engagement is gone, so are its objects.                *)
THEOREM QualifiedPurge == Spec => []QualifiedDataIsPurged
<1>1. Inv => QualifiedDataIsPurged
  BY DEF Inv, DeletionsAgree, QualifiedDataIsPurged, NothingOutlivesDeletion
<1> QED BY <1>1, LifecycleInvariant, PTL
=============================================================================
