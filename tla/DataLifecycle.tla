--------------------------- MODULE DataLifecycle ---------------------------
(***************************************************************************)
(* Retention, export and permanent deletion of one engagement, against the *)
(* uploads, other writers and workers that are under way when it starts.   *)
(*                                                                         *)
(* A deletion is a transaction (Prepare), a purge of the object store      *)
(* outside any transaction (Sweep, Verify) and a second transaction        *)
(* (Delete); a failure is recorded in a third (MarkFailed).  A transaction *)
(* that locks the engagement row and keeps nothing else open is one        *)
(* action; `holder` is the upload that keeps the row locked over its put.  *)
(* A row is named by the request that inserted it, an object version by    *)
(* the upload that put it.  Times are numbers, and 0 is the deadline that  *)
(* is not set.                                                             *)
(***************************************************************************)
EXTENDS Naturals, FiniteSets

CONSTANTS
    Uploads,        \* upload requests
    File,           \* the content each carries
    Writers,        \* other requests that insert business records
    Locking,        \* those of them that lock the engagement and look again
    Deletions,      \* deletion requests
    Extensions,     \* retention requests
    Nobody,
    Faults,         \* "purge", "database", "lost_ack", "lost_put", "crash"
    MaxTime,        \* bound on the clock
    MaxExports      \* bound on the exports that differ

ASSUME LifecycleAssumption ==
    /\ Uploads \cap Writers = {}
    /\ Locking \subseteq Writers
    /\ Nobody \notin Uploads
    /\ MaxTime \in Nat
    /\ MaxExports \in Nat

Times == 0 .. MaxTime
Requests == Uploads \cup Writers

VARIABLES
    qualified,      \* a sanitized engagement with its design-partner qualification
    status,         \* Engagement.data_lifecycle_status, "deleted" without its row
    deadline,       \* Engagement.retention_expires_at
    now,
    rows,           \* the requests whose records are committed
    worked,         \* the uploads that left another record: of a worker, or of a denial
    objects,        \* the object versions in the store
    exports,        \* the fingerprints of the EngagementExport rows
    receipt,        \* EngagementDeletionReceipt.status, "none" without the row
    fingerprint,    \* EngagementDeletionReceipt.source_fingerprint
    holder,         \* the upload that has the engagement row locked
    upload,         \* where each upload is
    write,          \* where each other writer is
    exporting,      \* the deadline that the export under way has read, if there is one
    extending,      \* the deadline each retention request is about to write
    deletion        \* where each deletion request is

engagement == <<qualified, status, deadline, now>>
records == <<rows, worked, exports>>
receipts == <<receipt, fingerprint>>
requests == <<upload, write, exporting, extending>>
vars == <<engagement, records, objects, receipts, holder, requests, deletion>>

(* What build_export_snapshot digests.                                     *)
Fingerprints ==
    [rows : SUBSET Requests, worked : SUBSET Uploads, deadline : Times]
Nothing == [rows |-> {}, worked |-> {}, deadline |-> 0]

TypeOK ==
    /\ qualified \in BOOLEAN
    /\ status \in {"active", "deletion_processing", "deletion_failed", "deleted"}
    /\ deadline \in Times
    /\ now \in Times
    /\ rows \in SUBSET Requests
    /\ worked \in SUBSET Uploads
    /\ objects \in SUBSET Uploads
    /\ exports \in SUBSET Fingerprints
    /\ receipt \in {"none", "processing", "failed", "completed"}
    /\ fingerprint \in Fingerprints
    /\ holder \in Uploads \cup {Nobody}
    /\ upload \in [Uploads -> {"idle", "authorised", "stored", "done", "lost"}]
    /\ write \in [Writers -> {"idle", "authorised", "done"}]
    /\ exporting \in SUBSET Times
    /\ extending \in [Extensions -> Times]
    /\ deletion \in [Deletions -> {"idle", "purge", "verify", "delete", "failing"}]

(* A qualified engagement was given a deadline with its qualification,     *)
(* whose ceiling is MaxTime.                                               *)
Init ==
    /\ qualified \in BOOLEAN
    /\ status = "active"
    /\ deadline \in IF qualified THEN Times \ {0} ELSE {0}
    /\ now = 0
    /\ rows = {}
    /\ worked = {}
    /\ objects = {}
    /\ exports = {}
    /\ receipt = "none"
    /\ fingerprint = Nothing
    /\ holder = Nobody
    /\ upload = [u \in Uploads |-> "idle"]
    /\ write = [w \in Writers |-> "idle"]
    /\ exporting = {}
    /\ extending = [x \in Extensions |-> 0]
    /\ deletion = [d \in Deletions |-> "idle"]

Exists == status # "deleted"
Unlocked == holder = Nobody
Snapshot(d) == [rows |-> rows, worked |-> worked, deadline |-> d]
Stored == rows \cap Uploads

-----------------------------------------------------------------------------
(* Uploads                                                                 *)

(* The customer data of a qualified engagement may be touched.             *)
Permitted == status = "active" /\ (qualified => deadline > now)

(* The request is authorised, and awaits the body.                         *)
Authorise(u) ==
    /\ upload[u] = "idle"
    /\ Permitted
    /\ upload' = [upload EXCEPT ![u] = "authorised"]
    /\ UNCHANGED <<engagement, records, objects, receipts, holder, write,
                   exporting, extending, deletion>>

(* Mutant: the authorisation before the body is read is the only one.      *)
AuthorisedOnce == TRUE

(* A qualified upload locks the engagement and authorises itself again.    *)
Reauthorised == qualified => Unlocked /\ Permitted

(* A denial is answered, and recorded.                                     *)
Denied(u) ==
    /\ qualified /\ Exists /\ Unlocked /\ ~Permitted
    /\ \/ upload[u] = "idle" /\ status = "active"
       \/ upload[u] = "authorised"
    /\ worked' = worked \cup {u}
    /\ upload' = [upload EXCEPT ![u] = "done"]
    /\ UNCHANGED <<engagement, rows, exports, objects, receipts, holder, write,
                   exporting, extending, deletion>>

Missing(u) ==
    /\ upload[u] = "authorised"
    /\ ~Exists
    /\ upload' = [upload EXCEPT ![u] = "done"]
    /\ UNCHANGED <<engagement, records, objects, receipts, holder, write,
                   exporting, extending, deletion>>

Duplicate(u) == \E v \in Stored : File[v] = File[u]

(* The file is there already: its asset is returned.                       *)
Reuse(u) ==
    /\ upload[u] = "authorised"
    /\ Reauthorised
    /\ Duplicate(u)
    /\ upload' = [upload EXCEPT ![u] = "done"]
    /\ UNCHANGED <<engagement, records, objects, receipts, holder, write,
                   exporting, extending, deletion>>

(* Mutant: a qualified upload does not keep the lock over the put.         *)
HoldNothing(u) == holder' = holder

Hold(u) == holder' = IF qualified THEN u ELSE holder

Store(u) ==
    /\ upload[u] = "authorised"
    /\ Reauthorised
    /\ ~Duplicate(u)
    /\ objects' = objects \cup {u}
    /\ Hold(u)
    /\ upload' = [upload EXCEPT ![u] = "stored"]
    /\ UNCHANGED <<engagement, records, receipts, write, exporting, extending, deletion>>

Release(u) == holder' = IF holder = u THEN Nobody ELSE holder

(* The insert meets the foreign key of the engagement and the unique digest *)
(* of its content.                                                         *)
Insertable(u) == Exists /\ ~Duplicate(u)

Commit(u) ==
    /\ upload[u] = "stored"
    /\ holder \in {u, Nobody}
    /\ Insertable(u)
    /\ rows' = rows \cup {u}
    /\ Release(u)
    /\ upload' = [upload EXCEPT ![u] = "done"]
    /\ UNCHANGED <<engagement, worked, exports, objects, receipts, write,
                   exporting, extending, deletion>>

(* Mutant: the compensation removes every version of the key.              *)
CompensatedByKey(u) == {v \in Uploads : File[v] = File[u]}

(* The versions delete_version removes to compensate for the put of u.     *)
Compensated(u) == {u}

(* The insert is refused or the transaction fails, and the put is undone.  *)
Rollback(u) ==
    /\ upload[u] = "stored"
    /\ objects' = objects \ Compensated(u)
    /\ Release(u)
    /\ upload' = [upload EXCEPT ![u] = "done"]
    /\ UNCHANGED <<engagement, records, receipts, write, exporting, extending, deletion>>

(* The process dies after the put, or the compensation fails.              *)
Lose(u) ==
    /\ "lost_put" \in Faults
    /\ upload[u] = "stored"
    /\ Release(u)
    /\ upload' = [upload EXCEPT ![u] = "lost"]
    /\ UNCHANGED <<engagement, records, objects, receipts, write, exporting,
                   extending, deletion>>

-----------------------------------------------------------------------------
(* Other writers, and the worker                                           *)

BeginWrite(w) ==
    /\ write[w] = "idle"
    /\ status = "active"
    /\ write' = [write EXCEPT ![w] = "authorised"]
    /\ UNCHANGED <<engagement, records, objects, receipts, holder, upload,
                   exporting, extending, deletion>>

(* Mutant: a writer that locks the engagement does not look at its status. *)
StillExists(w) == Exists

StillActive(w) == w \in Locking => status = "active"

CommitWrite(w) ==
    /\ write[w] = "authorised"
    /\ Unlocked
    /\ Exists /\ StillActive(w)
    /\ rows' = rows \cup {w}
    /\ write' = [write EXCEPT ![w] = "done"]
    /\ UNCHANGED <<engagement, worked, exports, objects, receipts, holder, upload,
                   exporting, extending, deletion>>

(* Ingestion or its failure changes the evidence rows.  The worker does not *)
(* look at the status of an engagement before it records a failure, and    *)
(* of one without a qualification not before it ingests either.            *)
Ingest(u) ==
    /\ u \in Stored \ worked
    /\ Unlocked
    /\ worked' = worked \cup {u}
    /\ UNCHANGED <<engagement, rows, exports, objects, receipts, holder, requests,
                   deletion>>

-----------------------------------------------------------------------------
(* Retention and export                                                    *)

Tick ==
    /\ now < MaxTime
    /\ now' = now + 1
    /\ UNCHANGED <<qualified, status, deadline, records, objects, receipts, holder,
                   requests, deletion>>

Extends(t) == t > now /\ t >= deadline

(* The engagement is read without a lock, and written at the commit.       *)
BeginExtension(x) ==
    /\ extending[x] = 0
    /\ status = "active"
    /\ \E t \in Times :
        /\ Extends(t)
        /\ extending' = [extending EXCEPT ![x] = t]
    /\ UNCHANGED <<engagement, records, objects, receipts, holder, upload, write,
                   exporting, deletion>>

CommitExtension(x) ==
    /\ extending[x] # 0
    /\ Unlocked
    /\ Exists
    /\ deadline' = extending[x]
    /\ extending' = [extending EXCEPT ![x] = 0]
    /\ UNCHANGED <<qualified, status, now, records, objects, receipts, holder,
                   upload, write, exporting, deletion>>

AbandonExtension(x) ==
    /\ extending[x] # 0
    /\ extending' = [extending EXCEPT ![x] = 0]
    /\ UNCHANGED <<engagement, records, objects, receipts, holder, upload, write,
                   exporting, deletion>>

(* The route has loaded the engagement before the service locks its row,   *)
(* and the locking query does not load it again.                           *)
BeginExport ==
    /\ exporting = {}
    /\ status = "active"
    /\ exporting' = {deadline}
    /\ UNCHANGED <<engagement, records, objects, receipts, holder, upload, write,
                   extending, deletion>>

CommitExport ==
    /\ exporting # {}
    /\ Unlocked
    /\ Exists
    /\ Stored \subseteq objects
    /\ \E t \in exporting : exports' = exports \cup {Snapshot(t)}
    /\ Cardinality(exports') <= MaxExports
    /\ exporting' = {}
    /\ UNCHANGED <<engagement, rows, worked, objects, receipts, holder, upload, write,
                   extending, deletion>>

AbandonExport ==
    /\ exporting # {}
    /\ exporting' = {}
    /\ UNCHANGED <<engagement, records, objects, receipts, holder, upload, write,
                   extending, deletion>>

-----------------------------------------------------------------------------
(* Permanent deletion                                                      *)

Current(e) == e = Snapshot(deadline)
Lapsed == deadline <= now

(* Mutant: a deletion that has begun may be begun again.                   *)
Restartable == Exists

(* No deletion is under way, by the engagement and by its receipt.         *)
Startable ==
    /\ status \in {"active", "deletion_failed"}
    /\ receipt \in {"none", "failed"}

Prepare(d) ==
    /\ deletion[d] = "idle"
    /\ Unlocked
    /\ Lapsed
    /\ Startable
    /\ \E e \in exports : Current(e) /\ fingerprint' = e
    /\ receipt' = "processing"
    /\ status' = "deletion_processing"
    /\ deletion' = [deletion EXCEPT ![d] = "purge"]
    /\ UNCHANGED <<qualified, deadline, now, records, objects, holder, requests>>

Sweep(d) ==
    /\ deletion[d] = "purge"
    /\ objects' = {}
    /\ deletion' = [deletion EXCEPT ![d] = "verify"]
    /\ UNCHANGED <<engagement, records, receipts, holder, requests>>

(* Listing or deleting fails after some of the versions are gone.          *)
SweepFails(d) ==
    /\ "purge" \in Faults
    /\ deletion[d] = "purge"
    /\ objects' \in SUBSET objects
    /\ deletion' = [deletion EXCEPT ![d] = "failing"]
    /\ UNCHANGED <<engagement, records, receipts, holder, requests>>

(* Mutant: the prefix is listed until it is empty.                         *)
WaitForEmpty == IF objects = {} THEN "delete" ELSE "verify"

(* The prefix is listed once more, and must be empty.                      *)
Verdict == IF objects = {} THEN "delete" ELSE "failing"

Verify(d) ==
    /\ deletion[d] = "verify"
    /\ deletion' = [deletion EXCEPT ![d] = Verdict]
    /\ UNCHANGED <<engagement, records, objects, receipts, holder, requests>>

(* The second transaction deletes the engagement and, by cascade, its rows. *)
Remove ==
    /\ status = "deletion_processing"
    /\ Unlocked
    /\ status' = "deleted"
    /\ rows' = {}
    /\ worked' = {}
    /\ exports' = {}
    /\ receipt' = "completed"
    /\ UNCHANGED <<qualified, deadline, now, objects, fingerprint, holder, requests>>

Delete(d) ==
    /\ deletion[d] = "delete"
    /\ Remove
    /\ deletion' = [deletion EXCEPT ![d] = "idle"]

(* The commit happens, and its acknowledgement does not arrive.            *)
DeleteUnacknowledged(d) ==
    /\ "lost_ack" \in Faults
    /\ deletion[d] = "delete"
    /\ Remove
    /\ deletion' = [deletion EXCEPT ![d] = "failing"]

DeleteFails(d) ==
    /\ deletion[d] = "delete"
    /\ "database" \in Faults \/ status # "deletion_processing"
    /\ deletion' = [deletion EXCEPT ![d] = "failing"]
    /\ UNCHANGED <<engagement, records, objects, receipts, holder, requests>>

(* Mutant: only the receipt says that the deletion has failed.             *)
ReceiptFails ==
    /\ receipt' = "failed"
    /\ UNCHANGED status

BothFail ==
    /\ receipt' = "failed"
    /\ status' = IF Exists THEN "deletion_failed" ELSE status

MarkFailed(d) ==
    /\ deletion[d] = "failing"
    /\ Unlocked
    /\ BothFail
    /\ deletion' = [deletion EXCEPT ![d] = "idle"]
    /\ UNCHANGED <<qualified, deadline, now, records, objects, fingerprint, holder,
                   requests>>

(* The process dies, or the failure cannot be recorded.                    *)
Crash(d) ==
    /\ "crash" \in Faults
    /\ deletion[d] # "idle"
    /\ deletion' = [deletion EXCEPT ![d] = "idle"]
    /\ UNCHANGED <<engagement, records, objects, receipts, holder, requests>>

-----------------------------------------------------------------------------
UploadStep(u) ==
    \/ Authorise(u) \/ Denied(u) \/ Missing(u) \/ Reuse(u) \/ Store(u)
    \/ Commit(u) \/ Rollback(u) \/ Lose(u) \/ Ingest(u)

WriterStep(w) == BeginWrite(w) \/ CommitWrite(w)

OwnerStep ==
    \/ BeginExport \/ CommitExport \/ AbandonExport
    \/ \E x \in Extensions :
        BeginExtension(x) \/ CommitExtension(x) \/ AbandonExtension(x)

DeletionStep(d) ==
    \/ Prepare(d) \/ Sweep(d) \/ SweepFails(d) \/ Verify(d) \/ Delete(d)
    \/ DeleteUnacknowledged(d) \/ DeleteFails(d) \/ MarkFailed(d) \/ Crash(d)

Next ==
    \/ Tick
    \/ OwnerStep
    \/ \E u \in Uploads : UploadStep(u)
    \/ \E w \in Writers : WriterStep(w)
    \/ \E d \in Deletions : DeletionStep(d)

Spec == Init /\ [][Next]_vars

(* A request that has begun runs on: an upload that has put its object     *)
(* commits or rolls back, a deletion goes through its steps.               *)
Fairness ==
    /\ \A u \in Uploads : WF_vars(Commit(u) \/ Rollback(u) \/ Lose(u))
    /\ \A d \in Deletions :
        WF_vars(Sweep(d) \/ Verify(d) \/ Delete(d) \/ MarkFailed(d))

FairSpec == Spec /\ Fairness

-----------------------------------------------------------------------------
(* Properties                                                              *)

UnderWay(d) == deletion[d] # "idle"

(* One deletion at a time: between the transactions of a deletion          *)
(* no other one starts, though the engagement is not locked.               *)
OneDeletion == \A c, d \in Deletions : UnderWay(c) /\ UnderWay(d) => c = d

(* The receipt, which outlives the engagement, and the engagement agree    *)
(* about how far the deletion has come, whatever fails: it says completed  *)
(* only of an engagement that is gone.                                     *)
ReceiptTracksStatus ==
    /\ status = "active" <=> receipt = "none"
    /\ status = "deletion_processing" <=> receipt = "processing"
    /\ status = "deletion_failed" => receipt = "failed"
    /\ receipt = "completed" => status = "deleted"

(* The requests that look at the engagement under its lock.                *)
Guarded == Locking \cup (IF qualified THEN Uploads ELSE {})

(* Once a deletion has begun, everything that is going to be deleted and   *)
(* was written by a request that locks the engagement is in the            *)
(* export of the receipt.                                                  *)
ExportCoversGuarded ==
    status \in {"deletion_processing", "deletion_failed"} =>
        rows \cap Guarded \subseteq fingerprint.rows

(* In an active engagement every asset can be read back, and every object  *)
(* belongs to an asset, to an upload under way or to a failed one: neither *)
(* a lost race for a digest nor its compensation touches another's         *)
(* version.                                                                *)
ObjectsMatchRows ==
    status = "active" =>
        /\ \A u \in Uploads : u \in Stored \/ upload[u] = "stored" => u \in objects
        /\ \A u \in objects \ Stored : upload[u] \in {"stored", "lost"}

(* No object of the engagement is left when it is gone and its uploads     *)
(* have ended.                                                             *)
NothingOutlivesDeletion ==
    status = "deleted" /\ (\A u \in Uploads : upload[u] # "stored") => objects = {}

(* The uploads of a qualified engagement lock it over the put, so none     *)
(* slips in between the purge and the second transaction.                  *)
QualifiedDataIsPurged == qualified => NothingOutlivesDeletion

(* A deletion starts only after the deadline its export knows, so all that *)
(* can extend the retention of an engagement that is being deleted is a    *)
(* request that read it before.                                            *)
RetentionRespected == status # "active" => fingerprint.deadline <= now

(* What the properties rest on.  An upload that is storing has no asset,   *)
(* and a qualified one has the engagement locked, which keeps it active.   *)
UploadsAgree ==
    /\ \A u \in Stored : upload[u] = "done"
    /\ \A u \in Uploads : qualified /\ upload[u] = "stored" => holder = u
    /\ ~Unlocked => qualified /\ status = "active"

(* A deletion under way has the status to itself, and one that has found   *)
(* the prefix of a qualified engagement empty finds it so to its end.      *)
DeletionsAgree ==
    /\ \A d \in Deletions :
        UnderWay(d) => status \in {"deletion_processing", "deleted"}
    /\ qualified /\ (status = "deleted" \/ \E d \in Deletions : deletion[d] = "delete")
        => objects = {}

(* The inductive invariant.                                                *)
Inv ==
    /\ TypeOK
    /\ UploadsAgree
    /\ DeletionsAgree
    /\ OneDeletion
    /\ ReceiptTracksStatus
    /\ ExportCoversGuarded
    /\ ObjectsMatchRows
    /\ RetentionRespected

(* A deletion ends, deleted or failed, unless its process dies.            *)
DeletionEndsOrDies ==
    status = "deletion_processing" ~>
        status # "deletion_processing" \/ \A d \in Deletions : ~UnderWay(d)
=============================================================================
