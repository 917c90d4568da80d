\* Two uploads of one file, a writer, two deletions, every fault.
SPECIFICATION FairSpec
CONSTANTS
    Uploads = {u1, u2}
    File <- SameFile
    Writers = {w1}
    Locking = {w1}
    Deletions = {d1, d2}
    Extensions = {x1}
    Nobody = Nobody
    Faults = {"purge", "database", "lost_ack", "lost_put", "crash"}
    MaxTime = 1
    MaxExports = 2
INVARIANTS
    OneDeletion
    ReceiptTracksStatus
    ExportCoversGuarded
    ObjectsMatchRows
    QualifiedDataIsPurged
    Inv
PROPERTIES
    DeletionEndsOrDies
\* The engagement is gone in the end.
CHECK_DEADLOCK FALSE
