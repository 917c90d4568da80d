\* An upload that was authorised before a deletion and stores its file after
\* the purge: its object is left when the engagement is gone.
SPECIFICATION Spec
CONSTANTS
    Uploads = {u1}
    File <- SameFile
    Writers = {}
    Locking = {}
    Deletions = {d1}
    Extensions = {}
    Nobody = Nobody
    Faults = {}
    MaxTime = 1
    MaxExports = 1
INVARIANTS NothingOutlivesDeletion
\* The engagement is gone in the end.
CHECK_DEADLOCK FALSE
