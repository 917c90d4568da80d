\* Two crashes that leave an attempt: the job resumes and completes.  The processes of a
\* release: the one that ends and the one that starts.
SPECIFICATION WorkSpec
CONSTANTS
    JobCount = 2
    Workers = {w1}
    Reviewers = {r1, r2}
    Claims <- AcmeClaims
    NoClaim = NoClaim
    Source <- TwoFiles
    Conflicts <- RuleAndException
    MaxAttempts = 3
    MaxCrashes = 2
    Faults = {}
    p1 = p1
    p2 = p2
    release = release
    Instances = {p1, p2}
    Releases = {release, other}
    ReleaseOf <- MCReleaseOf
    MaxAge = 1
    None = None
INVARIANTS
    ConflictsRecorded
    ReadyIsEarned
PROPERTIES
    EvidenceIngested
    AuthorityLossStops
\* The uploads are bounded: the run ends when all are reviewed.
CHECK_DEADLOCK FALSE
